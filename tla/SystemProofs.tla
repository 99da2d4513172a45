---------------------------- MODULE SystemProofs ----------------------------
(***************************************************************************)
(* Proofs about ResetProp and about the machines of Services and of Data.  *)
(* A theorem speaks of one machine, for all values of its constants.       *)
(***************************************************************************)
EXTENDS ResetProp, Services, Data, Integers, SequenceTheorems, FiniteSetTheorems, WellFoundedInduction, TLAPS

-----------------------------------------------------------------------------
(* LiveDisplay: setDisplayMode over crashes. *)

(* The modes in use are known ones; a mode that is about to be written was   *)
(* asked for by a call that passed the check, or read from the file. *)
LD_Modes ==
    /\ LD!DefaultKnown /\ ld_modeMax \in Nat
    /\ ld_at \in {"setDefault", "default", "flushDefault", "flushMode"} => ld_call.id \in 0 .. 4
    /\ ld_at \in {"setDefault", "main"} => ld_result = "none"

(* The default accepted last is in memory, and in the file unless it is just *)
(* being written. *)
LD_Default ==
    ~ld_lost => /\ ld_at # "down" => ld_mDefaultModeId = ld_last
                /\ ld_at = "flushDefault" => ld_call.id = ld_last
                /\ ld_at # "flushDefault" => LD!DefaultRead(ld_defaultFile) = ld_last

LD_IInv == LD_Modes /\ LD_Default /\ LD!ModeApplied

LEMMA LD_Init == LD!Init => LD_IInv
BY DEF LD!Init, LD_IInv, LD_Modes, LD_Default, LD!ModeApplied, LD!DefaultKnown, LD!kModeMap, LD!DefaultRead,
       LD!Empty, LD!Absent

LEMMA LD_Step ==
    ASSUME LD_IInv, [LD!Next]_LD!vars
    PROVE  LD_IInv'
<1> USE DEF LD_IInv, LD_Modes, LD_Default, LD!ModeApplied, LD!DefaultKnown, LD!kModeMap, LD!DefaultRead,
            LD!Empty, LD!Absent, LD!getCurrentDisplayMode, LD!getDisplayModes, LD!panel
<1>1. CASE LD!Construct
  BY <1>1 DEF LD!Construct
<1>2. CASE LD!SetDefault
  BY <1>2 DEF LD!SetDefault, LD!ModeWritten
<1>3. CASE LD!Register
  BY <1>3 DEF LD!Register
<1>4. CASE LD!Crash
  BY <1>4 DEF LD!Crash
<1>5. CASE LD!OtherSetsMode
  BY <1>5 DEF LD!OtherSetsMode
<1>6. ASSUME NEW id \in DisplayIds, NEW makeDefault \in BOOLEAN, LD!setDisplayMode(id, makeDefault)
      PROVE  LD_IInv'
  BY <1>6 DEF LD!setDisplayMode, LD!Known
<1>7. CASE LD!OpenDefault
  BY <1>7 DEF LD!OpenDefault
<1>8. CASE LD!FlushDefault
  BY <1>8 DEF LD!FlushDefault, LD!FileWritten
<1>9. CASE LD!FlushMode
  BY <1>9 DEF LD!FlushMode, LD!ModeWritten
<1>10. ASSUME NEW c \in Calibrations, LD!setCalibration(c)
       PROVE  LD_IInv'
  BY <1>10 DEF LD!setCalibration
<1>11. ASSUME NEW enabled \in BOOLEAN, LD!setEnabled(enabled)
       PROVE  LD_IInv'
  BY <1>11 DEF LD!setEnabled
<1>12. CASE UNCHANGED LD!vars
  BY <1>12 DEF LD!vars
<1> HIDE DEF LD_IInv
<1> QED BY <1>1, <1>2, <1>3, <1>4, <1>5, <1>6, <1>7, <1>8, <1>9, <1>10, <1>11, <1>12 DEF LD!Next

(* setDisplayMode: through any number of calls, failed writes and crashes of  *)
(* the service, the default that was accepted last is the default after a     *)
(* restart unless its own write was lost, every mode kept is a known one, and *)
(* a call that answered true has set the mode if it is one that is offered.   *)
THEOREM Display == LD!Spec => []DisplayInv
<1>1. LD_IInv => DisplayInv
  BY DEF LD_IInv, LD_Modes, LD_Default, DisplayInv, LD!DisplayInv, LD!DefaultSurvives
<1>2. LD_IInv /\ [LD!Next]_LD!vars => LD_IInv'
  BY LD_Step
<1> QED BY <1>1, <1>2, LD_Init, PTL DEF LD!Spec

-----------------------------------------------------------------------------
(* BluetoothAddress: get_local_address. *)

BA_IInv ==
    /\ ba_file \in AddressTexts \cup {BA!Nothing} /\ ba_factory \in AddressTexts \cup {BA!Nothing} /\ ba_persist \in AddressTexts \cup {BA!Nothing}
    /\ ba_at # "done" => ba_result = "none"
    /\ BA!OneSource

(* Six bytes fill the buffer, whatever was in it. *)
LEMMA BA_Filled ==
    ASSUME NEW text, text.len \in Nat, text.bytes \in Seq(Int), BA!string_to_bytes(text)
    PROVE  BA!Filled(text) = text.bytes
<1>1. Len(text.bytes) = 6 /\ ~(text.len < 17)
  BY DEF BA!string_to_bytes, BA!kStringLength, BA!kBytes
<1>2. BA!Filled(text) = [i \in 1 .. 6 |-> IF i <= Len(text.bytes) THEN text.bytes[i] ELSE ba_local_addr[i]]
  BY <1>1 DEF BA!Filled, BA!kStringLength, BA!kBytes
<1>3. BA!Filled(text) = [i \in 1 .. 6 |-> text.bytes[i]]
  BY <1>1, <1>2
<1>4. text.bytes = [i \in 1 .. 6 |-> text.bytes[i]]
  <2>1. PICK b : b = text.bytes
    OBVIOUS
  <2>2. b \in Seq(Int) /\ Len(b) = 6
    BY <1>1, <2>1
  <2>3. b \in [1 .. 6 -> Int]
    BY <2>2, LenProperties
  <2>4. b = [i \in 1 .. 6 |-> b[i]]
    BY <2>3
  <2> QED BY <2>1, <2>4
<1> QED BY <1>3, <1>4

(* The part of the file that is read is a text as well. *)
LEMMA BA_Text ==
    ASSUME NEW text \in AddressTexts \cup {BA!Nothing}
    PROVE  /\ text.len \in Nat /\ text.bytes \in Seq(Int)
           /\ BA!Cut(text).len \in Nat /\ BA!Cut(text).bytes \in Seq(Int)
<1>1. BA!Nothing \in [len : Nat, bytes : Seq(Int), trailing : BOOLEAN]
  BY DEF BA!Nothing
<1>2. text \in [len : Nat, bytes : Seq(Int), trailing : BOOLEAN]
  BY <1>1, TextAssumption
<1> QED BY <1>2 DEF BA!Cut, BA!kStringLength

LEMMA BA_Step ==
    ASSUME BA_IInv, [BA!Next]_BA!vars
    PROVE  BA_IInv'
<1>1. CASE BA!FromFile
  <2>1. /\ UNCHANGED <<ba_file, ba_factory, ba_persist>> /\ ba_result = "none" /\ ba_local_addr' = BA!Filled(BA!Cut(ba_file))
        /\ \/ ba_at' = "done" /\ ba_result' = "file" /\ BA!string_to_bytes(BA!Cut(ba_file))
           \/ ba_at' = "factory" /\ ba_result' = ba_result
    BY <1>1 DEF BA!FromFile, BA!Usable, BA_IInv
  <2>2. ba_at' = "done" => ba_local_addr' = BA!Cut(ba_file).bytes
    BY <2>1, BA_Filled, BA_Text DEF BA_IInv
  <2> QED BY <2>1, <2>2 DEF BA_IInv, BA!OneSource
<1>2. CASE BA!FromProperty("factory", ba_factory, "persist")
  <2>1. /\ UNCHANGED <<ba_file, ba_factory, ba_persist>> /\ ba_result = "none" /\ ba_local_addr' = BA!Filled(ba_factory)
        /\ \/ ba_at' = "done" /\ ba_result' = "factory" /\ BA!string_to_bytes(ba_factory)
           \/ ba_at' = "persist" /\ ba_result' = ba_result
    BY <1>2 DEF BA!FromProperty, BA_IInv
  <2>2. ba_at' = "done" => ba_local_addr' = ba_factory.bytes
    BY <2>1, BA_Filled, BA_Text DEF BA_IInv
  <2> QED BY <2>1, <2>2 DEF BA_IInv, BA!OneSource
<1>3. CASE BA!FromProperty("persist", ba_persist, "done")
  <2>1. /\ UNCHANGED <<ba_file, ba_factory, ba_persist>> /\ ba_local_addr' = BA!Filled(ba_persist) /\ ba_at' = "done"
        /\ \/ ba_result' = "persist" /\ BA!string_to_bytes(ba_persist)
           \/ ba_result' = "false"
    BY <1>3 DEF BA!FromProperty, BA_IInv
  <2>2. ba_result' = "persist" => ba_local_addr' = ba_persist.bytes
    BY <2>1, BA_Filled, BA_Text DEF BA_IInv
  <2> QED BY <2>1, <2>2 DEF BA_IInv, BA!OneSource
<1>4. CASE UNCHANGED BA!vars
  BY <1>4 DEF BA!vars, BA_IInv, BA!OneSource, BA!Cut
<1> QED BY <1>1, <1>2, <1>3, <1>4 DEF BA!Next

(* get_local_address: whatever the file and the two properties hold, and       *)
(* however much of each one could be read, a call that succeeds leaves in the  *)
(* buffer the six bytes of the one source it reports.                          *)
THEOREM Address == BA!Spec => []OneSource
<1>1. BA!Init => BA_IInv
  BY DEF BA!Init, BA_IInv, BA!OneSource
<1>2. BA_IInv /\ [BA!Next]_BA!vars => BA_IInv'
  BY BA_Step
<1>3. BA_IInv => OneSource
  BY DEF BA_IInv, OneSource
<1> QED BY <1>1, <1>2, <1>3, PTL DEF BA!Spec

-----------------------------------------------------------------------------
(* RilDaemons: the commands of rilchip.sh against init's restarts. *)

(* The services of the phone, and the operations of a command on them. *)
RD_Phone == {"cpboot-daemon", "ril-daemon"} \cup (IF SimSlots = 2 THEN {"ril-daemon1"} ELSE {})
RD_Ops == {"svc_start", "svc_stop"} \X RD_Phone
RD_Pending(op, s) == \E i \in 1 .. Len(rd_script) : rd_script[i] = <<op, s>>

(* init wants the services that run or will run again, and no others. *)
RD_Wanted ==
    /\ rd_svc \in [RD!Services -> {"", "running", "stopping", "stopped", "restarting"}] /\ rd_wanted \subseteq RD_Phone
    /\ \A s \in RD!Services : /\ rd_svc[s] \in {"running", "restarting"} => s \in rd_wanted
                              /\ rd_svc[s] \in {"", "stopped"} => s \notin rd_wanted

(* What is left of a command: all that it stops comes before all that it     *)
(* starts, and a service that is not as the command asks is still to come. *)
RD_Script ==
    /\ rd_script \in Seq(RD_Ops) /\ rd_last \in {"none", "start", "stop", "restart"}
    /\ rd_last = "none" => rd_script = <<>>
    /\ \A i, j \in 1 .. Len(rd_script) : i < j /\ rd_script[i][1] = "svc_start" => rd_script[j][1] = "svc_start"
RD_Stopping ==
    rd_last = "stop" => \A s \in RD!Services :
        /\ ~RD_Pending("svc_start", s)
        /\ s \in rd_wanted => RD_Pending("svc_stop", s) \/ (s = "cpboot-daemon" /\ rd_chained)
RD_Starting ==
    rd_last \in {"start", "restart"} => \A s \in RD_Phone :
        RD_Pending("svc_start", s) \/ (s \in rd_wanted /\ ~RD_Pending("svc_stop", s))

RD_IInv == RD_Wanted /\ RD_Script /\ RD_Stopping /\ RD_Starting /\ RD!ArgsFit

LEMMA RD_Services ==
    /\ RD!Services = {"ril-daemon", "ril-daemon1", "cpboot-daemon"} /\ RD_Phone \subseteq RD!Services
    /\ "cpboot-daemon" \in RD_Phone
BY DEF RD!Services, RD!Rilds, RD_Phone

(* The three commands. *)
LEMMA RD_Both ==
    /\ RD!Both \in Seq(RD_Phone) /\ Len(RD!Both) \in Nat
    /\ \A s \in RD_Phone : \E i \in 1 .. Len(RD!Both) : RD!Both[i] = s
    /\ \A i \in 1 .. Len(RD!Both) : RD!Both[i] \in RD_Phone
    /\ DOMAIN RD!Both = 1 .. Len(RD!Both)
<1>1. CASE SimSlots = 2
  <2>1. RD_Phone = {"cpboot-daemon", "ril-daemon", "ril-daemon1"}
    BY <1>1 DEF RD_Phone
  <2>2. PICK one, two : one = <<"cpboot-daemon", "ril-daemon">> /\ two = <<"ril-daemon1">>
    OBVIOUS
  <2>3. one \in Seq(RD_Phone) /\ two \in Seq(RD_Phone) /\ Len(one) = 2 /\ Len(two) = 1
    BY <2>1, <2>2
  <2>4. RD!Both = one \o two
    BY <1>1, <2>2 DEF RD!Both
  <2>5. /\ RD!Both \in Seq(RD_Phone) /\ Len(RD!Both) = 3
        /\ \A i \in 1 .. 3 : RD!Both[i] = IF i <= 2 THEN one[i] ELSE two[i - 2]
    <3>1. /\ one \o two \in Seq(RD_Phone) /\ Len(one \o two) = Len(one) + Len(two)
          /\ \A i \in 1 .. Len(one) + Len(two) : (one \o two)[i] = IF i <= Len(one) THEN one[i] ELSE two[i - Len(one)]
      BY <2>3, ConcatProperties
    <3> QED BY <2>3, <2>4, <3>1
  <2>6. RD!Both[1] = "cpboot-daemon" /\ RD!Both[2] = "ril-daemon" /\ RD!Both[3] = "ril-daemon1"
    BY <2>2, <2>5
  <2> QED BY <2>1, <2>5, <2>6
<1>2. CASE SimSlots # 2
  <2>1. RD!Both = <<"cpboot-daemon", "ril-daemon">>
    BY <1>2 DEF RD!Both
  <2>2. RD_Phone = {"cpboot-daemon", "ril-daemon"}
    BY <1>2 DEF RD_Phone
  <2> QED BY <2>1, <2>2
<1> QED BY <1>1, <1>2

LEMMA RD_OpsOf ==
    ASSUME NEW op \in {"svc_start", "svc_stop"}
    PROVE  /\ RD!Ops(op) \in Seq(RD_Ops) /\ Len(RD!Ops(op)) = Len(RD!Both)
           /\ \A i \in 1 .. Len(RD!Both) : RD!Ops(op)[i] = <<op, RD!Both[i]>>
<1> DEFINE n == Len(RD!Both)
           e(i) == <<op, RD!Both[i]>>
<1>1. RD!Ops(op) = [i \in 1 .. n |-> e(i)] /\ n \in Nat
  BY RD_Both DEF RD!Ops
<1>2. \A i \in 1 .. n : e(i) \in RD_Ops
  BY RD_Both DEF RD_Ops
<1> HIDE DEF n, e
<1>3. [i \in 1 .. n |-> e(i)] \in Seq(RD_Ops)
  BY <1>1, <1>2, IsASeq
<1>4. Len([i \in 1 .. n |-> e(i)]) = n
  BY <1>1
<1> QED BY <1>1, <1>3, <1>4 DEF n, e

(* The start of a command. *)
LEMMA RD_CommandKeeps ==
    ASSUME RD_IInv, NEW c \in DOMAIN RD!CommandOps, RD!Command(c)
    PROVE  RD_IInv'
<1>0. PICK n : n = Len(RD!Both) /\ n \in Nat
  BY RD_Both
<1>1. PICK starts, stops : starts = RD!Ops("svc_start") /\ stops = RD!Ops("svc_stop")
  OBVIOUS
<1>2. /\ starts \in Seq(RD_Ops) /\ Len(starts) = n /\ \A i \in 1 .. n : starts[i] = <<"svc_start", RD!Both[i]>>
      /\ stops \in Seq(RD_Ops) /\ Len(stops) = n /\ \A i \in 1 .. n : stops[i] = <<"svc_stop", RD!Both[i]>>
  BY <1>0, <1>1, RD_OpsOf
<1>3. /\ c \in {"start", "stop", "restart"} /\ rd_last' = c /\ UNCHANGED <<rd_svc, rd_wanted, rd_past, rd_chained>>
      /\ c = "start" => rd_script' = starts
      /\ c = "stop" => rd_script' = stops
      /\ c = "restart" => rd_script' = stops \o starts
  BY <1>1 DEF RD!Command, RD!CommandOps
<1>4. \A s \in RD_Phone : \E i \in 1 .. n : RD!Both[i] = s
  BY <1>0, RD_Both
<1>5. RD_Wanted' /\ RD!ArgsFit'
  BY <1>3 DEF RD_IInv, RD_Wanted, RD!ArgsFit
<1>6. CASE c = "start"
  <2>1. rd_script' = starts /\ rd_last' = "start"
    BY <1>3, <1>6
  <2>2. RD_Script'
    BY <1>2, <2>1 DEF RD_Script
  <2>3. ASSUME NEW s \in RD_Phone
        PROVE  RD_Pending("svc_start", s)'
    BY <1>2, <1>4, <2>1 DEF RD_Pending
  <2> QED BY <1>5, <2>1, <2>2, <2>3 DEF RD_IInv, RD_Stopping, RD_Starting
<1>7. CASE c = "stop"
  <2>1. rd_script' = stops /\ rd_last' = "stop"
    BY <1>3, <1>7
  <2>2. RD_Script'
    BY <1>2, <2>1 DEF RD_Script
  <2>3. ASSUME NEW s \in RD_Phone
        PROVE  RD_Pending("svc_stop", s)'
    BY <1>2, <1>4, <2>1 DEF RD_Pending
  <2>4. \A s : ~RD_Pending("svc_start", s)'
    BY <1>2, <2>1 DEF RD_Pending
  <2>5. RD_Stopping'
    BY <1>3, <2>3, <2>4 DEF RD_IInv, RD_Wanted, RD_Stopping
  <2> QED BY <1>5, <2>1, <2>2, <2>5 DEF RD_IInv, RD_Starting
<1>8. CASE c = "restart"
  <2>1. rd_script' = stops \o starts /\ rd_last' = "restart"
    BY <1>3, <1>8
  <2>2. /\ rd_script' \in Seq(RD_Ops) /\ Len(rd_script') = n + n
        /\ \A i \in 1 .. n + n : rd_script'[i] = IF i <= n THEN stops[i] ELSE starts[i - n]
    <3>1. /\ stops \o starts \in Seq(RD_Ops) /\ Len(stops \o starts) = Len(stops) + Len(starts)
          /\ \A i \in 1 .. Len(stops) + Len(starts) :
               (stops \o starts)[i] = IF i <= Len(stops) THEN stops[i] ELSE starts[i - Len(stops)]
      BY <1>2, ConcatProperties
    <3> QED BY <1>2, <2>1, <3>1
  <2>3. \A i \in 1 .. n + n : rd_script'[i][1] = IF i <= n THEN "svc_stop" ELSE "svc_start"
    <3> SUFFICES ASSUME NEW i \in 1 .. n + n
                 PROVE  rd_script'[i][1] = IF i <= n THEN "svc_stop" ELSE "svc_start"
      OBVIOUS
    <3>1. CASE i <= n
      BY <1>0, <1>2, <2>2, <3>1
    <3>2. CASE ~(i <= n)
      <4>1. i - n \in 1 .. n
        BY <1>0, <3>2
      <4> QED BY <1>2, <2>2, <3>2, <4>1
    <3> QED BY <3>1, <3>2
  <2>4. RD_Script'
    <3>1. ASSUME NEW i \in 1 .. n + n, NEW j \in 1 .. n + n, i < j, rd_script'[i][1] = "svc_start"
          PROVE  rd_script'[j][1] = "svc_start"
      <4>1. ~(i <= n)
        BY <2>3, <3>1
      <4>2. ~(j <= n)
        BY <1>0, <3>1, <4>1
      <4> QED BY <2>3, <4>2
    <3> QED BY <2>1, <2>2, <3>1 DEF RD_Script
  <2>5. ASSUME NEW s \in RD_Phone
        PROVE  RD_Pending("svc_start", s)'
    <3>1. PICK i \in 1 .. n : RD!Both[i] = s
      BY <1>4
    <3>2. n + i \in 1 .. n + n /\ ~(n + i <= n) /\ (n + i) - n = i
      BY <1>0
    <3>3. rd_script'[n + i] = <<"svc_start", s>>
      BY <1>2, <2>2, <3>1, <3>2
    <3> QED BY <2>2, <3>2, <3>3 DEF RD_Pending
  <2> QED BY <1>5, <2>1, <2>4, <2>5 DEF RD_IInv, RD_Stopping, RD_Starting
<1> QED BY <1>3, <1>6, <1>7, <1>8

(* The next operation of a command. *)
LEMMA RD_ScriptKeeps ==
    ASSUME RD_IInv, RD!ScriptStep
    PROVE  RD_IInv'
<1>1. PICK op, s, n : op = Head(rd_script)[1] /\ s = Head(rd_script)[2] /\ n = Len(rd_script)
  OBVIOUS
<1>2. rd_script \in Seq(RD_Ops) /\ rd_script # <<>> /\ rd_script' = Tail(rd_script) /\ UNCHANGED <<rd_last, rd_past, rd_chained>>
  BY DEF RD!ScriptStep, RD_IInv, RD_Script
<1>3. /\ n \in Nat \ {0} /\ Head(rd_script) = rd_script[1] /\ Head(rd_script) \in RD_Ops
      /\ rd_script' \in Seq(RD_Ops) /\ Len(rd_script') = n - 1 /\ \A i \in 1 .. n - 1 : rd_script'[i] = rd_script[i + 1]
  <2>1. n \in Nat \ {0} /\ Head(rd_script) = rd_script[1]
    BY <1>1, <1>2, EmptySeq
  <2> QED BY <1>1, <1>2, <2>1, HeadTailProperties
<1>4. op \in {"svc_start", "svc_stop"} /\ s \in RD_Phone /\ rd_script[1] = <<op, s>>
  BY <1>1, <1>3 DEF RD_Ops
<1>5. \A o, x : RD_Pending(o, x)' <=> \E i \in 2 .. n : rd_script[i] = <<o, x>>
  <2> SUFFICES ASSUME NEW o, NEW x
               PROVE  RD_Pending(o, x)' <=> \E i \in 2 .. n : rd_script[i] = <<o, x>>
    OBVIOUS
  <2>1. ASSUME RD_Pending(o, x)'
        PROVE  \E i \in 2 .. n : rd_script[i] = <<o, x>>
    <3>1. PICK i \in 1 .. n - 1 : rd_script'[i] = <<o, x>>
      BY <1>3, <2>1 DEF RD_Pending
    <3>2. i + 1 \in 2 .. n /\ rd_script[i + 1] = <<o, x>>
      BY <1>3, <3>1
    <3> QED BY <3>2
  <2>2. ASSUME NEW i \in 2 .. n, rd_script[i] = <<o, x>>
        PROVE  RD_Pending(o, x)'
    <3>1. i - 1 \in 1 .. n - 1 /\ (i - 1) + 1 = i
      BY <1>3
    <3>2. rd_script'[i - 1] = <<o, x>>
      BY <1>3, <2>2, <3>1
    <3> QED BY <1>3, <3>1, <3>2 DEF RD_Pending
  <2> QED BY <2>1, <2>2
<1>6. \A o, x : RD_Pending(o, x) <=> <<o, x>> = <<op, s>> \/ RD_Pending(o, x)'
  <2> SUFFICES ASSUME NEW o, NEW x
               PROVE  (\E i \in 1 .. n : rd_script[i] = <<o, x>>) <=>
                        <<o, x>> = <<op, s>> \/ \E i \in 2 .. n : rd_script[i] = <<o, x>>
    BY <1>1, <1>5, ZenonT(40) DEF RD_Pending
  <2>1. \A i \in 1 .. n : i = 1 \/ i \in 2 .. n
    BY <1>3
  <2>2. 1 \in 1 .. n /\ \A i \in 2 .. n : i \in 1 .. n
    BY <1>3
  <2> QED BY <1>4, <2>1, <2>2
<1>7. RD_Script'
  <2>1. ASSUME NEW i \in 1 .. n - 1, NEW j \in 1 .. n - 1, i < j, rd_script'[i][1] = "svc_start"
        PROVE  rd_script'[j][1] = "svc_start"
    <3>1. i + 1 \in 1 .. n /\ j + 1 \in 1 .. n /\ i + 1 < j + 1
      BY <1>3, <2>1
    <3>2. rd_script'[i] = rd_script[i + 1] /\ rd_script'[j] = rd_script[j + 1]
      BY <1>3
    <3> QED BY <1>1, <2>1, <3>1, <3>2 DEF RD_IInv, RD_Script
  <2>2. rd_last # "none"
    BY <1>2 DEF RD_IInv, RD_Script
  <2> QED BY <1>2, <1>3, <2>1, <2>2 DEF RD_IInv, RD_Script
<1>8. op = "svc_start" => ~RD_Pending("svc_stop", s)'
  <2>1. ASSUME op = "svc_start", NEW i \in 2 .. n
        PROVE  rd_script[i][1] = "svc_start"
    <3>1. 1 \in 1 .. n /\ i \in 1 .. n /\ 1 < i /\ rd_script[1][1] = "svc_start"
      BY <1>3, <1>4, <2>1
    <3> QED BY <1>1, <3>1 DEF RD_IInv, RD_Script
  <2> QED BY <1>5, <2>1
<1>9. /\ RD_Wanted'
      /\ op = "svc_start" => rd_wanted' = rd_wanted \cup {s}
      /\ op = "svc_stop" => rd_wanted' = rd_wanted \ {s}
  <2>1. s \in RD!Services
    BY <1>4, RD_Services
  <2>2. CASE op = "svc_start"
    <3>1. RD!svc_start(s)
      BY <1>1, <2>2 DEF RD!ScriptStep
    <3>2. CASE rd_svc[s] = "running"
      BY <2>1, <2>2, <3>1, <3>2 DEF RD!svc_start, RD_IInv, RD_Wanted
    <3>3. CASE rd_svc[s] # "running"
      BY <1>4, <2>1, <2>2, <3>1, <3>3, ZenonT(40) DEF RD!svc_start, RD!Run, RD!Started, RD_IInv, RD_Wanted
    <3> QED BY <3>2, <3>3
  <2>3. CASE op = "svc_stop"
    <3>1. RD!svc_stop(s)
      BY <1>1, <2>3 DEF RD!ScriptStep
    <3>2. CASE rd_svc[s] \in {"stopped", ""}
      BY <2>1, <2>3, <3>1, <3>2 DEF RD!svc_stop, RD_IInv, RD_Wanted
    <3>3. CASE rd_svc[s] \notin {"stopped", ""}
      BY <2>1, <2>3, <3>1, <3>3 DEF RD!svc_stop, RD!Stop, RD_IInv, RD_Wanted
    <3> QED BY <3>2, <3>3
  <2> QED BY <1>4, <2>2, <2>3
<1>10. RD_Stopping'
  <2> SUFFICES ASSUME rd_last = "stop", NEW x \in RD!Services
               PROVE  /\ ~RD_Pending("svc_start", x)'
                      /\ x \in rd_wanted' => RD_Pending("svc_stop", x)' \/ (x = "cpboot-daemon" /\ rd_chained')
    BY <1>2 DEF RD_Stopping
  <2>1. /\ \A y \in RD!Services : ~RD_Pending("svc_start", y)
        /\ x \in rd_wanted => RD_Pending("svc_stop", x) \/ (x = "cpboot-daemon" /\ rd_chained)
    BY DEF RD_IInv, RD_Stopping
  <2>2. op = "svc_stop"
    BY <1>4, <1>6, <2>1, RD_Services
  <2> QED BY <1>2, <1>6, <1>9, <2>1, <2>2
<1>11. RD_Starting'
  <2> SUFFICES ASSUME rd_last \in {"start", "restart"}, NEW x \in RD_Phone
               PROVE  RD_Pending("svc_start", x)' \/ (x \in rd_wanted' /\ ~RD_Pending("svc_stop", x)')
    BY <1>2 DEF RD_Starting
  <2>1. RD_Pending("svc_start", x) \/ (x \in rd_wanted /\ ~RD_Pending("svc_stop", x))
    BY DEF RD_IInv, RD_Starting
  <2>2. CASE op = "svc_start" /\ x = s
    BY <1>8, <1>9, <2>2
  <2>3. CASE ~(op = "svc_start" /\ x = s)
    BY <1>4, <1>6, <1>9, <2>1, <2>3
  <2> QED BY <2>2, <2>3
<1>12. RD!ArgsFit'
  BY <1>2 DEF RD_IInv, RD!ArgsFit
<1> QED BY <1>7, <1>9, <1>10, <1>11, <1>12 DEF RD_IInv

(* What init does: a service it wants stays wanted. *)
LEMMA RD_Frame ==
    ASSUME RD_IInv, UNCHANGED <<rd_script, rd_last, rd_past>>, RD_Wanted',
           rd_chained => rd_chained', rd_wanted \subseteq rd_wanted', rd_wanted' \subseteq rd_wanted \cup {"cpboot-daemon"},
           rd_wanted' # rd_wanted => rd_chained'
    PROVE  RD_IInv'
<1>1. \A o, x : RD_Pending(o, x)' <=> RD_Pending(o, x)
  BY DEF RD_Pending
<1>2. RD_Script' /\ RD!ArgsFit'
  BY DEF RD_IInv, RD_Script, RD!ArgsFit
<1>3. RD_Stopping'
  BY <1>1 DEF RD_IInv, RD_Stopping
<1>4. RD_Starting'
  BY <1>1 DEF RD_IInv, RD_Starting
<1> QED BY <1>2, <1>3, <1>4 DEF RD_IInv

LEMMA RD_DiesKeeps ==
    ASSUME RD_IInv, NEW s \in RD!Services, RD!Dies(s)
    PROVE  RD_IInv'
<1>1. RD_Wanted'
  BY DEF RD!Dies, RD_IInv, RD_Wanted
<1> QED BY <1>1, RD_Frame DEF RD!Dies

LEMMA RD_RestartsKeeps ==
    ASSUME RD_IInv, NEW s \in RD!Services, RD!Restarts(s)
    PROVE  RD_IInv'
<1>1. PICK S : S = {s} \cup (IF s \in RD!Rilds THEN {"cpboot-daemon"} ELSE {})
  OBVIOUS
<1>2. /\ rd_svc[s] = "restarting" /\ s \in rd_wanted /\ RD!Run(S) /\ UNCHANGED <<rd_script, rd_last, rd_past>>
      /\ rd_chained' = (rd_chained \/ (s \in RD!Rilds /\ "cpboot-daemon" \notin rd_wanted))
  BY <1>1 DEF RD!Restarts, RD_IInv, RD_Wanted
<1>3. rd_wanted' = rd_wanted \cup S /\ S \subseteq RD_Phone
  BY <1>1, <1>2, RD_Services DEF RD!Run, RD_IInv, RD_Wanted
<1>4. RD_Wanted'
  BY <1>2, <1>3 DEF RD!Run, RD!Started, RD_IInv, RD_Wanted
<1>5. rd_wanted \subseteq rd_wanted' /\ rd_wanted' \subseteq rd_wanted \cup {"cpboot-daemon"} /\ (rd_wanted' # rd_wanted => rd_chained')
  BY <1>1, <1>2, <1>3
<1> QED BY <1>2, <1>4, <1>5, RD_Frame

(* rild.c: the services are left alone. *)
LEMMA RD_RildKeeps ==
    ASSUME RD_IInv, NEW s \in RD!Rilds, RD!Options(s) \/ RD!RIL_Init(s) \/ RD!Serve(s)
    PROVE  RD_IInv'
<1>1. UNCHANGED <<rd_svc, rd_wanted, rd_script, rd_last, rd_chained>>
  BY DEF RD!Options, RD!RIL_Init, RD!Serve
<1>2. RD_Wanted' /\ RD_Script' /\ RD_Stopping' /\ RD_Starting'
  <2>1. \A o, x : RD_Pending(o, x)' <=> RD_Pending(o, x)
    BY <1>1 DEF RD_Pending
  <2>2. RD_Wanted' /\ RD_Script'
    BY <1>1 DEF RD_IInv, RD_Wanted, RD_Script
  <2>3. RD_Stopping' /\ RD_Starting'
    BY <1>1, <2>1 DEF RD_IInv, RD_Stopping, RD_Starting
  <2> QED BY <2>2, <2>3
<1>3. RD!ArgsFit'
  <2> SUFFICES ASSUME \A words \in LibArgs : words <= 13
               PROVE  ~rd_past'
    BY DEF RD!ArgsFit, RD!MAX_LIB_ARGS
  <2>1. ~rd_past
    BY DEF RD_IInv, RD!ArgsFit, RD!MAX_LIB_ARGS
  <2>2. CASE UNCHANGED rd_past
    BY <2>1, <2>2
  <2>3. ASSUME NEW words \in LibArgs, rd_past' = (rd_past \/ RD!make_argv(words) + 2 > RD!MAX_LIB_ARGS)
        PROVE  ~rd_past'
    <3>1. words \in Nat /\ words <= 13
      BY <2>3, ArgsAssumption
    <3>2. ~(words + 1 + 2 > 16)
      BY <3>1
    <3> QED BY <2>1, <2>3, <3>2 DEF RD!make_argv, RD!MAX_LIB_ARGS
  <2> QED BY <2>2, <2>3 DEF RD!Options, RD!RIL_Init, RD!Serve, RD!Ends
<1> QED BY <1>2, <1>3 DEF RD_IInv

LEMMA RD_Init == RD!Init => RD_IInv
<1> SUFFICES ASSUME RD!Init
             PROVE  RD_IInv
  OBVIOUS
<1>1. RD_Wanted
  BY DEF RD!Init, RD_Wanted
<1>2. RD_Script
  <2>1. rd_script = <<>> /\ rd_script \in Seq(RD_Ops) /\ Len(rd_script) = 0
    BY EmptySeq DEF RD!Init
  <2>2. rd_last = "none"
    BY DEF RD!Init
  <2>3. \A i \in 1 .. Len(rd_script) : FALSE
    BY <2>1
  <2> QED BY <2>1, <2>2, <2>3 DEF RD_Script
<1> QED BY <1>1, <1>2 DEF RD!Init, RD_IInv, RD_Stopping, RD_Starting, RD!ArgsFit

LEMMA RD_Step ==
    ASSUME RD_IInv, [RD!Next]_RD!vars
    PROVE  RD_IInv'
<1>1. CASE UNCHANGED RD!vars
  <2>1. UNCHANGED <<rd_script, rd_last, rd_past, rd_svc, rd_wanted, rd_chained>>
    BY <1>1 DEF RD!vars
  <2>2. RD_Wanted'
    BY <2>1 DEF RD_IInv, RD_Wanted
  <2> QED BY <2>1, <2>2, RD_Frame
<1> QED BY <1>1, RD_CommandKeeps, RD_ScriptKeeps, RD_DiesKeeps, RD_RestartsKeeps, RD_RildKeeps DEF RD!Next

(* rilchip.sh: whatever processes die, and however init restarts them between *)
(* the operations of a command, a stop that is through leaves no RIL daemon   *)
(* running or wanted, nor cpboot-daemon unless a restart took it along; after *)
(* a start or restart every daemon of the phone runs or will run; and no more *)
(* than MAX_LIB_ARGS arguments are written for 13 words of rild.libargs.      *)
THEOREM Commands == RD!Spec => []CommandsDone
<1>1. RD_IInv /\ [RD!Next]_RD!vars => RD_IInv'
  BY RD_Step
<1>2. RD_IInv => CommandsDone
  <2> SUFFICES ASSUME RD_IInv
               PROVE  CommandsDone
    OBVIOUS
  <2>1. \A s \in RD!Services : RD!Up(s) <=> s \in rd_wanted
    BY DEF RD_IInv, RD_Wanted, RD!Up
  <2>2. RD!Idle => \A o, s : ~RD_Pending(o, s)
    BY DEF RD!Idle, RD_Pending
  <2>3. RD!AllStopped
    BY <2>1, <2>2 DEF RD_IInv, RD_Stopping, RD!AllStopped, RD!Services, RD!Rilds
  <2>4. RD!AllStarted
    BY <2>1, <2>2, RD_Both, RD_Services DEF RD_IInv, RD_Starting, RD!AllStarted
  <2> QED BY <2>3, <2>4 DEF RD_IInv, CommandsDone, RD!CommandsDone
<1> QED BY <1>1, <1>2, RD_Init, PTL DEF RD!Spec

-----------------------------------------------------------------------------
(* CameraModule: open and close through both interfaces. *)

(* A device is an interface and an id; no id is open twice. *)
CM_Devices == cm_vendorOpen \subseteq {1, 3} \X CameraIds
CM_IInv == CM_Devices /\ CM!VendorOpenHanded /\ CM!WorkerServes

(* Calls that open and close nothing. *)
LEMMA CM_Frame ==
    ASSUME CM_IInv, UNCHANGED <<cm_handed, cm_vendorOpen, cm_worker, cm_oom, cm_stolen>>
    PROVE  CM_IInv'
BY DEF CM_IInv, CM_Devices, CM!VendorOpenHanded, CM!WorkerServes, CM!Legacy

(* Outcomes of an open: the devices stay, an allocation has failed, or there is a new one. *)
LEMMA CM_OpenKeeps ==
    ASSUME CM_IInv, NEW api \in {1, 3}, NEW id \in CameraIds, CM!DeviceOpen(api, id),
           api = 1 => cm_worker', api = 3 => UNCHANGED cm_worker, UNCHANGED cm_stolen
    PROVE  CM_IInv'
<1>0. PICK d : d = <<api, id>>
  OBVIOUS
<1>1. d = <<api, id>> /\ d[1] = api /\ d[2] = id /\ d \in {1, 3} \X CameraIds
  BY <1>0
<1>2. /\ cm_handed \subseteq cm_vendorOpen /\ (cm_vendorOpen # cm_handed => cm_oom)
      /\ \A x, y \in cm_vendorOpen : x[2] = y[2] => x = y
  BY DEF CM_IInv, CM!VendorOpenHanded
<1>3. \/ UNCHANGED <<cm_handed, cm_vendorOpen>> /\ cm_oom' \in {cm_oom, TRUE}
      \/ /\ cm_vendorOpen' = cm_vendorOpen \cup {d} /\ (\A a \in {1, 3} : <<a, id>> \notin cm_vendorOpen)
         /\ \/ UNCHANGED cm_handed /\ cm_oom' = TRUE
            \/ cm_handed' = cm_handed \cup {d} /\ UNCHANGED cm_oom
  BY <1>1 DEF CM!DeviceOpen, CM!FailedOpen
<1>4. CM_Devices'
  BY <1>1, <1>3 DEF CM_IInv, CM_Devices
<1>5. CM!VendorOpenHanded'
  <2>1. CASE UNCHANGED <<cm_handed, cm_vendorOpen>> /\ cm_oom' \in {cm_oom, TRUE}
    BY <1>2, <2>1 DEF CM!VendorOpenHanded
  <2>2. CASE cm_vendorOpen' = cm_vendorOpen \cup {d} /\ (\A a \in {1, 3} : <<a, id>> \notin cm_vendorOpen)
    <3>1. \A x \in cm_vendorOpen : x[2] # d[2]
      BY <1>1, <2>2 DEF CM_IInv, CM_Devices
    <3>2. \A x, y \in cm_vendorOpen' : x[2] = y[2] => x = y
      BY <1>2, <2>2, <3>1
    <3>3. cm_handed' \subseteq cm_vendorOpen' /\ (cm_vendorOpen' # cm_handed' => cm_oom')
      BY <1>2, <1>3, <2>2
    <3> QED BY <3>2, <3>3 DEF CM!VendorOpenHanded
  <2> QED BY <1>3, <2>1, <2>2
<1>6. CM!WorkerServes'
  <2>1. CASE api = 1
    BY <2>1 DEF CM!WorkerServes
  <2>2. CASE api = 3
    <3>1. \A x \in cm_handed' : x[1] = 1 => x \in cm_handed
      <4>1. d[1] # 1
        BY <1>1, <2>2
      <4>2. cm_handed' \subseteq cm_handed \cup {d}
        BY <1>3
      <4> QED BY <4>1, <4>2
    <3>2. cm_handed \subseteq cm_handed'
      BY <1>3
    <3>3. CM!Legacy(cm_handed') = CM!Legacy(cm_handed)
      BY <3>1, <3>2 DEF CM!Legacy
    <3> QED BY <2>2, <3>3 DEF CM_IInv, CM!WorkerServes
  <2> QED BY <2>1, <2>2
<1> QED BY <1>4, <1>5, <1>6 DEF CM_IInv

LEMMA CM_CloseKeeps ==
    ASSUME CM_IInv, NEW d \in cm_handed, CM!camera2_device_close(d) \/ CM!camera3_device_close(d)
    PROVE  CM_IInv'
<1>1. cm_handed' = cm_handed \ {d} /\ cm_vendorOpen' = cm_vendorOpen \ {d} /\ UNCHANGED cm_oom
  BY DEF CM!camera2_device_close, CM!camera3_device_close
<1>2. CM_Devices' /\ CM!VendorOpenHanded'
  BY <1>1 DEF CM_IInv, CM_Devices, CM!VendorOpenHanded
<1>3. CM!WorkerServes'
  <2>1. CASE CM!camera2_device_close(d)
    BY <2>1 DEF CM!camera2_device_close, CM!WorkerServes
  <2>2. CASE CM!camera3_device_close(d)
    <3>1. CM!Legacy(cm_handed') = CM!Legacy(cm_handed) /\ UNCHANGED <<cm_worker, cm_stolen>>
      BY <1>1, <2>2 DEF CM!camera3_device_close, CM!Legacy
    <3> QED BY <3>1 DEF CM_IInv, CM!WorkerServes
  <2> QED BY <2>1, <2>2
<1> QED BY <1>2, <1>3 DEF CM_IInv

LEMMA CM_Step ==
    ASSUME CM_IInv, [CM!Next]_CM!vars
    PROVE  CM_IInv'
<1>1. ASSUME NEW id \in CameraIds, CM!camera2_device_open(id)
      PROVE  CM_IInv'
  <2>1. CASE cm_installed
    <3>1. CM!DeviceOpen(1, id) /\ cm_worker' /\ UNCHANGED cm_stolen
      BY <1>1, <2>1 DEF CM!camera2_device_open, CM!StartWorker, CM!unchangedByOpen
    <3> QED BY <3>1, CM_OpenKeeps
  <2>2. CASE ~cm_installed
    BY <1>1, <2>2, CM_Frame DEF CM!camera2_device_open, CM!unchangedByOpen
  <2> QED BY <2>1, <2>2
<1>2. ASSUME NEW id \in CameraIds, CM!camera3_device_open(id)
      PROVE  CM_IInv'
  <2>1. CASE cm_installed
    <3>1. CM!DeviceOpen(3, id) /\ UNCHANGED <<cm_worker, cm_stolen>>
      BY <1>2, <2>1 DEF CM!camera3_device_open, CM!unchangedByOpen
    <3> QED BY <3>1, CM_OpenKeeps
  <2>2. CASE ~cm_installed
    BY <1>2, <2>2, CM_Frame DEF CM!camera3_device_open, CM!unchangedByOpen
  <2> QED BY <2>1, <2>2
<1>3. ASSUME NEW id \in CameraIds, CM!camera2_get_parameters(id) \/ CM!camera2_set_parameters(id)
      PROVE  CM_IInv'
  BY <1>3, CM_Frame DEF CM!camera2_get_parameters, CM!camera2_set_parameters
<1>4. CASE CM!VENDOR_CALL \/ CM!ModuleCall \/ CM!ClientReads \/ CM!ClientSets \/ CM!ClientSetsSizes
  BY <1>4, CM_Frame DEF CM!VENDOR_CALL, CM!ModuleCall, CM!ClientReads, CM!ClientSets, CM!ClientSetsSizes
<1>5. CASE UNCHANGED CM!vars
  BY <1>5, CM_Frame DEF CM!vars
<1> QED BY <1>1, <1>2, <1>3, <1>4, <1>5, CM_CloseKeeps DEF CM!Next

(* camera2_device_open, camera3_device_open and the closes, in any order, with *)
(* any refusals and failed allocations: the vendor has open what the framework *)
(* holds but for a device lost to a failed allocation, no camera is open       *)
(* through both interfaces, and an API 1 camera has a worker unless the close  *)
(* of another one took it.                                                     *)
THEOREM Devices == CM!Spec => []DevicesInv
<1>1. CM!Init => CM_IInv
  BY DEF CM!Init, CM_IInv, CM_Devices, CM!VendorOpenHanded, CM!WorkerServes, CM!Legacy
<1>2. CM_IInv /\ [CM!Next]_CM!vars => CM_IInv'
  BY CM_Step
<1>3. CM_IInv => DevicesInv
  BY DEF CM_IInv, DevicesInv, CM!DevicesInv
<1> QED BY <1>1, <1>2, <1>3, PTL DEF CM!Spec

-----------------------------------------------------------------------------
(* ProcessUtils: forks, waits and watches of resetprop's utilities. *)

(* Where process 1 and where the processes it has made can be. *)
PU_Caller == {"caller", "waitpid", "watch", "read", "comm", "cmdline"}
PU_Forks == {"execvp", "image", "middle", "worker", "exit", "caller", "zombie", "gone"}
PU_Process == [at : PU_Caller \cup PU_Forks, parent : Nat,
               by : {"none", "exec_command", "exec_command_sync", "fork_dont_care"}]

PU_Types ==
    /\ pu_proc \in Seq(PU_Process) /\ 1 \in DOMAIN pu_proc
    /\ pu_pipes \in [read : Nat, write : Nat] /\ pu_calls \in Nat /\ pu_events \in Nat
    /\ pu_proc[1].at \in PU_Caller /\ pu_proc[1].parent = 0
    /\ \A p \in DOMAIN pu_proc : p # 1 => pu_proc[p].at \in PU_Forks

(* A child of process 1 that it did not start with exec_command is the one   *)
(* it is waiting for; it waits for any child only after a fork that failed;  *)
(* the second fork of fork_dont_care is made by the child. *)
PU_Children ==
    /\ \A p \in DOMAIN pu_proc : pu_proc[p].parent = 1 =>
         /\ (pu_proc[p].by # "exec_command" /\ pu_proc[p].at # "gone") => (pu_proc[1].at = "waitpid" /\ pu_awaited = p)
         /\ (pu_proc[p].by = "exec_command" /\ pu_proc[p].at = "gone") => "fork" \in pu_hist
         /\ pu_proc[p].at # "worker"
    /\ pu_proc[1].at = "waitpid" =>
         \/ pu_awaited = -1 /\ "fork" \in pu_hist
         \/ pu_awaited \in DOMAIN pu_proc /\ pu_awaited # 1 /\ pu_proc[pu_awaited].by # "exec_command"

(* A process of fork_dont_care that init takes care of. *)
PU_Orphan == \E p \in DOMAIN pu_proc : pu_proc[p].parent = 0 /\ pu_proc[p].by = "fork_dont_care"

(* The child fork_dont_care waits for forks before it exits, and by its exit *)
(* leaves its own child to init. *)
PU_Middle ==
    (pu_call = "fork_dont_care" /\ "fork" \notin pu_hist /\ "secondFork" \notin pu_hist) =>
      /\ pu_proc[1].at = "caller" => PU_Orphan
      /\ pu_proc[1].at = "waitpid" =>
           /\ pu_awaited \in DOMAIN pu_proc /\ pu_awaited # 1
           /\ pu_proc[pu_awaited].parent = 1 /\ pu_proc[pu_awaited].by = "fork_dont_care"
           /\ \/ pu_proc[pu_awaited].at = "middle"
              \/ pu_proc[pu_awaited].at = "exit" /\ \E p \in DOMAIN pu_proc : pu_proc[p].parent = pu_awaited /\ pu_proc[p].by = "fork_dont_care"
              \/ pu_proc[pu_awaited].at = "zombie" /\ PU_Orphan

(* The watch is set while process 1 reads; a target that was there when it   *)
(* began to read had been created before the watch. *)
PU_Watching ==
    /\ pu_proc[1].at \in {"watch", "read"} => pu_call = "wait_till_exists"
    /\ pu_proc[1].at \in {"comm", "cmdline"} => pu_call = "check_proc_name"
    /\ pu_proc[1].at = "read" => pu_watch = "set"
    /\ (pu_proc[1].at = "watch" /\ pu_exists) => "unwatched" \in pu_hist
    /\ (pu_proc[1].at = "cmdline" /\ pu_subject = "dead") => "diedBetween" \in pu_hist

PU_IInv ==
    /\ PU_Types /\ PU_Children /\ PU_Middle /\ PU_Watching
    /\ PU!OneCaller /\ PU!PipeEnds /\ PU!LooksSafely /\ PU!WakesUp

LEMMA PU_AtIs ==
    ASSUME pu_proc \in Seq(PU_Process), NEW p \in DOMAIN pu_proc, NEW place \in PU_Caller \cup PU_Forks
    PROVE  /\ PU!At(p, place) \in Seq(PU_Process) /\ DOMAIN PU!At(p, place) = DOMAIN pu_proc
           /\ PU!At(p, place)[p].at = place
           /\ \A q \in DOMAIN pu_proc :
                /\ q # p => PU!At(p, place)[q] = pu_proc[q]
                /\ PU!At(p, place)[q].parent = pu_proc[q].parent
                /\ PU!At(p, place)[q].by = pu_proc[q].by
<1>1. PICK a : a = [pu_proc EXCEPT ![p].at = place]  OBVIOUS
<1>2. pu_proc \in [DOMAIN pu_proc -> PU_Process] /\ DOMAIN pu_proc = 1 .. Len(pu_proc) /\ Len(pu_proc) \in Nat
  BY LenProperties
<1>3. DOMAIN a = DOMAIN pu_proc /\ a[p] = [pu_proc[p] EXCEPT !.at = place] /\ \A q \in DOMAIN pu_proc : q # p => a[q] = pu_proc[q]
  BY <1>1, <1>2
<1>4. pu_proc[p] \in PU_Process
  BY <1>2
<1>5. a[p] \in PU_Process /\ a[p].at = place /\ a[p].parent = pu_proc[p].parent /\ a[p].by = pu_proc[p].by
  BY <1>3, <1>4 DEF PU_Process
<1>6. a \in [1 .. Len(pu_proc) -> PU_Process]
  <2>1. a = [q \in DOMAIN pu_proc |-> a[q]]
    BY <1>1, <1>2, <1>3
  <2>2. \A q \in DOMAIN pu_proc : a[q] \in PU_Process
    BY <1>2, <1>3, <1>5
  <2> QED BY <1>2, <2>1, <2>2
<1>7. a \in Seq(PU_Process)
  BY <1>2, <1>6, SeqDef
<1>8. \A q \in DOMAIN pu_proc : a[q].parent = pu_proc[q].parent /\ a[q].by = pu_proc[q].by
  BY <1>3, <1>5
<1> QED BY <1>1, <1>3, <1>5, <1>7, <1>8 DEF PU!At

(* The processes after p has forked c. *)
PU_Grown(new, p, here, c, there, by) ==
    /\ new \in Seq(PU_Process)
    /\ c \notin DOMAIN pu_proc /\ c \in Nat /\ c # 0
    /\ \A q : q \in DOMAIN new <=> q \in DOMAIN pu_proc \/ q = c
    /\ new[p].at = here
    /\ new[c].at = there /\ new[c].parent = p /\ new[c].by = by
    /\ \A q \in DOMAIN pu_proc :
         /\ q # p => new[q] = pu_proc[q]
         /\ new[q].parent = pu_proc[q].parent
         /\ new[q].by = pu_proc[q].by

LEMMA PU_ForkedIs ==
    ASSUME pu_proc \in Seq(PU_Process), NEW p \in DOMAIN pu_proc, NEW here \in PU_Caller \cup PU_Forks,
           NEW there \in PU_Forks, NEW by \in {"exec_command", "exec_command_sync", "fork_dont_care"},
           NEW new, new = PU!Forked(p, here, there, by), NEW c, c = Len(pu_proc) + 1
    PROVE  PU_Grown(new, p, here, c, there, by)
<1>1. PICK a : a = PU!At(p, here)  OBVIOUS
<1>2. PICK r : r = [at |-> there, parent |-> p, by |-> by]  OBVIOUS
<1>3. DOMAIN pu_proc = 1 .. Len(pu_proc) /\ Len(pu_proc) \in Nat
  BY LenProperties
<1>4. r \in PU_Process /\ r.at = there /\ r.parent = p /\ r.by = by
  BY <1>2, <1>3 DEF PU_Process
<1>5. a \in Seq(PU_Process) /\ DOMAIN a = DOMAIN pu_proc /\ a[p].at = here
  BY <1>1, PU_AtIs
<1>6. \A q \in DOMAIN pu_proc : (q # p => a[q] = pu_proc[q]) /\ a[q].parent = pu_proc[q].parent /\ a[q].by = pu_proc[q].by
  BY <1>1, PU_AtIs
<1>7. Len(a) = Len(pu_proc)
  BY <1>3, <1>5, LenProperties
<1>8. new = Append(a, r)
  BY <1>1, <1>2 DEF PU!Forked
<1>9. /\ new \in Seq(PU_Process) /\ Len(new) = Len(a) + 1
      /\ \A i \in 1 .. Len(a) : new[i] = a[i]
      /\ new[Len(a) + 1] = r
  BY <1>4, <1>5, <1>8, AppendProperties
<1>10. DOMAIN new = 1 .. (Len(pu_proc) + 1)
  BY <1>7, <1>9, LenProperties
<1> HIDE DEF PU_Process
<1>11. (\A q : q \in DOMAIN new <=> q \in DOMAIN pu_proc \/ q = c) /\ c \notin DOMAIN pu_proc /\ c \in Nat /\ c # 0
  BY <1>3, <1>10
<1>12. \A q \in DOMAIN pu_proc : new[q] = a[q]
  BY <1>3, <1>7, <1>9
<1>13. new[c] = r
  BY <1>7, <1>9
<1> QED BY <1>3, <1>4, <1>5, <1>6, <1>9, <1>11, <1>12, <1>13 DEF PU_Grown

(* Process 1 goes from one place to another, none of them waitpid. *)
LEMMA PU_Moves ==
    ASSUME PU_IInv, NEW place \in PU_Caller, pu_proc' = PU!At(1, place), pu_proc[1].at # "waitpid", place # "waitpid"
    PROVE  /\ pu_proc' \in Seq(PU_Process) /\ DOMAIN pu_proc' = DOMAIN pu_proc /\ pu_proc'[1].at = place /\ pu_proc'[1].parent = 0
           /\ \A p \in DOMAIN pu_proc : /\ p # 1 => pu_proc'[p] = pu_proc[p]
                                        /\ pu_proc'[p].parent = pu_proc[p].parent /\ pu_proc'[p].by = pu_proc[p].by
<1>1. place \in PU_Caller \cup PU_Forks /\ pu_proc \in Seq(PU_Process) /\ 1 \in DOMAIN pu_proc /\ pu_proc[1].parent = 0
  BY DEF PU_IInv, PU_Types
<1> QED BY <1>1, PU_AtIs

(* A step that leaves children, hist and call alone, and does not end a wait. *)
LEMMA PU_Frame ==
    ASSUME PU_IInv, DOMAIN pu_proc' = DOMAIN pu_proc, pu_proc' \in Seq(PU_Process),
           pu_proc'[1].at \in PU_Caller, pu_proc'[1].parent = 0,
           \A p \in DOMAIN pu_proc : /\ p # 1 => pu_proc'[p] = pu_proc[p]
                                     /\ pu_proc'[p].parent = pu_proc[p].parent /\ pu_proc'[p].by = pu_proc[p].by,
           pu_proc[1].at = "waitpid" <=> pu_proc'[1].at = "waitpid",
           pu_awaited' = pu_awaited, pu_hist \subseteq pu_hist', pu_pipes' \in [read : Nat, write : Nat], pu_calls' \in Nat, pu_events' \in Nat
    PROVE  PU_Types' /\ PU_Children' /\ PU!OneCaller'
<1>1. PU_Types'
  BY DEF PU_IInv, PU_Types
<1>2. PU_Children'
  BY DEF PU_IInv, PU_Types, PU_Children
<1>3. PU!OneCaller'
  BY DEF PU_IInv, PU_Types, PU!OneCaller, PU!Pids, PU!Main
<1> QED BY <1>1, <1>2, <1>3

LEMMA PU_InitInv == PU!Init => PU_IInv
<1> SUFFICES ASSUME PU!Init PROVE PU_IInv  OBVIOUS
<1>1. PICK p : p = [at |-> "caller", parent |-> 0, by |-> "none"]  OBVIOUS
<1>2. p \in PU_Process /\ p.at = "caller" /\ p.parent = 0 /\ p.by = "none"
  BY <1>1 DEF PU_Process, PU_Caller, PU_Forks
<1>3. pu_proc = <<p>>
  BY <1>1 DEF PU!Init, PU!INIT
<1> HIDE DEF PU_Process
<1>4. pu_proc \in Seq(PU_Process) /\ DOMAIN pu_proc = {1} /\ pu_proc[1] = p
  BY <1>2, <1>3
<1>5. PICK r : r = [read |-> 0, write |-> 0]  OBVIOUS
<1>6. r \in [read : Nat, write : Nat] /\ r.read = 0 /\ r.write = 0 /\ pu_pipes = r
  BY <1>5 DEF PU!Init
<1>7. PU_Types
  BY <1>2, <1>4, <1>6 DEF PU!Init, PU_Types, PU_Caller
<1>8. PU_Children /\ PU_Middle /\ PU_Watching
  BY <1>2, <1>4 DEF PU!Init, PU_Children, PU_Middle, PU_Watching
<1> QED BY <1>2, <1>4, <1>6, <1>7, <1>8
     DEF PU_IInv, PU!Init, PU!OneCaller, PU!PipeEnds, PU!LooksSafely, PU!WakesUp, PU!Pids, PU!Main

(* The parts of the invariant that are neither types nor about children. *)
PU_Rest == PU_Middle /\ PU_Watching /\ PU!PipeEnds /\ PU!LooksSafely /\ PU!WakesUp

LEMMA PU_WaitKeeps ==
    ASSUME PU_IInv, PU!wait_till_exists
    PROVE  PU_IInv'
<1>1. /\ pu_proc[1].at = "caller" /\ pu_calls' = pu_calls + 1 /\ pu_call' = "wait_till_exists" /\ pu_watch' = "none" /\ pu_events' = 0
      /\ UNCHANGED <<pu_pipes, pu_awaited, pu_exists, pu_subject, pu_crashed, pu_hist, pu_files>>
  BY DEF PU!wait_till_exists, PU!NewCall, PU!Main
<1>2. pu_proc' = IF pu_exists THEN pu_proc ELSE PU!At(1, "watch")
  BY DEF PU!wait_till_exists, PU!Main
<1>3. /\ pu_proc' \in Seq(PU_Process) /\ DOMAIN pu_proc' = DOMAIN pu_proc /\ pu_proc'[1].parent = 0
      /\ pu_proc'[1].at = IF pu_exists THEN "caller" ELSE "watch"
      /\ \A p \in DOMAIN pu_proc : /\ p # 1 => pu_proc'[p] = pu_proc[p]
                                   /\ pu_proc'[p].parent = pu_proc[p].parent /\ pu_proc'[p].by = pu_proc[p].by
  <2>1. CASE pu_exists
    BY <1>1, <1>2, <2>1 DEF PU_IInv, PU_Types
  <2>2. CASE ~pu_exists
    <3>1. pu_proc' = PU!At(1, "watch") /\ "watch" \in PU_Caller
      BY <1>2, <2>2 DEF PU_Caller
    <3>2. pu_proc'[1].at = "watch"
      BY <1>1, <3>1, PU_Moves
    <3> QED BY <1>1, <2>2, <3>1, <3>2, PU_Moves
  <2> QED BY <2>1, <2>2
<1>4. pu_pipes' \in [read : Nat, write : Nat] /\ pu_calls' \in Nat /\ pu_events' \in Nat
  BY <1>1 DEF PU_IInv, PU_Types
<1>5. PU_Types' /\ PU_Children' /\ PU!OneCaller'
  BY <1>1, <1>3, <1>4, PU_Frame DEF PU_Caller
<1>6. PU_Rest'
  BY <1>1, <1>3 DEF PU_IInv, PU_Types, PU_Rest, PU_Middle, PU_Watching, PU!PipeEnds, PU!LooksSafely, PU!WakesUp, PU!Main
<1> QED BY <1>5, <1>6 DEF PU_IInv, PU_Rest

LEMMA PU_WatchKeeps ==
    ASSUME PU_IInv, PU!AddWatch \/ PU!ReadEvent \/ PU!OtherCreates
    PROVE  PU_IInv'
<1>1. CASE PU!AddWatch
  <2>1. /\ pu_proc[1].at = "watch" /\ pu_proc' = PU!At(1, "read") /\ pu_watch' = "set"
        /\ UNCHANGED <<pu_call, pu_exists, pu_events, pu_files, pu_hist, pu_pipes, pu_awaited, pu_subject, pu_crashed, pu_calls>>
    BY <1>1 DEF PU!AddWatch, PU!Main, PU!unwatched
  <2>2. "read" \in PU_Caller
    BY DEF PU_Caller
  <2>3. /\ pu_proc' \in Seq(PU_Process) /\ DOMAIN pu_proc' = DOMAIN pu_proc /\ pu_proc'[1].at = "read" /\ pu_proc'[1].parent = 0
        /\ \A p \in DOMAIN pu_proc : /\ p # 1 => pu_proc'[p] = pu_proc[p]
                                     /\ pu_proc'[p].parent = pu_proc[p].parent /\ pu_proc'[p].by = pu_proc[p].by
    BY <2>1, <2>2, PU_Moves
  <2>4. pu_pipes' \in [read : Nat, write : Nat] /\ pu_calls' \in Nat /\ pu_events' \in Nat
    BY <2>1 DEF PU_IInv, PU_Types
  <2>5. PU_Types' /\ PU_Children' /\ PU!OneCaller'
    BY <2>1, <2>2, <2>3, <2>4, PU_Frame
  <2>6. PU_Rest'
    BY <2>1, <2>3 DEF PU_IInv, PU_Types, PU_Rest, PU_Middle, PU_Watching, PU!PipeEnds, PU!LooksSafely, PU!WakesUp, PU!Main
  <2> QED BY <2>5, <2>6 DEF PU_IInv, PU_Rest
<1>2. CASE PU!ReadEvent
  <2>1. /\ pu_proc[1].at = "read" /\ pu_events' \in 0 .. pu_events
        /\ pu_exists => pu_proc' = PU!At(1, "caller") /\ pu_watch' = "none"
        /\ ~pu_exists => pu_proc' = pu_proc /\ pu_watch' = pu_watch
        /\ UNCHANGED <<pu_call, pu_exists, pu_files, pu_hist, pu_pipes, pu_awaited, pu_subject, pu_crashed, pu_calls>>
    BY <1>2 DEF PU!ReadEvent, PU!Main, PU!unwatched, PU!Seen
  <2>2. "caller" \in PU_Caller /\ "read" \in PU_Caller
    BY DEF PU_Caller
  <2>3. /\ pu_proc' \in Seq(PU_Process) /\ DOMAIN pu_proc' = DOMAIN pu_proc /\ pu_proc'[1].parent = 0
        /\ pu_proc'[1].at = IF pu_exists THEN "caller" ELSE "read"
        /\ \A p \in DOMAIN pu_proc : /\ p # 1 => pu_proc'[p] = pu_proc[p]
                                     /\ pu_proc'[p].parent = pu_proc[p].parent /\ pu_proc'[p].by = pu_proc[p].by
    <3>1. CASE pu_exists
      <4>1. pu_proc'[1].at = "caller"
        BY <2>1, <2>2, <3>1, PU_Moves
      <4> QED BY <2>1, <2>2, <3>1, <4>1, PU_Moves
    <3>2. CASE ~pu_exists
      BY <2>1, <3>2 DEF PU_IInv, PU_Types
    <3> QED BY <3>1, <3>2
  <2>4. pu_pipes' \in [read : Nat, write : Nat] /\ pu_calls' \in Nat /\ pu_events' \in Nat
    BY <2>1 DEF PU_IInv, PU_Types
  <2>5. PU_Types' /\ PU_Children' /\ PU!OneCaller'
    BY <2>1, <2>2, <2>3, <2>4, PU_Frame
  <2>6. pu_proc[1].at = "read" => pu_watch = "set"
    BY DEF PU_IInv, PU_Watching
  <2>7. PU_Rest'
    <3>1. PU_Middle'
      BY <2>1, <2>3 DEF PU_IInv, PU_Middle, PU_Watching
    <3>2. PU_Watching' /\ PU!PipeEnds' /\ PU!LooksSafely' /\ PU!WakesUp'
      BY <2>1, <2>3 DEF PU_IInv, PU_Types, PU_Rest, PU_Watching, PU!PipeEnds, PU!LooksSafely, PU!WakesUp, PU!Main
    <3> QED BY <3>1, <3>2 DEF PU_Rest
  <2> QED BY <2>5, <2>7 DEF PU_IInv, PU_Rest
<1>3. CASE PU!OtherCreates
  <2>1. /\ pu_exists' \in {pu_exists, TRUE} /\ pu_events' = (IF pu_watch = "set" THEN pu_events + 1 ELSE pu_events)
        /\ pu_hist' = (IF pu_exists' /\ pu_proc[1].at = "watch" THEN pu_hist \cup {"unwatched"} ELSE pu_hist)
        /\ UNCHANGED <<pu_proc, pu_call, pu_watch, pu_pipes, pu_awaited, pu_subject, pu_crashed, pu_calls>>
    BY <1>3 DEF PU!OtherCreates, PU!Main, PU!unwatched
  <2>2. /\ pu_proc' \in Seq(PU_Process) /\ DOMAIN pu_proc' = DOMAIN pu_proc /\ pu_proc'[1].parent = 0
        /\ pu_proc'[1].at = pu_proc[1].at /\ pu_proc[1].at \in PU_Caller
        /\ \A p \in DOMAIN pu_proc : /\ p # 1 => pu_proc'[p] = pu_proc[p]
                                     /\ pu_proc'[p].parent = pu_proc[p].parent /\ pu_proc'[p].by = pu_proc[p].by
    BY <2>1 DEF PU_IInv, PU_Types
  <2>3. pu_pipes' \in [read : Nat, write : Nat] /\ pu_calls' \in Nat /\ pu_events' \in Nat
    BY <2>1 DEF PU_IInv, PU_Types
  <2>4. PU_Types' /\ PU_Children' /\ PU!OneCaller'
    BY <2>1, <2>2, <2>3, PU_Frame
  <2>5. pu_hist \subseteq pu_hist' /\ ("fork" \in pu_hist <=> "fork" \in pu_hist') /\ ("secondFork" \in pu_hist <=> "secondFork" \in pu_hist')
    BY <2>1
  <2>6. PU_Middle'
    BY <2>1, <2>5 DEF PU_IInv, PU_Middle, PU_Orphan
  <2>7. PU_Watching'
    BY <2>1, <2>5 DEF PU_IInv, PU_Watching
  <2>8. PU!PipeEnds' /\ PU!LooksSafely' /\ PU!WakesUp'
    BY <2>1, <2>5 DEF PU_IInv, PU_Types, PU_Watching, PU!PipeEnds, PU!LooksSafely, PU!WakesUp, PU!Main
  <2> QED BY <2>4, <2>6, <2>7, <2>8 DEF PU_IInv, PU_Rest
<1> QED BY <1>1, <1>2, <1>3

LEMMA PU_LookKeeps ==
    ASSUME PU_IInv, PU!check_proc_name \/ PU!Look \/ PU!SubjectDies
    PROVE  PU_IInv'
<1>1. CASE PU!check_proc_name
  <2>1. /\ pu_proc[1].at = "caller" /\ pu_proc' = PU!At(1, "comm") /\ pu_calls' = pu_calls + 1 /\ pu_call' = "check_proc_name"
        /\ UNCHANGED <<pu_awaited, pu_pipes, pu_hist, pu_exists, pu_watch, pu_events, pu_subject, pu_crashed, pu_files>>
    BY <1>1 DEF PU!check_proc_name, PU!NewCall, PU!Main, PU!others
  <2>2. "comm" \in PU_Caller
    BY DEF PU_Caller
  <2>3. /\ pu_proc' \in Seq(PU_Process) /\ DOMAIN pu_proc' = DOMAIN pu_proc /\ pu_proc'[1].at = "comm" /\ pu_proc'[1].parent = 0
        /\ \A p \in DOMAIN pu_proc : /\ p # 1 => pu_proc'[p] = pu_proc[p]
                                     /\ pu_proc'[p].parent = pu_proc[p].parent /\ pu_proc'[p].by = pu_proc[p].by
    BY <2>1, <2>2, PU_Moves
  <2>4. pu_pipes' \in [read : Nat, write : Nat] /\ pu_calls' \in Nat /\ pu_events' \in Nat
    BY <2>1 DEF PU_IInv, PU_Types
  <2>5. PU_Types' /\ PU_Children' /\ PU!OneCaller'
    BY <2>1, <2>2, <2>3, <2>4, PU_Frame
  <2>6. PU_Rest'
    BY <2>1, <2>3 DEF PU_IInv, PU_Types, PU_Rest, PU_Middle, PU_Watching, PU!PipeEnds, PU!LooksSafely, PU!WakesUp, PU!Main
  <2> QED BY <2>5, <2>6 DEF PU_IInv, PU_Rest
<1>2. CASE PU!Look
  <2>1. /\ ~pu_crashed
        /\ \/ pu_proc[1].at = "comm" /\ pu_crashed' = pu_crashed
              /\ pu_proc' = PU!At(1, IF pu_subject = "dead" THEN "caller" ELSE "cmdline")
           \/ pu_proc[1].at = "cmdline" /\ pu_crashed' = (pu_subject = "dead")
              /\ pu_proc' = IF pu_subject = "dead" THEN pu_proc ELSE PU!At(1, "caller")
        /\ UNCHANGED <<pu_call, pu_awaited, pu_pipes, pu_exists, pu_watch, pu_events, pu_subject, pu_hist, pu_calls, pu_files>>
    BY <1>2 DEF PU!Look, PU!comm, PU!cmdline, PU!Main
  <2>2. "caller" \in PU_Caller /\ "cmdline" \in PU_Caller
    BY DEF PU_Caller
  <2>3. PICK place \in {"caller", "cmdline"} :
          /\ place = "cmdline" /\ pu_proc[1].at # "cmdline" => pu_subject # "dead"
          /\ \/ pu_proc' = PU!At(1, place)
             \/ pu_proc' = pu_proc /\ pu_proc[1].at = place
    BY <2>1
  <2>4. /\ pu_proc' \in Seq(PU_Process) /\ DOMAIN pu_proc' = DOMAIN pu_proc /\ pu_proc'[1].at = place /\ pu_proc'[1].parent = 0
        /\ \A p \in DOMAIN pu_proc : /\ p # 1 => pu_proc'[p] = pu_proc[p]
                                     /\ pu_proc'[p].parent = pu_proc[p].parent /\ pu_proc'[p].by = pu_proc[p].by
    <3>1. CASE pu_proc' = PU!At(1, place)
      BY <2>1, <2>2, <2>3, <3>1, PU_Moves
    <3>2. CASE pu_proc' = pu_proc /\ pu_proc[1].at = place
      BY <3>2 DEF PU_IInv, PU_Types
    <3> QED BY <2>3, <3>1, <3>2
  <2>5. pu_pipes' \in [read : Nat, write : Nat] /\ pu_calls' \in Nat /\ pu_events' \in Nat
    BY <2>1 DEF PU_IInv, PU_Types
  <2>6. PU_Types' /\ PU_Children' /\ PU!OneCaller'
    BY <2>1, <2>2, <2>3, <2>4, <2>5, PU_Frame
  <2>7. PU!LooksSafely'
    BY <2>1 DEF PU_IInv, PU_Watching, PU!LooksSafely
  <2>8. PU_Middle' /\ PU_Watching' /\ PU!PipeEnds' /\ PU!WakesUp'
    BY <2>1, <2>3, <2>4 DEF PU_IInv, PU_Types, PU_Middle, PU_Watching, PU!PipeEnds, PU!WakesUp, PU!Main
  <2> QED BY <2>6, <2>7, <2>8 DEF PU_IInv
<1>3. CASE PU!SubjectDies
  <2>1. /\ pu_subject' = "dead" /\ pu_hist' = (IF pu_proc[1].at = "cmdline" THEN pu_hist \cup {"diedBetween"} ELSE pu_hist)
        /\ UNCHANGED <<pu_proc, pu_call, pu_awaited, pu_pipes, pu_exists, pu_watch, pu_events, pu_crashed, pu_calls>>
    BY <1>3 DEF PU!SubjectDies, PU!Main
  <2>2. /\ pu_proc' \in Seq(PU_Process) /\ DOMAIN pu_proc' = DOMAIN pu_proc /\ pu_proc'[1].parent = 0
        /\ pu_proc'[1].at = pu_proc[1].at /\ pu_proc[1].at \in PU_Caller
        /\ \A p \in DOMAIN pu_proc : /\ p # 1 => pu_proc'[p] = pu_proc[p]
                                     /\ pu_proc'[p].parent = pu_proc[p].parent /\ pu_proc'[p].by = pu_proc[p].by
    BY <2>1 DEF PU_IInv, PU_Types
  <2>3. pu_pipes' \in [read : Nat, write : Nat] /\ pu_calls' \in Nat /\ pu_events' \in Nat
    BY <2>1 DEF PU_IInv, PU_Types
  <2>4. PU_Types' /\ PU_Children' /\ PU!OneCaller'
    BY <2>1, <2>2, <2>3, PU_Frame
  <2>5. pu_hist \subseteq pu_hist' /\ ("fork" \in pu_hist <=> "fork" \in pu_hist') /\ ("secondFork" \in pu_hist <=> "secondFork" \in pu_hist')
    BY <2>1
  <2>6. PU_Middle'
    BY <2>1, <2>5 DEF PU_IInv, PU_Middle, PU_Orphan
  <2>7. PU_Watching'
    BY <2>1, <2>5 DEF PU_IInv, PU_Watching
  <2>8. PU!PipeEnds' /\ PU!LooksSafely' /\ PU!WakesUp'
    BY <2>1, <2>5 DEF PU_IInv, PU_Types, PU_Watching, PU!PipeEnds, PU!LooksSafely, PU!WakesUp, PU!Main
  <2> QED BY <2>4, <2>6, <2>7, <2>8 DEF PU_IInv
<1> QED BY <1>1, <1>2, <1>3

LEMMA PU_ExecKeeps ==
    ASSUME PU_IInv, NEW async \in BOOLEAN, PU!exec_array(async)
    PROVE  PU_IInv'
<1>1. PICK name \in {"exec_command", "exec_command_sync"} : name = IF async THEN "exec_command" ELSE "exec_command_sync"
  OBVIOUS
<1>2. /\ pu_proc[1].at = "caller" /\ pu_calls' = pu_calls + 1 /\ pu_call' = name
      /\ UNCHANGED <<pu_exists, pu_watch, pu_events, pu_subject, pu_crashed, pu_files>>
  BY <1>1 DEF PU!exec_array, PU!NewCall, PU!Main, PU!others
<1>3. \/ UNCHANGED <<pu_proc, pu_awaited>> /\ (pu_hist' = pu_hist \cup {"pipe"} \/ pu_hist' = pu_hist \cup {"fork"})
      \/ /\ pu_proc' = PU!Forked(1, IF async THEN "caller" ELSE "waitpid", "execvp", name)
         /\ pu_awaited' = (IF async THEN pu_awaited ELSE Len(pu_proc) + 1) /\ pu_hist' = pu_hist
  BY <1>1 DEF PU!exec_array, PU!Main
<1>4. pu_pipes' = pu_pipes \/ pu_pipes' = [pu_pipes EXCEPT !.read = @ + 1]
  BY DEF PU!exec_array, PU!ParentPipes
<1>5. pu_pipes \in [read : Nat, write : Nat] /\ pu_calls \in Nat /\ pu_pipes.write = 0 /\ pu_pipes.read <= pu_calls
  BY DEF PU_IInv, PU_Types, PU!PipeEnds
<1>6. pu_pipes' \in [read : Nat, write : Nat] /\ pu_pipes'.write = 0 /\ pu_pipes'.read <= pu_calls'
  BY <1>2, <1>4, <1>5
<1>7. PU!PipeEnds' /\ pu_calls' \in Nat /\ pu_events' \in Nat
  BY <1>2, <1>5, <1>6 DEF PU!PipeEnds, PU_IInv, PU_Types
<1>8. CASE UNCHANGED <<pu_proc, pu_awaited>> /\ (pu_hist' = pu_hist \cup {"pipe"} \/ pu_hist' = pu_hist \cup {"fork"})
  <2>1. /\ pu_proc' \in Seq(PU_Process) /\ DOMAIN pu_proc' = DOMAIN pu_proc /\ pu_proc'[1].parent = 0
        /\ pu_proc'[1].at = pu_proc[1].at /\ pu_proc[1].at \in PU_Caller
        /\ \A p \in DOMAIN pu_proc : /\ p # 1 => pu_proc'[p] = pu_proc[p]
                                     /\ pu_proc'[p].parent = pu_proc[p].parent /\ pu_proc'[p].by = pu_proc[p].by
    BY <1>8 DEF PU_IInv, PU_Types
  <2>2. pu_hist \subseteq pu_hist'
    BY <1>8
  <2>3. PU_Types' /\ PU_Children' /\ PU!OneCaller'
    BY <1>6, <1>7, <1>8, <2>1, <2>2, PU_Frame
  <2>4. PU_Middle' /\ PU_Watching' /\ PU!LooksSafely' /\ PU!WakesUp'
    BY <1>1, <1>2, <1>8, <2>2 DEF PU_IInv, PU_Middle, PU_Watching, PU!LooksSafely, PU!WakesUp, PU!Main
  <2> QED BY <1>7, <2>3, <2>4 DEF PU_IInv
<1>9. CASE /\ pu_proc' = PU!Forked(1, IF async THEN "caller" ELSE "waitpid", "execvp", name)
           /\ pu_awaited' = (IF async THEN pu_awaited ELSE Len(pu_proc) + 1) /\ pu_hist' = pu_hist
  <2>1. PICK here \in {"caller", "waitpid"} : here = IF async THEN "caller" ELSE "waitpid"
    OBVIOUS
  <2>2. PICK new : new = pu_proc'  OBVIOUS
  <2>3. PICK c : c = Len(pu_proc) + 1  OBVIOUS
  <2>4. new = PU!Forked(1, here, "execvp", name) /\ here \in PU_Caller \cup PU_Forks /\ "execvp" \in PU_Forks
    BY <1>9, <2>1, <2>2 DEF PU_Caller, PU_Forks
  <2>5. pu_proc \in Seq(PU_Process) /\ 1 \in DOMAIN pu_proc /\ pu_proc[1].parent = 0
    BY DEF PU_IInv, PU_Types
  <2>6. /\ new \in Seq(PU_Process) /\ c \notin DOMAIN pu_proc /\ c \in Nat /\ c # 0
        /\ \A q : q \in DOMAIN new <=> q \in DOMAIN pu_proc \/ q = c
        /\ new[1].at = here /\ new[c].at = "execvp" /\ new[c].parent = 1 /\ new[c].by = name
        /\ \A q \in DOMAIN pu_proc : /\ q # 1 => new[q] = pu_proc[q]
                                     /\ new[q].parent = pu_proc[q].parent /\ new[q].by = pu_proc[q].by
    <3>1. name \in {"exec_command", "exec_command_sync", "fork_dont_care"}
      BY <1>1
    <3>4. PU_Grown(new, 1, here, c, "execvp", name)
      BY <2>3, <2>4, <2>5, <3>1, PU_ForkedIs
    <3> QED BY <3>4 DEF PU_Grown
  <2>7. PU_Types'
    BY <1>6, <1>7, <2>1, <2>2, <2>5, <2>6 DEF PU_IInv, PU_Types, PU_Caller, PU_Forks
  <2>8. name # "exec_command" => here = "waitpid" /\ pu_awaited' = c
    BY <1>1, <1>9, <2>1, <2>3
  <2>9. PU_Children'
    <3>1. \A p \in DOMAIN new : new[p].parent = 1 =>
             /\ (new[p].by # "exec_command" /\ new[p].at # "gone") => (new[1].at = "waitpid" /\ pu_awaited' = p)
             /\ (new[p].by = "exec_command" /\ new[p].at = "gone") => "fork" \in pu_hist'
             /\ new[p].at # "worker"
      BY <1>2, <1>9, <2>5, <2>6, <2>8 DEF PU_IInv, PU_Children
    <3>2. here = "waitpid" => name = "exec_command_sync"
      BY <1>1, <2>1
    <3>3. c # 1
      BY <2>5, <2>6
    <3> QED BY <2>1, <2>2, <2>6, <2>8, <3>1, <3>2, <3>3 DEF PU_Children
  <2>10. PU!OneCaller'
    BY <1>9, <2>2, <2>5, <2>6 DEF PU_IInv, PU!OneCaller, PU!Pids, PU!Main
  <2>11. PU_Middle'
    BY <1>1, <1>2 DEF PU_Middle
  <2>12. PU_Watching' /\ PU!LooksSafely' /\ PU!WakesUp'
    BY <1>2, <1>9, <2>1, <2>2, <2>6 DEF PU_IInv, PU_Watching, PU!LooksSafely, PU!WakesUp, PU!Main
  <2> QED BY <1>7, <2>7, <2>9, <2>10, <2>11, <2>12 DEF PU_IInv
<1> QED BY <1>3, <1>8, <1>9

LEMMA PU_DontCareKeeps ==
    ASSUME PU_IInv, PU!fork_dont_care
    PROVE  PU_IInv'
<1>1. /\ pu_proc[1].at = "caller" /\ pu_calls' = pu_calls + 1 /\ pu_call' = "fork_dont_care"
      /\ UNCHANGED <<pu_pipes, pu_exists, pu_watch, pu_events, pu_subject, pu_crashed, pu_files>>
  BY DEF PU!fork_dont_care, PU!NewCall, PU!Main, PU!others
<1>2. \/ /\ pu_proc' = PU!Forked(1, "waitpid", "middle", "fork_dont_care")
         /\ pu_awaited' = Len(pu_proc) + 1 /\ pu_hist' = pu_hist
      \/ pu_proc' = PU!At(1, "waitpid") /\ pu_awaited' = -1 /\ pu_hist' = pu_hist \cup {"fork"}
  BY DEF PU!fork_dont_care, PU!Main, PU!ANY
<1>3. PU!PipeEnds' /\ pu_pipes' \in [read : Nat, write : Nat] /\ pu_calls' \in Nat /\ pu_events' \in Nat
  BY <1>1 DEF PU!PipeEnds, PU_IInv, PU_Types
<1>4. pu_proc \in Seq(PU_Process) /\ 1 \in DOMAIN pu_proc /\ pu_proc[1].parent = 0
  BY DEF PU_IInv, PU_Types
<1>5. {"waitpid", "middle"} \subseteq PU_Caller \cup PU_Forks /\ "middle" \in PU_Forks /\ "waitpid" \in PU_Caller
  BY DEF PU_Caller, PU_Forks
<1>6. PICK new : new = pu_proc'  OBVIOUS
<1>7. CASE /\ pu_proc' = PU!Forked(1, "waitpid", "middle", "fork_dont_care")
           /\ pu_awaited' = Len(pu_proc) + 1 /\ pu_hist' = pu_hist
  <2>1. PICK c : c = Len(pu_proc) + 1  OBVIOUS
  <2>2. /\ new \in Seq(PU_Process) /\ c \notin DOMAIN pu_proc /\ c \in Nat /\ c # 0
        /\ \A q : q \in DOMAIN new <=> q \in DOMAIN pu_proc \/ q = c
        /\ new[1].at = "waitpid" /\ new[c].at = "middle" /\ new[c].parent = 1 /\ new[c].by = "fork_dont_care"
        /\ \A q \in DOMAIN pu_proc : /\ q # 1 => new[q] = pu_proc[q]
                                     /\ new[q].parent = pu_proc[q].parent /\ new[q].by = pu_proc[q].by
    <3>1. "waitpid" \in PU_Caller \cup PU_Forks /\ 1 \in DOMAIN pu_proc
      BY <1>4, <1>5
    <3>2. new = PU!Forked(1, "waitpid", "middle", "fork_dont_care")
      BY <1>6, <1>7
    <3>3. "fork_dont_care" \in {"exec_command", "exec_command_sync", "fork_dont_care"}
      OBVIOUS
    <3>4. PU_Grown(new, 1, "waitpid", c, "middle", "fork_dont_care")
      BY <1>4, <1>5, <2>1, <3>1, <3>2, <3>3, PU_ForkedIs
    <3> QED BY <3>4 DEF PU_Grown
  <2>3. PU_Types'
    BY <1>3, <1>4, <1>5, <1>6, <2>2 DEF PU_IInv, PU_Types
  <2>4. PU_Children'
    BY <1>1, <1>4, <1>6, <1>7, <2>1, <2>2 DEF PU_IInv, PU_Children
  <2>5. PU!OneCaller'
    BY <1>4, <1>6, <1>7, <2>2 DEF PU_IInv, PU!OneCaller, PU!Pids, PU!Main
  <2>6. PU_Middle'
    BY <1>4, <1>6, <1>7, <2>1, <2>2 DEF PU_Middle
  <2>7. PU_Watching' /\ PU!LooksSafely' /\ PU!WakesUp'
    BY <1>1, <1>6, <1>7, <2>2 DEF PU_IInv, PU_Watching, PU!LooksSafely, PU!WakesUp, PU!Main
  <2> QED BY <1>3, <2>3, <2>4, <2>5, <2>6, <2>7 DEF PU_IInv
<1>8. CASE pu_proc' = PU!At(1, "waitpid") /\ pu_awaited' = -1 /\ pu_hist' = pu_hist \cup {"fork"}
  <2>1. /\ new \in Seq(PU_Process) /\ DOMAIN new = DOMAIN pu_proc /\ new[1].at = "waitpid"
        /\ \A q \in DOMAIN pu_proc : /\ q # 1 => new[q] = pu_proc[q]
                                     /\ new[q].parent = pu_proc[q].parent /\ new[q].by = pu_proc[q].by
    BY <1>4, <1>5, <1>6, <1>8, PU_AtIs
  <2>2. PU_Types'
    BY <1>3, <1>4, <1>5, <1>6, <2>1 DEF PU_IInv, PU_Types
  <2>3. PU_Children'
    BY <1>1, <1>4, <1>6, <1>8, <2>1 DEF PU_IInv, PU_Children
  <2>4. PU!OneCaller'
    BY <1>4, <1>6, <1>8, <2>1 DEF PU_IInv, PU!OneCaller, PU!Pids, PU!Main
  <2>5. PU_Middle'
    BY <1>8 DEF PU_Middle
  <2>6. PU_Watching' /\ PU!LooksSafely' /\ PU!WakesUp'
    BY <1>1, <1>6, <1>8, <2>1 DEF PU_IInv, PU_Watching, PU!LooksSafely, PU!WakesUp, PU!Main
  <2> QED BY <1>3, <2>2, <2>3, <2>4, <2>5, <2>6 DEF PU_IInv
<1> QED BY <1>2, <1>7, <1>8

(* A process that is not the first one goes on to another place. *)
LEMMA PU_ExecvpKeeps ==
    ASSUME PU_IInv, NEW p \in DOMAIN pu_proc, PU!execvp(p)
    PROVE  PU_IInv'
<1>1. /\ pu_proc[p].at = "execvp"
      /\ \/ pu_proc' = PU!At(p, "image") /\ pu_hist' = pu_hist
         \/ pu_proc' = PU!At(p, "caller") /\ pu_hist' = pu_hist \cup {"execvp"}
      /\ UNCHANGED <<pu_call, pu_awaited, pu_pipes, pu_calls, pu_exists, pu_watch, pu_events, pu_subject, pu_crashed, pu_files>>
  BY DEF PU!execvp, PU!others
<1>2. PICK place \in {"image", "caller"} :
        pu_proc' = PU!At(p, place) /\ (place = "caller" => "execvp" \in pu_hist')
  BY <1>1
<1>3. pu_hist \subseteq pu_hist' /\ ("fork" \in pu_hist <=> "fork" \in pu_hist') /\ ("secondFork" \in pu_hist <=> "secondFork" \in pu_hist')
  BY <1>1
<1>4. /\ pu_proc \in Seq(PU_Process) /\ 1 \in DOMAIN pu_proc /\ pu_proc[1].parent = 0 /\ pu_proc[1].at \in PU_Caller
      /\ pu_pipes \in [read : Nat, write : Nat] /\ pu_calls \in Nat /\ pu_events \in Nat
      /\ \A q \in DOMAIN pu_proc : q # 1 => pu_proc[q].at \in PU_Forks
  BY DEF PU_IInv, PU_Types
<1>5. p # 1
  BY <1>1, <1>4 DEF PU_Caller
<1>6. place \in PU_Forks /\ place \in PU_Caller \cup PU_Forks
  BY DEF PU_Forks
<1>7. PICK new : new = pu_proc'  OBVIOUS
<1>8. /\ new \in Seq(PU_Process) /\ DOMAIN new = DOMAIN pu_proc /\ new[p].at = place
      /\ \A q \in DOMAIN pu_proc : /\ q # p => new[q] = pu_proc[q]
                                   /\ new[q].parent = pu_proc[q].parent /\ new[q].by = pu_proc[q].by
  BY <1>2, <1>4, <1>6, <1>7, PU_AtIs
<1>9. new[1] = pu_proc[1]
  BY <1>4, <1>5, <1>8
<1>10. PU_Types'
  BY <1>1, <1>4, <1>6, <1>7, <1>8, <1>9 DEF PU_Types
<1>11. PU_Children'
  BY <1>1, <1>3, <1>7, <1>8, <1>9 DEF PU_IInv, PU_Children
<1>12. PU!OneCaller'
  BY <1>2, <1>3, <1>7, <1>8 DEF PU_IInv, PU!OneCaller, PU!Pids, PU!Main
<1>13. PU_Middle'
  <2>1. PU_Orphan => PU_Orphan'
    BY <1>7, <1>8 DEF PU_Orphan
  <2>2. pu_proc[pu_awaited].at \in {"middle", "exit", "zombie"} => pu_awaited # p
    BY <1>1
  <2> QED BY <1>1, <1>3, <1>7, <1>8, <1>9, <2>1, <2>2 DEF PU_IInv, PU_Middle
<1>14. PU_Watching' /\ PU!PipeEnds' /\ PU!LooksSafely' /\ PU!WakesUp'
  BY <1>1, <1>3, <1>7, <1>9 DEF PU_IInv, PU_Watching, PU!PipeEnds, PU!LooksSafely, PU!WakesUp, PU!Main
<1> QED BY <1>10, <1>11, <1>12, <1>13, <1>14 DEF PU_IInv

LEMMA PU_SecondForkKeeps ==
    ASSUME PU_IInv, NEW p \in DOMAIN pu_proc, PU!SecondFork(p)
    PROVE  PU_IInv'
<1>1. /\ pu_proc[p].at = "middle"
      /\ \/ pu_proc' = PU!Forked(p, "exit", "worker", "fork_dont_care") /\ pu_hist' = pu_hist
         \/ pu_proc' = PU!At(p, "exit") /\ pu_hist' = pu_hist \cup {"secondFork"}
      /\ UNCHANGED <<pu_call, pu_awaited, pu_pipes, pu_calls, pu_exists, pu_watch, pu_events, pu_subject, pu_crashed, pu_files>>
  BY DEF PU!SecondFork, PU!middle, PU!others
<1>2. /\ pu_proc \in Seq(PU_Process) /\ 1 \in DOMAIN pu_proc /\ pu_proc[1].parent = 0 /\ pu_proc[1].at \in PU_Caller
      /\ pu_pipes \in [read : Nat, write : Nat] /\ pu_calls \in Nat /\ pu_events \in Nat
      /\ \A q \in DOMAIN pu_proc : q # 1 => pu_proc[q].at \in PU_Forks
  BY DEF PU_IInv, PU_Types
<1>3. p # 1
  BY <1>1, <1>2 DEF PU_Caller
<1>4. "exit" \in PU_Forks /\ "worker" \in PU_Forks /\ "exit" \in PU_Caller \cup PU_Forks
  BY DEF PU_Forks
<1>5. PICK new : new = pu_proc'  OBVIOUS
<1>6. CASE pu_proc' = PU!Forked(p, "exit", "worker", "fork_dont_care") /\ pu_hist' = pu_hist
  <2>1. PICK c : c = Len(pu_proc) + 1  OBVIOUS
  <2>2. "fork_dont_care" \in {"exec_command", "exec_command_sync", "fork_dont_care"}
    OBVIOUS
  <2>3. new = PU!Forked(p, "exit", "worker", "fork_dont_care")
    BY <1>5, <1>6
  <2>4. PU_Grown(new, p, "exit", c, "worker", "fork_dont_care")
    BY <1>2, <1>4, <2>1, <2>2, <2>3, PU_ForkedIs
  <2>5. /\ new \in Seq(PU_Process) /\ c \notin DOMAIN pu_proc /\ c \in Nat /\ c # 0
        /\ \A q : q \in DOMAIN new <=> q \in DOMAIN pu_proc \/ q = c
        /\ new[p].at = "exit" /\ new[c].at = "worker" /\ new[c].parent = p /\ new[c].by = "fork_dont_care"
        /\ \A q \in DOMAIN pu_proc : /\ q # p => new[q] = pu_proc[q]
                                     /\ new[q].parent = pu_proc[q].parent /\ new[q].by = pu_proc[q].by
    BY <2>4 DEF PU_Grown
  <2>6. new[1] = pu_proc[1] /\ c # 1
    BY <1>2, <1>3, <2>5
  <2>7. PU_Types'
    BY <1>1, <1>2, <1>4, <1>5, <2>5, <2>6 DEF PU_Types
  <2>8. PU_Children'
    BY <1>1, <1>3, <1>5, <1>6, <2>5, <2>6 DEF PU_IInv, PU_Children
  <2>9. PU!OneCaller'
    BY <1>5, <1>6, <2>5 DEF PU_IInv, PU!OneCaller, PU!Pids, PU!Main
  <2>10. PU_Middle'
    <3>1. PU_Orphan => PU_Orphan'
      BY <1>5, <2>5 DEF PU_Orphan
    <3>2. SUFFICES ASSUME pu_call = "fork_dont_care", "fork" \notin pu_hist, "secondFork" \notin pu_hist
                   PROVE  PU_Middle'
      BY <1>1, <1>6 DEF PU_Middle
    <3>3. pu_proc[1].at = "caller" => PU_Orphan'
      BY <3>1, <3>2 DEF PU_IInv, PU_Middle
    <3>4. ASSUME pu_proc[1].at = "waitpid"
          PROVE  /\ pu_awaited \in DOMAIN pu_proc' /\ pu_awaited # 1
                 /\ pu_proc'[pu_awaited].parent = 1 /\ pu_proc'[pu_awaited].by = "fork_dont_care"
                 /\ \/ pu_proc'[pu_awaited].at = "middle"
                    \/ pu_proc'[pu_awaited].at = "exit" /\ \E q \in DOMAIN pu_proc' : pu_proc'[q].parent = pu_awaited /\ pu_proc'[q].by = "fork_dont_care"
                    \/ pu_proc'[pu_awaited].at = "zombie" /\ PU_Orphan'
      <4>1. /\ pu_awaited \in DOMAIN pu_proc /\ pu_awaited # 1
            /\ pu_proc[pu_awaited].parent = 1 /\ pu_proc[pu_awaited].by = "fork_dont_care"
            /\ \/ pu_proc[pu_awaited].at = "middle"
               \/ pu_proc[pu_awaited].at = "exit" /\ \E q \in DOMAIN pu_proc : pu_proc[q].parent = pu_awaited /\ pu_proc[q].by = "fork_dont_care"
               \/ pu_proc[pu_awaited].at = "zombie" /\ PU_Orphan
        BY <3>2, <3>4 DEF PU_IInv, PU_Middle
      <4>2. CASE pu_awaited = p
        BY <1>5, <2>5, <4>1, <4>2
      <4>3. CASE pu_awaited # p
        BY <1>5, <2>5, <3>1, <4>1, <4>3
      <4> QED BY <4>2, <4>3
    <3> QED BY <1>1, <1>5, <2>6, <3>3, <3>4 DEF PU_Middle
  <2>11. PU_Watching' /\ PU!PipeEnds' /\ PU!LooksSafely' /\ PU!WakesUp'
    BY <1>1, <1>5, <1>6, <2>6 DEF PU_IInv, PU_Watching, PU!PipeEnds, PU!LooksSafely, PU!WakesUp, PU!Main
  <2> QED BY <2>7, <2>8, <2>9, <2>10, <2>11 DEF PU_IInv
<1>7. CASE pu_proc' = PU!At(p, "exit") /\ pu_hist' = pu_hist \cup {"secondFork"}
  <2>1. /\ new \in Seq(PU_Process) /\ DOMAIN new = DOMAIN pu_proc /\ new[p].at = "exit"
        /\ \A q \in DOMAIN pu_proc : /\ q # p => new[q] = pu_proc[q]
                                     /\ new[q].parent = pu_proc[q].parent /\ new[q].by = pu_proc[q].by
    BY <1>2, <1>4, <1>5, <1>7, PU_AtIs
  <2>2. new[1] = pu_proc[1]
    BY <1>2, <1>3, <2>1
  <2>3. PU_Types'
    BY <1>1, <1>2, <1>4, <1>5, <2>1, <2>2 DEF PU_Types
  <2>4. PU_Children'
    BY <1>1, <1>5, <1>7, <2>1, <2>2 DEF PU_IInv, PU_Children
  <2>5. PU!OneCaller'
    BY <1>5, <1>7, <2>1 DEF PU_IInv, PU!OneCaller, PU!Pids, PU!Main
  <2>6. PU_Middle'
    BY <1>7 DEF PU_Middle
  <2>7. PU_Watching' /\ PU!PipeEnds' /\ PU!LooksSafely' /\ PU!WakesUp'
    BY <1>1, <1>5, <1>7, <2>2 DEF PU_IInv, PU_Watching, PU!PipeEnds, PU!LooksSafely, PU!WakesUp, PU!Main
  <2> QED BY <2>3, <2>4, <2>5, <2>6, <2>7 DEF PU_IInv
<1> QED BY <1>1, <1>6, <1>7

(* A process has ended: its parent has it as a zombie, init has its children. *)
LEMMA PU_ExitIs ==
    ASSUME pu_proc \in Seq(PU_Process), NEW p \in DOMAIN pu_proc, PU!Exit(p), NEW new, new = pu_proc'
    PROVE  /\ new \in Seq(PU_Process) /\ DOMAIN new = DOMAIN pu_proc
           /\ new[p].at = (IF pu_proc[p].parent = 0 THEN "gone" ELSE "zombie") /\ new[p].parent = pu_proc[p].parent
           /\ \A q \in DOMAIN pu_proc :
                /\ new[q].by = pu_proc[q].by
                /\ (q # p /\ pu_proc[q].parent = p) => /\ new[q].parent = 0
                                                       /\ new[q].at = IF pu_proc[q].at = "zombie" THEN "gone" ELSE pu_proc[q].at
                /\ (q # p /\ pu_proc[q].parent # p) => new[q] = pu_proc[q]
<1> DEFINE Ended(q) == IF q = p THEN [pu_proc[p] EXCEPT !.at = IF pu_proc[p].parent = 0 THEN "gone" ELSE "zombie"]
                       ELSE IF pu_proc[q].parent = p
                         THEN [pu_proc[q] EXCEPT !.parent = 0, !.at = IF @ = "zombie" THEN "gone" ELSE @]
                       ELSE pu_proc[q]
<1>1. new = [q \in DOMAIN pu_proc |-> Ended(q)]
  BY DEF PU!Exit, PU!Pids, PU!INIT
<1>2. pu_proc \in [DOMAIN pu_proc -> PU_Process] /\ DOMAIN pu_proc = 1 .. Len(pu_proc) /\ Len(pu_proc) \in Nat
  BY LenProperties
<1>3. "gone" \in PU_Caller \cup PU_Forks /\ "zombie" \in PU_Caller \cup PU_Forks
  BY DEF PU_Forks
<1>4. ASSUME NEW q \in DOMAIN pu_proc
      PROVE  /\ Ended(q) \in PU_Process /\ Ended(q).by = pu_proc[q].by
             /\ q = p => Ended(q).at = (IF pu_proc[p].parent = 0 THEN "gone" ELSE "zombie") /\ Ended(q).parent = pu_proc[p].parent
             /\ (q # p /\ pu_proc[q].parent = p) => /\ Ended(q).parent = 0
                                                    /\ Ended(q).at = IF pu_proc[q].at = "zombie" THEN "gone" ELSE pu_proc[q].at
             /\ (q # p /\ pu_proc[q].parent # p) => Ended(q) = pu_proc[q]
  <2>1. PICK r : r = pu_proc[q]  OBVIOUS
  <2>2. r \in PU_Process
    BY <1>2, <2>1
  <2>3. PICK a \in PU_Caller \cup PU_Forks : a = IF pu_proc[p].parent = 0 THEN "gone" ELSE "zombie"
    BY <1>3
  <2>4. PICK b \in PU_Caller \cup PU_Forks : b = IF r.at = "zombie" THEN "gone" ELSE r.at
    BY <1>3, <2>2 DEF PU_Process
  <2>5. CASE q = p
    <3>1. PICK e : e = [r EXCEPT !.at = a]  OBVIOUS
    <3>2. e \in PU_Process /\ e.at = a /\ e.parent = r.parent /\ e.by = r.by
      BY <2>2, <3>1 DEF PU_Process
    <3>3. Ended(q) = e
      BY <2>1, <2>3, <2>5, <3>1
    <3> HIDE DEF Ended
    <3> QED BY <2>1, <2>3, <2>5, <3>2, <3>3
  <2>6. CASE q # p /\ r.parent = p
    <3>1. PICK e : e = [r EXCEPT !.parent = 0, !.at = b]  OBVIOUS
    <3>2. e \in PU_Process /\ e.at = b /\ e.parent = 0 /\ e.by = r.by
      BY <2>2, <3>1 DEF PU_Process
    <3>3. [r EXCEPT !.parent = 0, !.at = IF @ = "zombie" THEN "gone" ELSE @] = e
      BY <2>2, <2>4, <3>1 DEF PU_Process
    <3>4. Ended(q) = e
      BY <2>1, <2>6, <3>3
    <3> HIDE DEF Ended
    <3> QED BY <2>1, <2>4, <2>6, <3>2, <3>4
  <2>7. CASE q # p /\ r.parent # p
    <3>1. Ended(q) = pu_proc[q]
      BY <2>1, <2>7
    <3> HIDE DEF Ended
    <3> QED BY <2>1, <2>2, <2>7, <3>1
  <2> HIDE DEF Ended
  <2> QED BY <2>1, <2>5, <2>6, <2>7
<1> HIDE DEF Ended, PU_Process
<1>5. DOMAIN new = DOMAIN pu_proc /\ \A q \in DOMAIN pu_proc : new[q] = Ended(q)
  BY <1>1
<1>6. new \in [1 .. Len(pu_proc) -> PU_Process]
  BY <1>1, <1>2, <1>4
<1>7. new \in Seq(PU_Process)
  BY <1>2, <1>6, SeqDef
<1> QED BY <1>4, <1>5, <1>7

LEMMA PU_ExitKeeps ==
    ASSUME PU_IInv, NEW p \in DOMAIN pu_proc, PU!Exit(p)
    PROVE  PU_IInv'
<1>1. /\ p # 1 /\ pu_proc[p].at \in {"image", "worker", "caller", "exit"}
      /\ UNCHANGED <<pu_call, pu_awaited, pu_pipes, pu_hist, pu_calls, pu_exists, pu_watch, pu_events, pu_subject, pu_crashed, pu_files>>
  BY DEF PU!Exit, PU!others, PU!Main
<1>2. /\ pu_proc \in Seq(PU_Process) /\ 1 \in DOMAIN pu_proc /\ pu_proc[1].parent = 0 /\ pu_proc[1].at \in PU_Caller
      /\ pu_pipes \in [read : Nat, write : Nat] /\ pu_calls \in Nat /\ pu_events \in Nat
      /\ \A q \in DOMAIN pu_proc : q # 1 => pu_proc[q].at \in PU_Forks
  BY DEF PU_IInv, PU_Types
<1>3. PICK new : new = pu_proc'  OBVIOUS
<1>4. /\ new \in Seq(PU_Process) /\ DOMAIN new = DOMAIN pu_proc
      /\ new[p].at = (IF pu_proc[p].parent = 0 THEN "gone" ELSE "zombie") /\ new[p].parent = pu_proc[p].parent
      /\ \A q \in DOMAIN pu_proc :
           /\ new[q].by = pu_proc[q].by
           /\ (q # p /\ pu_proc[q].parent = p) => /\ new[q].parent = 0
                                                  /\ new[q].at = IF pu_proc[q].at = "zombie" THEN "gone" ELSE pu_proc[q].at
           /\ (q # p /\ pu_proc[q].parent # p) => new[q] = pu_proc[q]
  BY <1>2, <1>3, PU_ExitIs
<1>5. p # 0
  BY <1>2, LenProperties
<1>6. new[1] = pu_proc[1]
  BY <1>1, <1>2, <1>4, <1>5
<1>7. \A q \in DOMAIN pu_proc : q # 1 => new[q].at \in PU_Forks
  BY <1>1, <1>2, <1>4 DEF PU_Forks
<1>8. PU_Types'
  BY <1>1, <1>2, <1>3, <1>4, <1>6, <1>7 DEF PU_Types
<1>9. PU_Children'
  <2>1. \A q \in DOMAIN new : new[q].parent = 1 =>
          /\ (new[q].by # "exec_command" /\ new[q].at # "gone") => (new[1].at = "waitpid" /\ pu_awaited = q)
          /\ (new[q].by = "exec_command" /\ new[q].at = "gone") => "fork" \in pu_hist
          /\ new[q].at # "worker"
    BY <1>1, <1>4, <1>6 DEF PU_IInv, PU_Children
  <2>2. new[1].at = "waitpid" =>
          \/ pu_awaited = -1 /\ "fork" \in pu_hist
          \/ pu_awaited \in DOMAIN new /\ pu_awaited # 1 /\ new[pu_awaited].by # "exec_command"
    BY <1>4, <1>6 DEF PU_IInv, PU_Children
  <2> QED BY <1>1, <1>3, <2>1, <2>2 DEF PU_Children
<1>10. PU!OneCaller'
  BY <1>1, <1>3, <1>4 DEF PU_IInv, PU!OneCaller, PU!Pids, PU!Main
<1>11. PU_Middle'
  <2>1. PU_Orphan => PU_Orphan'
    BY <1>3, <1>4, <1>5 DEF PU_Orphan
  <2>2. SUFFICES ASSUME pu_call = "fork_dont_care", "fork" \notin pu_hist, "secondFork" \notin pu_hist
                 PROVE  PU_Middle'
    BY <1>1 DEF PU_Middle
  <2>3. pu_proc[1].at = "caller" => PU_Orphan'
    BY <2>1, <2>2 DEF PU_IInv, PU_Middle
  <2>4. ASSUME pu_proc[1].at = "waitpid"
        PROVE  /\ pu_awaited \in DOMAIN pu_proc' /\ pu_awaited # 1
               /\ pu_proc'[pu_awaited].parent = 1 /\ pu_proc'[pu_awaited].by = "fork_dont_care"
               /\ \/ pu_proc'[pu_awaited].at = "middle"
                  \/ pu_proc'[pu_awaited].at = "exit" /\ \E q \in DOMAIN pu_proc' : pu_proc'[q].parent = pu_awaited /\ pu_proc'[q].by = "fork_dont_care"
                  \/ pu_proc'[pu_awaited].at = "zombie" /\ PU_Orphan'
    <3>1. /\ pu_awaited \in DOMAIN pu_proc /\ pu_awaited # 1
          /\ pu_proc[pu_awaited].parent = 1 /\ pu_proc[pu_awaited].by = "fork_dont_care"
          /\ \/ pu_proc[pu_awaited].at = "middle"
             \/ pu_proc[pu_awaited].at = "exit" /\ \E q \in DOMAIN pu_proc : pu_proc[q].parent = pu_awaited /\ pu_proc[q].by = "fork_dont_care"
             \/ pu_proc[pu_awaited].at = "zombie" /\ PU_Orphan
      BY <2>2, <2>4 DEF PU_IInv, PU_Middle
    <3>2. CASE pu_awaited = p
      <4>1. PICK q \in DOMAIN pu_proc : pu_proc[q].parent = p /\ pu_proc[q].by = "fork_dont_care"
        BY <1>1, <3>1, <3>2
      <4>2. q # p
        BY <1>1, <3>1, <3>2, <4>1
      <4>3. PU_Orphan'
        BY <1>3, <1>4, <4>1, <4>2 DEF PU_Orphan
      <4> QED BY <1>3, <1>4, <3>1, <3>2, <4>3
    <3>3. CASE pu_awaited # p
      <4>1. new[pu_awaited] = pu_proc[pu_awaited]
        BY <1>1, <1>4, <3>1, <3>3
      <4>2. ASSUME NEW q \in DOMAIN pu_proc, pu_proc[q].parent = pu_awaited, pu_proc[q].by = "fork_dont_care"
            PROVE  new[q].parent = pu_awaited /\ new[q].by = "fork_dont_care"
        BY <1>4, <3>3, <4>2
      <4> QED BY <1>3, <1>4, <2>1, <3>1, <4>1, <4>2
    <3> QED BY <3>2, <3>3
  <2> QED BY <1>1, <1>3, <1>6, <2>3, <2>4 DEF PU_Middle
<1>12. PU_Watching' /\ PU!PipeEnds' /\ PU!LooksSafely' /\ PU!WakesUp'
  BY <1>1, <1>3, <1>6 DEF PU_IInv, PU_Watching, PU!PipeEnds, PU!LooksSafely, PU!WakesUp, PU!Main
<1> QED BY <1>8, <1>9, <1>10, <1>11, <1>12 DEF PU_IInv

(* The processes after a waitpid that has found p. *)
PU_Reaped(p) == [PU!At(p, "gone") EXCEPT ![1].at = "caller"]

LEMMA PU_ReapIs ==
    ASSUME PU_Types, NEW p \in DOMAIN pu_proc, p # 1, NEW new, new = PU_Reaped(p)
    PROVE  /\ new \in Seq(PU_Process) /\ DOMAIN new = DOMAIN pu_proc /\ new[1].at = "caller" /\ new[p].at = "gone"
           /\ \A q \in DOMAIN pu_proc : /\ q \notin {1, p} => new[q] = pu_proc[q]
                                        /\ new[q].parent = pu_proc[q].parent /\ new[q].by = pu_proc[q].by
<1>1. PICK a : a = PU!At(p, "gone")  OBVIOUS
<1>2. "gone" \in PU_Caller \cup PU_Forks /\ "caller" \in PU_Caller \cup PU_Forks
  BY DEF PU_Forks
<1>3. pu_proc \in Seq(PU_Process) /\ 1 \in DOMAIN pu_proc
  BY DEF PU_Types
<1>4. /\ a \in Seq(PU_Process) /\ DOMAIN a = DOMAIN pu_proc /\ a[p].at = "gone"
      /\ \A q \in DOMAIN pu_proc : /\ q # p => a[q] = pu_proc[q]
                                   /\ a[q].parent = pu_proc[q].parent /\ a[q].by = pu_proc[q].by
  BY <1>1, <1>2, <1>3, PU_AtIs
<1>5. a \in [DOMAIN a -> PU_Process] /\ DOMAIN a = 1 .. Len(a) /\ Len(a) \in Nat
  BY <1>4, LenProperties
<1>6. a[1] \in PU_Process
  BY <1>3, <1>4, <1>5
<1>7. PICK e : e = [a[1] EXCEPT !.at = "caller"]  OBVIOUS
<1>8. e \in PU_Process /\ e.at = "caller" /\ e.parent = a[1].parent /\ e.by = a[1].by
  BY <1>2, <1>6, <1>7 DEF PU_Process
<1>9. new = [a EXCEPT ![1] = e]
  BY <1>1, <1>3, <1>4, <1>7 DEF PU_Reaped
<1> HIDE DEF PU_Process
<1>10. DOMAIN new = DOMAIN a /\ new[1] = e /\ \A q \in DOMAIN a : q # 1 => new[q] = a[q]
  BY <1>3, <1>4, <1>5, <1>9
<1>11. new \in [1 .. Len(a) -> PU_Process]
  BY <1>5, <1>8, <1>9
<1>12. new \in Seq(PU_Process)
  BY <1>5, <1>11, SeqDef
<1>13. DOMAIN new = DOMAIN pu_proc /\ new[1].at = "caller" /\ new[p].at = "gone"
  BY <1>3, <1>4, <1>8, <1>10
<1>14. ASSUME NEW q \in DOMAIN pu_proc
       PROVE  (q \notin {1, p} => new[q] = pu_proc[q]) /\ new[q].parent = pu_proc[q].parent /\ new[q].by = pu_proc[q].by
  <2>1. CASE q = 1
    BY <1>3, <1>4, <1>8, <1>10, <2>1
  <2>2. CASE q # 1
    BY <1>4, <1>10, <2>2
  <2> QED BY <2>1, <2>2
<1> QED BY <1>12, <1>13, <1>14

LEMMA PU_WaitpidKeeps ==
    ASSUME PU_IInv, PU!waitpid
    PROVE  PU_IInv'
<1>1. /\ pu_proc[1].at = "waitpid"
      /\ UNCHANGED <<pu_call, pu_awaited, pu_pipes, pu_hist, pu_calls, pu_exists, pu_watch, pu_events, pu_subject, pu_crashed, pu_files>>
  BY DEF PU!waitpid, PU!others, PU!Main
<1>2. /\ pu_proc \in Seq(PU_Process) /\ 1 \in DOMAIN pu_proc /\ pu_proc[1].parent = 0 /\ pu_proc[1].at \in PU_Caller
      /\ pu_pipes \in [read : Nat, write : Nat] /\ pu_calls \in Nat /\ pu_events \in Nat
      /\ \A q \in DOMAIN pu_proc : q # 1 => pu_proc[q].at \in PU_Forks
  BY DEF PU_IInv, PU_Types
<1>3. \A q : q \in PU!Awaits <=> q \in DOMAIN pu_proc /\ pu_proc[q].parent = 1 /\ pu_proc[q].at # "gone" /\ pu_awaited \in {q, -1}
  BY DEF PU!Awaits, PU!Pids, PU!Main, PU!ANY
<1>4. "caller" \in PU_Caller /\ "caller" \in PU_Caller \cup PU_Forks /\ "gone" \in PU_Forks
  BY DEF PU_Caller, PU_Forks
<1>5. PICK new : new = pu_proc'  OBVIOUS
<1>6. PU!PipeEnds' /\ PU!LooksSafely'
  BY <1>1 DEF PU_IInv, PU!PipeEnds, PU!LooksSafely
<1>7. ASSUME NEW p \in PU!Awaits, pu_proc[p].at = "zombie", pu_proc' = [PU!At(p, "gone") EXCEPT ![1].at = "caller"]
      PROVE  PU_IInv'
  <2>1. p \in DOMAIN pu_proc /\ pu_proc[p].parent = 1 /\ pu_awaited \in {p, -1} /\ p # 1
    BY <1>2, <1>3, <1>7
  <2>2. /\ new \in Seq(PU_Process) /\ DOMAIN new = DOMAIN pu_proc /\ new[1].at = "caller" /\ new[p].at = "gone"
        /\ \A q \in DOMAIN pu_proc : /\ q \notin {1, p} => new[q] = pu_proc[q]
                                     /\ new[q].parent = pu_proc[q].parent /\ new[q].by = pu_proc[q].by
    <3>1. new = PU_Reaped(p) /\ PU_Types
      BY <1>5, <1>7 DEF PU_IInv, PU_Reaped
    <3> QED BY <2>1, <3>1, PU_ReapIs
  <2>3. PU_Types'
    BY <1>1, <1>2, <1>4, <1>5, <2>1, <2>2 DEF PU_Types
  <2>4. PU_Children'
    <3>1. \/ pu_awaited = -1 /\ "fork" \in pu_hist
          \/ pu_awaited = p /\ pu_proc[p].by # "exec_command"
      BY <1>1, <1>2, <2>1, LenProperties DEF PU_IInv, PU_Children
    <3>2. ASSUME NEW q \in DOMAIN pu_proc, pu_proc[q].parent = 1, pu_proc[q].by # "exec_command", pu_proc[q].at # "gone"
          PROVE  q = p
      <4>1. pu_awaited = q
        BY <3>2 DEF PU_IInv, PU_Children
      <4>2. q # -1
        BY <1>2, <3>2, LenProperties
      <4> QED BY <2>1, <4>1, <4>2
    <3>3. \A q \in DOMAIN new : new[q].parent = 1 =>
            /\ (new[q].by # "exec_command" /\ new[q].at # "gone") => FALSE
            /\ (new[q].by = "exec_command" /\ new[q].at = "gone") => "fork" \in pu_hist
            /\ new[q].at # "worker"
      BY <1>2, <2>1, <2>2, <3>1, <3>2 DEF PU_IInv, PU_Children
    <3> QED BY <1>1, <1>5, <2>2, <3>3 DEF PU_Children
  <2>5. PU!OneCaller'
    BY <1>1, <1>5, <2>2 DEF PU_IInv, PU!OneCaller, PU!Pids, PU!Main
  <2>6. PU_Middle'
    <3>1. (pu_call = "fork_dont_care" /\ "fork" \notin pu_hist /\ "secondFork" \notin pu_hist) => PU_Orphan
      <4>1. pu_awaited # -1 => pu_awaited = p
        BY <2>1
      <4>2. \A q \in DOMAIN pu_proc : q # -1
        BY <1>2, LenProperties
      <4> QED BY <1>1, <1>7, <4>1, <4>2 DEF PU_IInv, PU_Middle
    <3>2. PU_Orphan => PU_Orphan'
      BY <1>5, <2>2 DEF PU_Orphan
    <3> QED BY <1>1, <1>5, <2>2, <3>1, <3>2 DEF PU_Middle
  <2>7. PU_Watching' /\ PU!WakesUp'
    BY <1>1, <1>5, <2>2 DEF PU_IInv, PU_Watching, PU!WakesUp, PU!Main
  <2> QED BY <1>6, <2>3, <2>4, <2>5, <2>6, <2>7 DEF PU_IInv
<1>8. ASSUME PU!Awaits = {}, pu_proc' = PU!At(1, "caller")
      PROVE  PU_IInv'
  <2>1. /\ new \in Seq(PU_Process) /\ DOMAIN new = DOMAIN pu_proc /\ new[1].at = "caller"
        /\ \A q \in DOMAIN pu_proc : /\ q # 1 => new[q] = pu_proc[q]
                                     /\ new[q].parent = pu_proc[q].parent /\ new[q].by = pu_proc[q].by
    BY <1>2, <1>4, <1>5, <1>8, PU_AtIs
  <2>2. PU_Types'
    BY <1>1, <1>2, <1>4, <1>5, <2>1 DEF PU_Types
  <2>3. \A q \in DOMAIN pu_proc : (pu_proc[q].parent = 1 /\ pu_awaited = q) => pu_proc[q].at = "gone"
    BY <1>3, <1>8
  <2>4. PU_Children'
    BY <1>1, <1>2, <1>5, <2>1, <2>3 DEF PU_IInv, PU_Children
  <2>5. PU!OneCaller'
    BY <1>1, <1>5, <2>1 DEF PU_IInv, PU!OneCaller, PU!Pids, PU!Main
  <2>6. PU_Middle'
    <3>1. ~(pu_call = "fork_dont_care" /\ "fork" \notin pu_hist /\ "secondFork" \notin pu_hist)
      BY <1>1, <2>3 DEF PU_IInv, PU_Middle
    <3> QED BY <1>1, <3>1 DEF PU_Middle
  <2>7. PU_Watching' /\ PU!WakesUp'
    BY <1>1, <1>5, <2>1 DEF PU_IInv, PU_Watching, PU!WakesUp, PU!Main
  <2> QED BY <1>6, <2>2, <2>4, <2>5, <2>6, <2>7 DEF PU_IInv
<1> QED BY <1>7, <1>8 DEF PU!waitpid, PU!Main

LEMMA PU_Step ==
    ASSUME PU_IInv, [PU!Next]_PU!vars
    PROVE  PU_IInv'
<1>1. CASE UNCHANGED PU!vars
  BY <1>1 DEF PU!vars, PU_IInv, PU_Types, PU_Children, PU_Middle, PU_Orphan, PU_Watching,
              PU!OneCaller, PU!PipeEnds, PU!LooksSafely, PU!WakesUp, PU!Pids, PU!Main
<1>2. ASSUME NEW p \in PU!Pids, PU!execvp(p) \/ PU!Exit(p) \/ PU!SecondFork(p)
      PROVE  PU_IInv'
  BY <1>2, PU_ExecvpKeeps, PU_ExitKeeps, PU_SecondForkKeeps DEF PU!Pids
<1> QED BY <1>1, <1>2, PU_ExecKeeps, PU_WaitpidKeeps, PU_DontCareKeeps, PU_WaitKeeps, PU_WatchKeeps, PU_LookKeeps
        DEF PU!Next

(* misc.c: for any number of calls, processes and files and every order of   *)
(* their steps, no process but the first runs the caller's code unless an    *)
(* execvp has failed; exec_command_sync and fork_dont_care leave no zombie,  *)
(* and the worker of fork_dont_care belongs to init; exec_command keeps no   *)
(* write end; wait_till_exists sleeps beside its target only if that was     *)
(* created before the watch; check_proc_name stumbles only over a process    *)
(* that ended between two looks.                                             *)
THEOREM Processes == PU!Spec => []ProcessInv
<1>1. PU_IInv => ProcessInv
  <2> SUFFICES ASSUME PU_IInv PROVE ProcessInv  OBVIOUS
  <2>1. PU!Reaping
    BY DEF PU_IInv, PU_Children, PU!Reaping, PU!Pids, PU!Main
  <2>2. PU!Detached
    BY DEF PU_IInv, PU_Children, PU_Middle, PU_Orphan, PU!Detached, PU!Pids, PU!Main, PU!INIT
  <2> QED BY <2>1, <2>2 DEF PU_IInv, ProcessInv, PU!ProcessInv
<1>2. PU_IInv /\ [PU!Next]_PU!vars => PU_IInv'
  BY PU_Step
<1> QED BY <1>1, <1>2, PU_InitInv, PTL DEF PU!Spec

-----------------------------------------------------------------------------
(* BootProperties: the tables of init_sec.cpp and zero-helpers.h. *)

(* In a table of suffixes only T and W8 are named after the two carriers. *)
BP_Carriers(suffix) ==
    \A v \in DOMAIN suffix :
        /\ v # "R4"
        /\ (suffix[v] = "tmo") <=> (v = "T")
        /\ (suffix[v] = "can") <=> (v = "W8")

LEMMA BP_Suffixes == BP_Carriers(BP!Flat) /\ BP_Carriers(BP!Edge) /\ BP_Carriers(BP!EdgePlus) /\ BP_Carriers(BP!Note5)
<1>1. BP_Carriers(BP!Flat)
  <2>1. DOMAIN BP!Flat = {"F", "I", "K", "L", "P", "S", "T", "W8"}
    BY DEF BP!Flat
  <2>2. /\ BP!Flat["F"] = "xx" /\ BP!Flat["I"] = "xx" /\ BP!Flat["K"] = "ktt" /\ BP!Flat["L"] = "lgt"
        /\ BP!Flat["P"] = "spr" /\ BP!Flat["S"] = "skt" /\ BP!Flat["T"] = "tmo" /\ BP!Flat["W8"] = "can"
    BY DEF BP!Flat
  <2> QED BY <2>1, <2>2 DEF BP_Carriers
<1>2. BP_Carriers(BP!Edge)
  BY <1>1 DEF BP!Flat, BP!Edge
<1>3. BP_Carriers(BP!EdgePlus)
  <2>1. DOMAIN BP!EdgePlus = {"F", "C", "I", "G", "K", "L", "S", "T", "W8"}
    BY DEF BP!EdgePlus
  <2>2. /\ BP!EdgePlus["F"] = "xx" /\ BP!EdgePlus["C"] = "jv" /\ BP!EdgePlus["I"] = "dv" /\ BP!EdgePlus["G"] = "dd"
        /\ BP!EdgePlus["K"] = "ktt" /\ BP!EdgePlus["L"] = "lgt" /\ BP!EdgePlus["S"] = "skt"
        /\ BP!EdgePlus["T"] = "tmo" /\ BP!EdgePlus["W8"] = "can"
    BY DEF BP!EdgePlus
  <2> QED BY <2>1, <2>2 DEF BP_Carriers
<1>4. BP_Carriers(BP!Note5)
  <2>1. DOMAIN BP!Note = {"C", "G", "I", "P", "S", "K", "L", "T", "W8"}
    BY DEF BP!Note
  <2>2. /\ BP!Note["C"] = "jv" /\ BP!Note["G"] = "dd" /\ BP!Note["I"] = "dv" /\ BP!Note["P"] = "spr"
        /\ BP!Note["S"] = "skt" /\ BP!Note["K"] = "ktt" /\ BP!Note["L"] = "lgt"
        /\ BP!Note["T"] = "tmo" /\ BP!Note["W8"] = "can"
    BY DEF BP!Note
  <2>3. BP_Carriers(BP!Note)
    BY <2>1, <2>2 DEF BP_Carriers
  <2> QED BY <2>1, <2>3 DEF BP_Carriers, BP!Note5
<1> QED BY <1>1, <1>2, <1>3, <1>4

LEMMA BP_Lines ==
    /\ DOMAIN BP!Row = {"G920", "G925", "G928", "N920"}
    /\ \A l \in DOMAIN BP!Row : BP!Row[l].product # "" /\ BP_Carriers(BP!Row[l].suffix)
<1>1. DOMAIN BP!Row = {"G920", "G925", "G928", "N920"}
  BY DEF BP!Row
<1>2. /\ BP!Row["G920"].product = "zeroflte" /\ BP!Row["G925"].product = "zerolte"
      /\ BP!Row["G928"].product = "zenlte" /\ BP!Row["N920"].product = "noblelte"
  BY DEF BP!Row
<1>3. /\ BP!Row["G920"].suffix = BP!Flat /\ BP!Row["G925"].suffix = BP!Edge
      /\ BP!Row["G928"].suffix = BP!EdgePlus /\ BP!Row["N920"].suffix = BP!Note5
  BY DEF BP!Row
<1> QED BY <1>1, <1>2, <1>3, BP_Suffixes

(* Until init_sec has read the bootloader's name, properties and fingerprint *)
(* name the device of the build; then the device is the one of the table, or *)
(* there is none.  The library follows from the same name. *)
BP_Named ==
    \/ bp_prop.device = BP!Empty
    \/ /\ bp_bootloader[1] \in DOMAIN BP!Row /\ bp_bootloader[2] \in DOMAIN BP!Row[bp_bootloader[1]].suffix
       /\ bp_prop.device = <<BP!Row[bp_bootloader[1]].product, BP!Row[bp_bootloader[1]].suffix[bp_bootloader[2]]>>
BP_Properties ==
    bp_prop = [device |-> bp_prop.device, model |-> bp_prop.model, product |-> bp_prop.product, fingerprint |-> bp_prop.fingerprint,
               multisim |-> bp_prop.multisim, radioMultisim |-> bp_prop.radioMultisim, slots |-> bp_prop.slots, network |-> bp_prop.network]
BP_Library ==
    /\ bp_phase = "booting" => bp_prop.fingerprint = <<bp_prop.device, bp_prop.device>> /\ bp_library = "none"
    /\ bp_phase # "booting" => BP_Named
    /\ IF bp_library = "none" THEN bp_zero_model = "UNDEFINED" ELSE bp_library = BP!LibraryOf[BP!ModelOf(bp_bootloader)]

BP_IInv ==
    /\ bp_slotFile \in {"1", "2", "missing"} /\ bp_phase \in {"booting", "loaded", "ready"}
    /\ BP_Properties /\ BP_Library /\ BP!OneIdentity /\ BP!MultisimAgrees

LEMMA BP_Init == BP!Init => BP_IInv
<1> SUFFICES ASSUME BP!Init PROVE BP_IInv  OBVIOUS
<1>1. PICK d \in BuiltFor \cup {BP!Empty} :
        bp_prop = [device |-> d, model |-> d, product |-> d[1], fingerprint |-> <<d, d>>,
                   multisim |-> "", radioMultisim |-> "", slots |-> "", network |-> ""]
  BY DEF BP!Init
<1>2. BP_Properties
  BY <1>1 DEF BP_Properties
<1>3. bp_prop.device = d /\ bp_prop.fingerprint = <<d, d>>
  BY <1>1
<1>4. /\ bp_slotFile \in {"1", "2", "missing"} /\ bp_phase = "booting" /\ bp_zero_model = "UNDEFINED" /\ bp_library = "none"
  BY DEF BP!Init
<1> QED BY <1>2, <1>3, <1>4 DEF BP_IInv, BP_Library, BP!OneIdentity, BP!MultisimAgrees

(* What the table says. *)
LEMMA BP_Identity ==
    ASSUME NEW orig, NEW id, id = BP!Identity(bp_bootloader, orig)
    PROVE  \/ id.device = BP!Empty
           \/ /\ bp_bootloader[1] \in DOMAIN BP!Row /\ bp_bootloader[2] \in DOMAIN BP!Row[bp_bootloader[1]].suffix
              /\ id.device = <<BP!Row[bp_bootloader[1]].product, BP!Row[bp_bootloader[1]].suffix[bp_bootloader[2]]>>
              /\ id.model = bp_bootloader /\ id.product = BP!Row[bp_bootloader[1]].product
BY DEF BP!Identity

LEMMA BP_LoadKeeps ==
    ASSUME BP_IInv, BP!vendor_load_properties
    PROVE  BP_IInv'
<1>1. PICK id : id = BP!Identity(bp_bootloader, bp_prop.device)  OBVIOUS
<1>2. PICK text : text = IF bp_prop.device = BP!Empty THEN bp_prop.fingerprint ELSE BP!replace(bp_prop.fingerprint, bp_prop.device, id)
  OBVIOUS
<1>3. PICK m, r, s, n :
        bp_prop' = [bp_prop EXCEPT !.device = id.device, !.model = id.model, !.product = id.product, !.fingerprint = text,
                                   !.multisim = m, !.radioMultisim = r, !.slots = s, !.network = n]
  BY <1>1, <1>2, ZenonT(30) DEF BP!vendor_load_properties
<1>4. bp_phase = "booting" /\ bp_phase' = "loaded" /\ UNCHANGED <<bp_bootloader, bp_slotFile, bp_zero_model, bp_library>>
  BY DEF BP!vendor_load_properties
<1>5. bp_prop' = [device |-> id.device, model |-> id.model, product |-> id.product, fingerprint |-> text,
                  multisim |-> m, radioMultisim |-> r, slots |-> s, network |-> n]
  BY <1>3 DEF BP_IInv, BP_Properties
<1>6. BP_Properties'
  BY <1>5 DEF BP_Properties
<1>7. bp_prop'.device = id.device /\ bp_prop'.model = id.model /\ bp_prop'.product = id.product /\ bp_prop'.fingerprint = text
  BY <1>5
<1>8. text[1] = id.device \/ text[2] = BP!Empty
  <2>1. bp_prop.fingerprint = <<bp_prop.device, bp_prop.device>>
    BY <1>4 DEF BP_IInv, BP_Library
  <2> QED BY <1>2, <2>1 DEF BP!replace
<1>9. BP_Named'
  BY <1>1, <1>4, <1>7, BP_Identity DEF BP_Named, BP!Empty
<1>10. id.device # BP!Empty => id.device[1] = id.product /\ id.model = bp_bootloader
  BY <1>1, BP_Identity
<1>11. BP!OneIdentity'
  BY <1>4, <1>7, <1>8, <1>10 DEF BP!OneIdentity, BP!Empty
<1>12. BP_Library'
  BY <1>4, <1>9 DEF BP_IInv, BP_Library, BP!ModelOf, BP!Empty
<1> QED BY <1>4, <1>6, <1>11, <1>12 DEF BP_IInv, BP!MultisimAgrees

LEMMA BP_RilchipKeeps ==
    ASSUME BP_IInv, BP!rilchip_init
    PROVE  BP_IInv'
<1>1. bp_phase = "loaded" /\ bp_phase' = "ready" /\ UNCHANGED <<bp_bootloader, bp_slotFile, bp_zero_model, bp_library>>
  BY DEF BP!rilchip_init
<1>2. \/ BP!SIMSLOT_COUNT = "1" /\ bp_prop' = BP!OneSlot
      \/ BP!SIMSLOT_COUNT = "2" /\ bp_prop' = BP!TwoSlots
  BY DEF BP!rilchip_init, BP!SIMSLOT_COUNT, BP_IInv
<1>3. BP!SIMSLOT_COUNT' = BP!SIMSLOT_COUNT
  BY <1>1 DEF BP!SIMSLOT_COUNT
<1>4. /\ BP_Properties'
      /\ bp_prop'.device = bp_prop.device /\ bp_prop'.model = bp_prop.model /\ bp_prop'.product = bp_prop.product
      /\ bp_prop'.fingerprint = bp_prop.fingerprint
      /\ bp_prop'.slots = BP!SIMSLOT_COUNT
      /\ \/ bp_prop'.slots = "1" /\ bp_prop'.radioMultisim = "none" /\ bp_prop'.network = "9"
         \/ bp_prop'.slots = "2" /\ bp_prop'.radioMultisim = "dsds" /\ bp_prop'.network = "9,9" /\ bp_prop'.multisim = "dsds"
  <2>1. CASE BP!SIMSLOT_COUNT = "1" /\ bp_prop' = BP!OneSlot
    <3>1. bp_prop' = [device |-> bp_prop.device, model |-> bp_prop.model, product |-> bp_prop.product, fingerprint |-> bp_prop.fingerprint,
                      multisim |-> bp_prop.multisim, radioMultisim |-> "none", slots |-> "1", network |-> "9"]
      BY <2>1 DEF BP_IInv, BP_Properties, BP!OneSlot
    <3> QED BY <2>1, <3>1 DEF BP_Properties
  <2>2. CASE BP!SIMSLOT_COUNT = "2" /\ bp_prop' = BP!TwoSlots
    <3>1. bp_prop' = [device |-> bp_prop.device, model |-> bp_prop.model, product |-> bp_prop.product, fingerprint |-> bp_prop.fingerprint,
                      multisim |-> "dsds", radioMultisim |-> "dsds", slots |-> "2", network |-> "9,9"]
      BY <2>2 DEF BP_IInv, BP_Properties, BP!TwoSlots
    <3>2. bp_prop'.slots = "2" /\ bp_prop'.radioMultisim = "dsds" /\ bp_prop'.multisim = "dsds"
      BY <3>1
    <3>3. bp_prop'.network = "9,9"
      BY <3>1
    <3>4. BP_Properties'
      BY <3>1 DEF BP_Properties
    <3>5. bp_prop'.device = bp_prop.device /\ bp_prop'.model = bp_prop.model /\ bp_prop'.product = bp_prop.product
          /\ bp_prop'.fingerprint = bp_prop.fingerprint
      BY <3>1
    <3> QED BY <2>2, <3>2, <3>3, <3>4, <3>5
  <2> QED BY <1>2, <2>1, <2>2
<1>7. BP!OneIdentity'
  BY <1>1, <1>4 DEF BP_IInv, BP!OneIdentity, BP!Empty
<1>8. BP!MultisimAgrees'
  BY <1>3, <1>4 DEF BP!MultisimAgrees
<1>9. BP_Library'
  BY <1>1, <1>4 DEF BP_IInv, BP_Library, BP_Named, BP!ModelOf, BP!Empty
<1> QED BY <1>1, <1>4, <1>7, <1>8, <1>9 DEF BP_IInv

LEMMA BP_RildKeeps ==
    ASSUME BP_IInv, BP!rild_library
    PROVE  BP_IInv'
<1>1. bp_phase # "booting" /\ bp_library = "none" /\ UNCHANGED <<bp_bootloader, bp_slotFile, bp_phase, bp_prop>>
  BY DEF BP!rild_library
<1>2. bp_zero_model' = BP!ModelOf(bp_bootloader) /\ bp_library' = BP!LibraryOf[bp_zero_model']
  BY <1>1 DEF BP!rild_library, BP!zero_model_read, BP_IInv, BP_Library
<1>3. BP!ModelOf(bp_bootloader)' = BP!ModelOf(bp_bootloader)
  BY <1>1 DEF BP!ModelOf
<1>4. bp_library' # "none"
  <2>1. BP!ModelOf(bp_bootloader) \in {"UNDEFINED", "SPRINT", "DEFAULT", "INDIA", "TMOBILE", "CANADA"}
    <3>1. \A v \in DOMAIN BP!Carrier : BP!Carrier[v] \in {"INDIA", "TMOBILE", "CANADA"}
      BY DEF BP!Carrier
    <3> QED BY <3>1 DEF BP!ModelOf
  <2> QED BY <1>2, <2>1 DEF BP!LibraryOf
<1>5. BP_Library'
  BY <1>1, <1>2, <1>3, <1>4 DEF BP_IInv, BP_Library, BP_Named, BP!Empty
<1>6. BP_Properties' /\ BP!OneIdentity' /\ BP!MultisimAgrees'
  BY <1>1 DEF BP_IInv, BP_Properties, BP!OneIdentity, BP!MultisimAgrees, BP!SIMSLOT_COUNT, BP!Empty
<1> QED BY <1>1, <1>5, <1>6 DEF BP_IInv

(* The two tables read the same name. *)
LEMMA BP_Fits ==
    ASSUME BP_IInv
    PROVE  BP!LibraryFitsDevice
<1> SUFFICES ASSUME bp_library # "none", bp_prop.device # BP!Empty
             PROVE  /\ (bp_prop.device[2] = "tmo") <=> (bp_library = "tmobile")
                    /\ (bp_prop.device[2] = "can") <=> (bp_library = "canada")
  BY DEF BP!LibraryFitsDevice
<1>1. PICK l, v : l = bp_bootloader[1] /\ v = bp_bootloader[2]  OBVIOUS
<1>2. l \in DOMAIN BP!Row /\ v \in DOMAIN BP!Row[l].suffix /\ bp_prop.device[2] = BP!Row[l].suffix[v]
  BY <1>1 DEF BP_IInv, BP_Library, BP_Named
<1>3. v # "R4" /\ ((bp_prop.device[2] = "tmo") <=> (v = "T")) /\ ((bp_prop.device[2] = "can") <=> (v = "W8"))
  BY <1>2, BP_Lines, ZenonT(40) DEF BP_Carriers
<1>4. bp_bootloader # BP!Empty /\ bp_bootloader \notin {<<"G920", "R4">>, <<"G925", "R4">>}
  <2>1. l # ""
    BY <1>2, BP_Lines
  <2>2. <<"G920", "R4">>[2] = "R4" /\ <<"G925", "R4">>[2] = "R4" /\ <<"", "">>[1] = ""
    OBVIOUS
  <2> QED BY <1>1, <1>3, <2>1, <2>2, Zenon DEF BP!Empty
<1>5. /\ DOMAIN BP!Carrier = {"I", "T", "W8"}
      /\ BP!Carrier["I"] = "INDIA" /\ BP!Carrier["T"] = "TMOBILE" /\ BP!Carrier["W8"] = "CANADA"
  BY DEF BP!Carrier
<1>6. BP!ModelOf(bp_bootloader) = IF v \in DOMAIN BP!Carrier THEN BP!Carrier[v] ELSE "DEFAULT"
  BY <1>1, <1>2, <1>4 DEF BP!ModelOf
<1>7. /\ BP!LibraryOf["INDIA"] = "india" /\ BP!LibraryOf["TMOBILE"] = "tmobile" /\ BP!LibraryOf["CANADA"] = "canada"
      /\ BP!LibraryOf["DEFAULT"] = "plain"
  BY DEF BP!LibraryOf
<1>8. bp_library = BP!LibraryOf[BP!ModelOf(bp_bootloader)]
  BY DEF BP_IInv, BP_Library
<1> QED BY <1>3, <1>5, <1>6, <1>7, <1>8

(* init_sec.cpp, init.rilchip.sh and zero-helpers.h, in any order the boot   *)
(* allows and for any bootloader, build and slot file: device, model,        *)
(* product and fingerprint name one phone, the slot properties agree with    *)
(* each other and with the slots, and a device named after T-Mobile or a     *)
(* Canadian carrier, and no other, gets the library for it.                  *)
THEOREM Identity == BP!Spec => []BootInv
<1>1. BP_IInv => BootInv
  BY BP_Fits DEF BP_IInv, BootInv, BP!BootInv
<1>2. BP_IInv /\ [BP!Next]_BP!vars => BP_IInv'
  <2>1. BP_IInv /\ UNCHANGED BP!vars => BP_IInv'
    BY DEF BP!vars, BP_IInv, BP_Properties, BP_Library, BP_Named, BP!OneIdentity, BP!MultisimAgrees,
           BP!SIMSLOT_COUNT, BP!ModelOf, BP!Empty
  <2> QED BY <2>1, BP_LoadKeeps, BP_RilchipKeeps, BP_RildKeeps DEF BP!Next
<1> QED BY <1>1, <1>2, BP_Init, PTL DEF BP!Spec

-----------------------------------------------------------------------------
(* ResetProp: the exit code, the storage and the read-only properties. *)

RP_Setting == {"remove", "update", "add", "connect", "send", "await"}
RP_Rewriting == {"creat", "encode", "rename"}
RP_Deleting == {"decode", "del"} \cup RP_Rewriting

(* What a process has to work with at each place of its command. *)
RP_Good(p) ==
    /\ p \in Process
    /\ p.pc \in RP_Setting \cup RP_Deleting \cup {"find", "callback", "stored"} => p.name \in Names
    /\ p.pc \in RP_Setting => p.op \in {"set", "file"} /\ p.value \in Values
    /\ p.pc = "find" => p.op = "get" \/ (p.op \in {"set", "file"} /\ p.value \in Values)
    /\ p.pc \in {"callback", "stored"} => p.op = "get"
    /\ p.pc = "skip" => p.op = "file"
    /\ p.pc = "list" => p.op = "list"
    /\ p.pc = "callback" => p.name \in ReadOnly
    /\ p.pc \in RP_Deleting => p.op = "delete" /\ p.pi = Absent
    /\ p.pc \in {"decode"} \cup RP_Rewriting => p.persist /\ p.name \in PersistNames
    /\ p.pc \in RP_Rewriting => p.list \in Contents
    /\ p.pi = "live" => p.name \in Names

(* The variables have their types; a name with a property has a node. *)
RP_Types ==
    /\ DOMAIN proc = Tools /\ DOMAIN reply = Tools /\ DOMAIN effect = Tools
    /\ \A t \in Tools : /\ RP_Good(proc[t])
                        /\ reply[t] \in {"none", "success", "error", "closed"}
                        /\ effect[t] \subseteq {"deleted", "set", "unstored"}
    /\ props \in Contents /\ nodes \subseteq Names /\ (\A n \in Names : props[n] # Absent => n \in nodes)
    /\ mode \in {"file", "dir"} /\ overlap \in BOOLEAN
    /\ store = Damaged \/ store \in Contents
    /\ tmp \in {NoFile, Damaged} \/ tmp \in Contents

(* A pointer to a property in use: the area has that property. *)
RP_Live == \A t \in Tools : proc[t].pi = "live" => props[proc[t].name] # Absent

(* A connection that waits belongs to a process that waits for it, or to nobody. *)
RP_Inbox ==
    /\ inbox \in Seq([tool : Tools \cup {"nobody"}, name : Names, value : Values])
    /\ \A i, j \in 1 .. Len(inbox) : i # j /\ inbox[i].tool \in Tools => inbox[i].tool # inbox[j].tool
    /\ \A i \in 1 .. Len(inbox) : inbox[i].tool \in Tools =>
         proc[inbox[i].tool].pc = "await" /\ reply[inbox[i].tool] = "none"

(* One writer at a time: the list it has decoded is the storage without the name. *)
RP_Storage ==
    /\ \A t \in Tools : proc[t].pc \in RP_Rewriting => mode = "file"
    /\ ~overlap => \A t \in Tools : proc[t].pc \in RP_Rewriting =>
         /\ store \in Contents /\ proc[t].list = [store EXCEPT ![proc[t].name] = Absent]
         /\ (proc[t].pc = "encode" => tmp = Damaged)
         /\ (proc[t].pc = "rename" => tmp = proc[t].list)
         /\ \A u \in Tools : proc[u].pc \in RP_Rewriting => u = t

(* What the command has done so far. *)
RP_Lost(p) == IF p.name \in ReadOnly /\ p.trigger THEN {"deleted"} ELSE {}
RP_SetTold(p, e, answer) ==
    p.op = "set" =>
      /\ p.pc \in {"find", "remove", "update", "add", "connect"} => p.ver = 0
      /\ p.pc \in {"find", "remove", "update", "add"} => e = {}
      /\ p.pc = "remove" => p.trigger /\ p.name \in ReadOnly
      /\ p.pc \in {"connect", "send"} => e \subseteq RP_Lost(p)
      /\ p.pc = "await" => e \subseteq RP_Lost(p) \cup {"set"} /\ ("set" \in e <=> answer = "success")
      /\ p.pc = "ended" /\ p.name \in Names =>
           (p.ver = 2 => (p.ret = 0 <=> "set" \in e)) /\ (p.ret # 0 => e \subseteq RP_Lost(p))
RP_DeleteTold(p, e) ==
    p.op = "delete" =>
      /\ p.pc \in {"decode"} \cup RP_Rewriting => e = {}
      /\ p.pc = "del" => IF p.persist /\ p.name \in PersistNames THEN overlap \/ e # {} ELSE e = {}
      /\ p.pc = "ended" /\ p.name \in Names /\ ~overlap => IF p.ret = 0 THEN e # {} \/ p.name \in nodes ELSE e = {}
RP_Told == \A t \in Tools : RP_SetTold(proc[t], effect[t], reply[t]) /\ RP_DeleteTold(proc[t], effect[t])

RP_IInv == RP_Types /\ RP_Live /\ RP_Inbox /\ RP_Storage /\ RP_Told

LEMMA RP_Facts ==
    ASSUME WellFormed
    PROVE  /\ PersistNames \subseteq Names /\ ReadOnly \subseteq Names /\ VersionName \in Names
           /\ Names \cap BadNames = {} /\ "nobody" \notin Tools
           /\ Absent \notin Values /\ Truncated \in [Values -> Values]
           /\ Damaged \notin Contents /\ NoFile \notin Contents /\ Damaged # NoFile
           /\ Len(FileLines) \in Nat
<1>1. PersistNames \subseteq Names /\ ReadOnly \subseteq Names /\ VersionName \in Names
  BY DEF WellFormed
<1>2. /\ "damaged" \notin Values \cup {Absent} /\ "no file" \notin Values \cup {Absent}
      /\ Absent \notin Values
  BY DEF WellFormed, Absent
<1>3. Damaged[VersionName] = "damaged" /\ NoFile[VersionName] = "no file"
  BY <1>1 DEF Damaged, NoFile
<1>4. \A c \in Contents : c[VersionName] \in Values \cup {Absent}
  BY <1>1 DEF Contents
<1> QED BY <1>1, <1>2, <1>3, <1>4 DEF WellFormed

(* What the area or the storage holds: changed at one name it is one of those still. *)
LEMMA RP_Content ==
    ASSUME NEW c \in Contents, NEW n \in Names, NEW v \in Values \cup {Absent}
    PROVE  /\ [c EXCEPT ![n] = v] \in Contents /\ [c EXCEPT ![n] = v][n] = v
           /\ \A m \in Names \ {n} : [c EXCEPT ![n] = v][m] = c[m]
BY DEF Contents

LEMMA RP_NextLine ==
    ASSUME WellFormed, NEW i \in Nat, NextLine(i) # 0
    PROVE  NextLine(i) \in 1 .. Len(FileLines) /\ FileLines[NextLine(i)].kind = "set"
<1> DEFINE ok == {k \in i + 1 .. Len(FileLines) : FileLines[k].kind = "set"}
<1>1. ok \subseteq Nat /\ ok # {}
  BY RP_Facts DEF NextLine
<1>2. PICK k \in ok : \A j \in ok : ~(<<j, k>> \in OpToRel(<, Nat))
  <2> HIDE DEF ok
  <2> QED BY <1>1, NatLessThanWellFounded, WFMin
<1>3. \A j \in ok : k <= j
  <2>1. OpToRel(<, Nat) = {ss \in Nat \X Nat : ss[1] < ss[2]}
    BY Zenon DEF OpToRel
  <2>2. PICK R : R = OpToRel(<, Nat)
    BY Zenon
  <2>3. \A j \in ok : ~(<<j, k>> \in R)
    BY <1>2, <2>2, Zenon
  <2>4. R = {ss \in Nat \X Nat : ss[1] < ss[2]}
    BY <2>1, <2>2, Zenon
  <2>5. k \in ok
    BY <1>2, Zenon
  <2> HIDE DEF ok
  <2>6. SUFFICES ASSUME NEW j \in ok
                 PROVE  k <= j
    OBVIOUS
  <2>7. j \in Nat /\ k \in Nat /\ ~(<<j, k>> \in R)
    BY <1>1, <2>3, <2>5
  <2>8. <<j, k>> \in Nat \X Nat /\ <<j, k>>[1] = j /\ <<j, k>>[2] = k
    BY <2>7
  <2>9. ~(j < k)
    BY <2>4, <2>7, <2>8, Zenon
  <2> QED BY <2>7, <2>9
<1>4. NextLine(i) = CHOOSE m \in ok : \A j \in ok : m <= j
  BY <1>1 DEF NextLine
<1>5. NextLine(i) \in ok
  BY <1>2, <1>3, <1>4
<1> QED BY <1>5, RP_Facts

(* Where a command goes on when its function has returned. *)
LEMMA RP_Returned ==
    ASSUME WellFormed, NEW p \in Process, NEW r \in 0 .. 1, NEW q, q = Returned(p, r),
           p.pi = "live" => p.name \in Names
    PROVE  /\ RP_Good(q) /\ q.op = p.op /\ q.pc \in {"ended", "find", "skip"}
           /\ q.pi = Absent \/ (q.pi = p.pi /\ q.name = p.name)
           /\ p.op # "file" => /\ q.pc = "ended" /\ q.ret = r /\ q.name = p.name /\ q.ver = p.ver
                               /\ q.trigger = p.trigger /\ q.persist = p.persist
<1> DEFINE k == NextLine(p.line)
<1>0. p.line \in Nat
  BY RP_Facts DEF Process
<1>1. CASE p.op = "file" /\ k # 0
  <2>1. k \in 1 .. Len(FileLines) /\ FileLines[k].kind = "set"
    BY <1>0, <1>1, RP_NextLine
  <2>2. FileLines[k].name \in Names \cup BadNames /\ FileLines[k].value \in Values
    BY <2>1 DEF WellFormed
  <2>3. PICK n, v, c : n = FileLines[k].name /\ v = FileLines[k].value
                       /\ c = IF check_legal_property_name(FileLines[k].name) THEN "find" ELSE "skip"
    OBVIOUS
  <2>4. q = [p EXCEPT !.line = k, !.pi = Absent, !.name = n, !.value = v, !.pc = c]
    BY <1>1, <2>3 DEF Returned
  <2>5. c \in {"find", "skip"} /\ (c = "find" => n \in Names)
    BY <2>2, <2>3 DEF check_legal_property_name
  <2>6. q \in Process
    <3>1. k \in 0 .. Len(FileLines) /\ n \in Names \cup BadNames \cup {Absent} /\ v \in Values \cup {Absent}
      BY <2>1, <2>2, <2>3
    <3> HIDE DEF k
    <3>2. PICK a : a = [p EXCEPT !.line = k, !.pi = Absent]
      OBVIOUS
    <3>3. a \in Process
      BY <3>1, <3>2 DEF Process
    <3>4. q = [a EXCEPT !.name = n, !.value = v, !.pc = c]
      BY <2>4, <3>2
    <3> QED BY <2>5, <3>1, <3>3, <3>4, ZenonT(40) DEF Process
  <2>7. q.pc = c /\ q.pi = Absent /\ q.op = "file" /\ q.name = n /\ q.value = v
    BY <1>1, <2>4 DEF Process
  <2> QED BY <1>1, <2>2, <2>3, <2>5, <2>6, <2>7 DEF RP_Good, RP_Setting, RP_Deleting, RP_Rewriting, Absent
<1>2. CASE ~(p.op = "file" /\ k # 0)
  <2>1. PICK s : s = IF p.op = "file" THEN 0 ELSE r
    OBVIOUS
  <2>2. q = [p EXCEPT !.pc = "ended", !.ret = s] /\ s \in 0 .. 1
    BY <1>2, <2>1 DEF Returned
  <2>3. q \in Process
    BY <2>2 DEF Process
  <2>4. /\ q.pc = "ended" /\ q.pi = p.pi /\ q.op = p.op /\ q.name = p.name /\ q.ret = s /\ q.ver = p.ver
        /\ q.trigger = p.trigger /\ q.persist = p.persist
    BY <2>2 DEF Process
  <2> QED BY <2>1, <2>3, <2>4 DEF RP_Good, RP_Setting, RP_Deleting, RP_Rewriting
<1> QED BY <1>1, <1>2

LEMMA RP_IdleGood == ASSUME WellFormed PROVE RP_Good(Idle) /\ Idle.pc = "idle" /\ Idle.pi = Absent
                                              /\ Idle.op = "none"
<1>1. Idle \in Process
  BY RP_Facts DEF Idle, Process
<1>2. Idle.pc = "idle" /\ Idle.pi = Absent /\ Idle.op = "none"
  BY DEF Idle
<1> QED BY <1>1, <1>2 DEF RP_Good, RP_Setting, RP_Deleting, RP_Rewriting, Absent

(* What main() starts a command with. *)
LEMMA RP_Main ==
    ASSUME WellFormed, NEW argv \in CommandLines, NEW p, p = Main(argv)
    PROVE  /\ p \in Process /\ p.pc = "idle" /\ p.ver = 0 /\ p.pi = Absent
           /\ p.op \in {"usage", "file", "delete", "list", "get", "set"}
           /\ p.op \in {"get", "set", "delete"} => p.name \in Names \cup BadNames
           /\ p.op = "set" => p.value \in Values
<1>1. PICK f : f = FlagsOf(argv)
  OBVIOUS
<1>2. PICK op, n, v : /\ op = IF f.usage THEN "usage"
                              ELSE CASE f.option = "--file" -> "file" [] f.option = "--delete" -> "delete"
                                     [] f.option = "none" /\ Len(f.rest) = 0 -> "list"
                                     [] f.option = "none" /\ Len(f.rest) = 1 -> "get"
                                     [] f.option = "none" /\ Len(f.rest) = 2 -> "set"
                                     [] OTHER -> "usage"
                      /\ n = IF op \in {"get", "set", "delete"} THEN f.rest[1] ELSE Absent
                      /\ v = IF op = "set" THEN f.rest[2] ELSE Absent
  OBVIOUS
<1>3. p = [Idle EXCEPT !.op = op, !.trigger = f.trigger, !.persist = f.persist, !.name = n, !.value = v]
  BY <1>1, <1>2 DEF Main
<1>4. f.trigger \in BOOLEAN /\ f.persist \in BOOLEAN
  BY <1>1 DEF FlagsOf
<1>5. op \in {"usage", "file", "delete", "list", "get", "set"}
  BY <1>2
<1>6. Idle \in Process /\ Idle.pc = "idle" /\ Idle.ver = 0 /\ Idle.pi = Absent
  BY RP_IdleGood DEF RP_Good, Idle
<1>7. /\ p.op = op /\ p.trigger = f.trigger /\ p.persist = f.persist /\ p.name = n /\ p.value = v
      /\ p.pc = "idle" /\ p.ver = 0 /\ p.pi = Absent
  BY <1>3, <1>6 DEF Process
<1>8. /\ p.op \in {"get", "set", "delete"} => p.name \in Names \cup BadNames
      /\ p.op = "set" => p.value \in Values
  BY DEF WellFormed
<1>9. n \in Names \cup BadNames \cup {Absent} /\ v \in Values \cup {Absent}
  BY <1>2, <1>7, <1>8
<1>10. p \in Process
  <2>0. PICK tr \in BOOLEAN, pe \in BOOLEAN : tr = f.trigger /\ pe = f.persist
    BY <1>4
  <2>1. PICK a, c, b : a = Idle /\ c = [a EXCEPT !.op = op] /\ b = [c EXCEPT !.trigger = tr, !.persist = pe]
    OBVIOUS
  <2>2. b \in Process
    <3>1. a \in Process
      BY <1>6, <2>1
    <3>2. c \in Process
      BY <1>5, <2>1, <3>1 DEF Process
    <3> QED BY <2>0, <2>1, <3>2, ZenonT(40) DEF Process
  <2>3. p = [b EXCEPT !.name = n, !.value = v]
    BY <1>3, <2>0, <2>1
  <2> QED BY <1>9, <2>2, <2>3 DEF Process
<1> QED BY <1>5, <1>7, <1>8, <1>10

(* The first step of a command. *)
LEMMA RP_Entry ==
    ASSUME WellFormed, NEW argv \in CommandLines, NEW q, q = Entry(Main(argv))
    PROVE  /\ RP_Good(q) /\ q.pi = Absent /\ q.pc \notin RP_Setting \cup RP_Rewriting
           /\ q.op = "set" => /\ q.pc = "find" => q.ver = 0
                              /\ q.pc = "ended" => q.name \notin Names
           /\ q.op = "delete" => /\ q.pc = "del" => ~(q.persist /\ q.name \in PersistNames)
                                 /\ q.pc = "ended" => q.name \notin Names
<1>1. PICK p : p = Main(argv)
  OBVIOUS
<1> USE DEF RP_Setting, RP_Rewriting, RP_Deleting, Absent
<1>2. /\ p \in Process /\ p.pc = "idle" /\ p.ver = 0 /\ p.pi = Absent
      /\ p.op \in {"get", "set", "delete"} => p.name \in Names \cup BadNames
      /\ p.op = "set" => p.value \in Values
  BY <1>1, RP_Main
<1>3. CASE p.op = "file" /\ q = Returned(p, 0)
  <2>1. 0 \in 0 .. 1 /\ (p.pi = "live" => p.name \in Names)
    BY <1>2
  <2>2. /\ RP_Good(q) /\ q.op = p.op /\ q.pc \in {"ended", "find", "skip"}
        /\ q.pi = Absent
    BY <1>2, <1>3, <2>1, RP_Returned
  <2> QED BY <1>3, <2>2
<1>4. CASE p.op # "file" /\ p.op # "list" /\ q = Returned(p, 1) /\ (p.op \in {"set", "delete"} => p.name \in BadNames)
  <2>1. 1 \in 0 .. 1 /\ (p.pi = "live" => p.name \in Names)
    BY <1>2
  <2>2. /\ RP_Good(q) /\ q.op = p.op /\ q.pc = "ended" /\ q.name = p.name
        /\ q.pi = Absent
    BY <1>2, <1>4, <2>1, RP_Returned
  <2> QED BY <1>4, <2>2, RP_Facts
<1>5. ASSUME NEW c, q = [p EXCEPT !.pc = c], c \in {"list", "find", "decode", "del"}
      PROVE  /\ q \in Process /\ q.pc = c /\ q.op = p.op /\ q.name = p.name /\ q.pi = Absent
             /\ q.value = p.value /\ q.ver = 0 /\ (q.persist <=> p.persist)
  BY <1>2, <1>5 DEF Process
<1>6. CASE q = [p EXCEPT !.pc = "list"] /\ p.op = "list"
  BY <1>2, <1>5, <1>6 DEF RP_Good
<1>7. CASE q = [p EXCEPT !.pc = "find"] /\ p.op \in {"get", "set"} /\ p.name \notin BadNames
  BY <1>2, <1>5, <1>7 DEF RP_Good
<1>8. CASE q = [p EXCEPT !.pc = "decode"] /\ p.op = "delete" /\ p.name \notin BadNames
           /\ p.persist /\ p.name \in PersistNames
  BY <1>2, <1>5, <1>8 DEF RP_Good
<1>9. CASE q = [p EXCEPT !.pc = "del"] /\ p.op = "delete" /\ p.name \notin BadNames
           /\ ~(p.persist /\ p.name \in PersistNames)
  BY <1>2, <1>5, <1>9 DEF RP_Good
<1>10. p.op \in {"usage", "file", "delete", "list", "get", "set"}
  BY <1>1, RP_Main
<1> QED
  <2>1. q = Entry(p)
    BY <1>1
  <2>2. CASE p.op = "file"
    BY <1>3, <2>1, <2>2 DEF Entry
  <2>3. CASE p.op = "usage" \/ (p.op \in {"get", "set", "delete"} /\ p.name \in BadNames)
    <3>1. q = Returned(p, 1)
      BY <2>1, <2>3 DEF Entry, check_legal_property_name
    <3> QED BY <1>4, <2>3, <3>1
  <2>4. CASE p.op = "list"
    BY <1>6, <2>1, <2>4 DEF Entry
  <2>5. CASE p.op \in {"get", "set"} /\ p.name \notin BadNames
    BY <1>7, <2>1, <2>5 DEF Entry, check_legal_property_name
  <2>6. CASE p.op = "delete" /\ p.name \notin BadNames
    <3>1. q = [p EXCEPT !.pc = IF p.persist /\ p.name \in PersistNames THEN "decode" ELSE "del"]
      BY <2>1, <2>6 DEF Entry, check_legal_property_name
    <3> QED BY <1>8, <1>9, <2>6, <3>1
  <2> QED BY <1>10, <2>2, <2>3, <2>4, <2>5, <2>6

(* A process goes on alone: of the others only the pointers are moved. *)
RP_Moved(p, q) ==
    /\ q \in Process
    /\ q.pc = p.pc /\ q.op = p.op /\ q.name = p.name /\ q.value = p.value /\ (q.trigger <=> p.trigger)
    /\ (q.persist <=> p.persist) /\ q.ver = p.ver /\ q.list = p.list /\ q.ret = p.ret
    /\ q.pi = p.pi \/ (p.pi = "live" /\ q.pi = "orphan")
RP_Alone(t) ==
    /\ DOMAIN proc' = Tools /\ DOMAIN reply' = Tools /\ DOMAIN effect' = Tools
    /\ \A u \in Tools \ {t} : RP_Moved(proc[u], proc'[u]) /\ reply'[u] = reply[u] /\ effect'[u] = effect[u]

LEMMA RP_MovedGood ==
    ASSUME NEW p, NEW q, RP_Good(p), RP_Moved(p, q)
    PROVE  RP_Good(q)
BY DEF RP_Good, RP_Moved, RP_Setting, RP_Deleting, RP_Rewriting, Absent

LEMMA RP_MovedSelf ==
    ASSUME NEW p \in Process
    PROVE  RP_Moved(p, p)
BY DEF RP_Moved

(* The steps that change one process. *)
LEMMA RP_ProcOnly ==
    ASSUME RP_IInv, NEW t \in Tools, NEW q, proc' = [proc EXCEPT ![t] = q],
           NEW e, effect' = [effect EXCEPT ![t] = e] \/ (effect' = effect /\ e = effect[t]),
           NEW r, reply' = [reply EXCEPT ![t] = r] \/ (reply' = reply /\ r = reply[t])
    PROVE  RP_Alone(t) /\ proc'[t] = q /\ effect'[t] = e /\ reply'[t] = r
<1>1. DOMAIN proc = Tools /\ DOMAIN reply = Tools /\ DOMAIN effect = Tools
  BY DEF RP_IInv, RP_Types
<1>2. \A u \in Tools : RP_Moved(proc[u], proc[u])
  BY RP_MovedSelf DEF RP_IInv, RP_Types, RP_Good
<1> QED BY <1>1, <1>2 DEF RP_Alone

LEMMA RP_TypesKept ==
    ASSUME RP_IInv, NEW t \in Tools, RP_Alone(t), RP_Good(proc'[t]),
           reply'[t] \in {"none", "success", "error", "closed"}, effect'[t] \subseteq {"deleted", "set", "unstored"},
           props' \in Contents, nodes' \subseteq Names, \A n \in Names : props'[n] # Absent => n \in nodes',
           mode' = mode, overlap' \in BOOLEAN,
           store' = Damaged \/ store' \in Contents, tmp' \in {NoFile, Damaged} \/ tmp' \in Contents
    PROVE  RP_Types'
<1>1. \A u \in Tools : RP_Good(proc'[u])
  BY RP_MovedGood DEF RP_IInv, RP_Types, RP_Alone
<1>2. \A u \in Tools : /\ reply'[u] \in {"none", "success", "error", "closed"}
                       /\ effect'[u] \subseteq {"deleted", "set", "unstored"}
  BY DEF RP_IInv, RP_Types, RP_Alone
<1>3. mode' \in {"file", "dir"} /\ DOMAIN proc' = Tools /\ DOMAIN reply' = Tools /\ DOMAIN effect' = Tools
  BY DEF RP_IInv, RP_Types, RP_Alone
<1> QED
  <2>1. RP_Types' <=>
          /\ DOMAIN proc' = Tools /\ DOMAIN reply' = Tools /\ DOMAIN effect' = Tools
          /\ \A u \in Tools : /\ RP_Good(proc'[u])
                              /\ reply'[u] \in {"none", "success", "error", "closed"}
                              /\ effect'[u] \subseteq {"deleted", "set", "unstored"}
          /\ props' \in Contents /\ nodes' \subseteq Names /\ (\A n \in Names : props'[n] # Absent => n \in nodes')
          /\ mode' \in {"file", "dir"} /\ overlap' \in BOOLEAN
          /\ store' = Damaged \/ store' \in Contents
          /\ tmp' \in {NoFile, Damaged} \/ tmp' \in Contents
    BY DEF RP_Types, RP_Good
  <2> QED BY <1>1, <1>2, <1>3, <2>1

LEMMA RP_LiveKept ==
    ASSUME RP_IInv, NEW t \in Tools, RP_Alone(t), proc'[t].pi = "live" => props'[proc'[t].name] # Absent,
           \A u \in Tools \ {t} : proc'[u].pi = "live" /\ props[proc[u].name] # Absent
                                  => props'[proc[u].name] # Absent
    PROVE  RP_Live'
<1>1. ASSUME NEW u \in Tools, proc'[u].pi = "live" PROVE props'[proc'[u].name] # Absent
  BY <1>1 DEF RP_IInv, RP_Live, RP_Alone, RP_Moved
<1> QED BY <1>1 DEF RP_Live

(* The connections stay, or those of t are left to nobody. *)
LEMMA RP_InboxKept ==
    ASSUME WellFormed, RP_IInv, NEW t \in Tools, RP_Alone(t),
           (inbox' = inbox /\ proc[t].pc # "await") \/ inbox' = Abandoned(t)
    PROVE  RP_Inbox'
<1> DEFINE M == [tool : Tools \cup {"nobody"}, name : Names, value : Values]
<1>1. /\ inbox \in Seq(M)
      /\ \A i, j \in 1 .. Len(inbox) : i # j /\ inbox[i].tool \in Tools => inbox[i].tool # inbox[j].tool
      /\ \A i \in 1 .. Len(inbox) : inbox[i].tool \in Tools =>
           proc[inbox[i].tool].pc = "await" /\ reply[inbox[i].tool] = "none"
  BY DEF RP_IInv, RP_Inbox
<1>2. /\ inbox' \in Seq(M) /\ Len(inbox') = Len(inbox)
      /\ \A i \in 1 .. Len(inbox) : inbox'[i].tool \in Tools => inbox'[i].tool = inbox[i].tool /\ inbox'[i].tool # t
  <2>1. CASE inbox' = inbox /\ proc[t].pc # "await"
    BY <1>1, <2>1
  <2>2. CASE inbox' = Abandoned(t)
    <3>1. DOMAIN inbox = 1 .. Len(inbox) /\ \A i \in 1 .. Len(inbox) : inbox[i] \in M
      BY <1>1, LenProperties
    <3>2. ASSUME NEW i \in 1 .. Len(inbox)
          PROVE  /\ inbox'[i] \in M
                 /\ inbox'[i].tool \in Tools => inbox'[i].tool = inbox[i].tool /\ inbox'[i].tool # t
      <4>1. inbox'[i] = IF inbox[i].tool = t THEN [inbox[i] EXCEPT !.tool = "nobody"] ELSE inbox[i]
        BY <2>2, <3>1 DEF Abandoned
      <4>2. inbox[i] \in M
        BY <3>1
      <4> QED BY <4>1, <4>2, RP_Facts
    <3>3. DOMAIN inbox' = 1 .. Len(inbox) /\ inbox' = [i \in 1 .. Len(inbox) |-> inbox'[i]] /\ Len(inbox) \in Nat
      BY <1>1, <2>2, <3>1, LenProperties DEF Abandoned
    <3>4. inbox' \in Seq(M)
      <4> HIDE DEF M
      <4>1. inbox' \in [1 .. Len(inbox) -> M]
        BY <3>2, <3>3
      <4> QED BY <3>3, <4>1, SeqDef
    <3>5. Len(inbox') = Len(inbox)
      BY <3>3, <3>4, LenProperties
    <3> QED BY <3>2, <3>4, <3>5
  <2> QED BY <2>1, <2>2
<1>3. \A u \in Tools \ {t} : proc'[u].pc = proc[u].pc /\ reply'[u] = reply[u]
  BY DEF RP_Alone, RP_Moved
<1>4. \A i, j \in 1 .. Len(inbox') : i # j /\ inbox'[i].tool \in Tools => inbox'[i].tool # inbox'[j].tool
  BY <1>1, <1>2
<1>5. \A i \in 1 .. Len(inbox') : inbox'[i].tool \in Tools =>
         proc'[inbox'[i].tool].pc = "await" /\ reply'[inbox'[i].tool] = "none"
  BY <1>1, <1>2, <1>3
<1> QED BY <1>2, <1>4, <1>5 DEF RP_Inbox

(* A step that is none of a writer. *)
LEMMA RP_StorageKept ==
    ASSUME RP_IInv, NEW t \in Tools, RP_Alone(t), proc'[t].pc \notin RP_Rewriting,
           UNCHANGED <<mode, store, tmp>>, overlap => overlap'
    PROVE  RP_Storage'
<1>1. \A u \in Tools : proc'[u].pc \in RP_Rewriting =>
        u # t /\ proc'[u].pc = proc[u].pc /\ proc'[u].list = proc[u].list /\ proc'[u].name = proc[u].name
  BY DEF RP_Alone, RP_Moved
<1> QED BY <1>1 DEF RP_IInv, RP_Storage

LEMMA RP_ToldKept ==
    ASSUME RP_IInv, NEW t \in Tools, RP_Alone(t), nodes \subseteq nodes', overlap => overlap',
           RP_SetTold(proc'[t], effect'[t], reply'[t]), RP_DeleteTold(proc[t], effect[t])'
    PROVE  RP_Told'
<1>1. ASSUME NEW u \in Tools, u # t
      PROVE  RP_SetTold(proc'[u], effect'[u], reply'[u]) /\ RP_DeleteTold(proc[u], effect[u])'
  <2>1. RP_SetTold(proc[u], effect[u], reply[u]) /\ RP_DeleteTold(proc[u], effect[u])
    BY DEF RP_IInv, RP_Told
  <2>2. RP_Moved(proc[u], proc'[u]) /\ reply'[u] = reply[u] /\ effect'[u] = effect[u]
    BY <1>1 DEF RP_Alone
  <2>3. RP_SetTold(proc'[u], effect'[u], reply'[u])
    BY <2>1, <2>2 DEF RP_Moved, RP_SetTold, RP_Lost
  <2>4. RP_DeleteTold(proc[u], effect[u])'
    BY <2>1, <2>2 DEF RP_Moved, RP_DeleteTold
  <2> QED BY <2>3, <2>4
<1> QED BY <1>1 DEF RP_Told, RP_SetTold, RP_Lost

(* The steps that change only processes, what one has done and its connection. *)
LEMMA RP_QuietAlone ==
    ASSUME WellFormed, RP_IInv, NEW t \in Tools, RP_Alone(t),
           UNCHANGED <<props, nodes, mode, store, tmp, overlap>>,
           NEW q, proc'[t] = q, NEW e, effect'[t] = e, NEW r, reply'[t] = r,
           (inbox' = inbox /\ proc[t].pc # "await") \/ inbox' = Abandoned(t),
           RP_Good(q), r \in {"none", "success", "error", "closed"}, e \subseteq {"deleted", "set", "unstored"},
           q.pc \notin RP_Rewriting, q.pi = "live" => props[q.name] # Absent,
           RP_SetTold(q, e, r), RP_DeleteTold(q, e)
    PROVE  RP_IInv'
<1>1. /\ props \in Contents /\ nodes \subseteq Names /\ (\A n \in Names : props[n] # Absent => n \in nodes)
      /\ overlap \in BOOLEAN
      /\ store = Damaged \/ store \in Contents
      /\ tmp \in {NoFile, Damaged} \/ tmp \in Contents
  BY DEF RP_IInv, RP_Types
<1>2. RP_Types'
  BY <1>1, RP_TypesKept
<1>3. RP_Live'
  BY RP_LiveKept
<1>4. RP_Inbox'
  BY RP_InboxKept
<1>5. RP_Storage'
  BY RP_StorageKept
<1>6. RP_DeleteTold(proc[t], effect[t])'
  BY DEF RP_DeleteTold
<1>7. RP_Told'
  BY <1>6, RP_ToldKept
<1> QED BY <1>2, <1>3, <1>4, <1>5, <1>7 DEF RP_IInv

LEMMA RP_Quiet ==
    ASSUME WellFormed, RP_IInv, NEW t \in Tools, NEW q, proc' = [proc EXCEPT ![t] = q],
           UNCHANGED <<props, nodes, mode, store, tmp, overlap>>,
           NEW e, effect' = [effect EXCEPT ![t] = e] \/ (effect' = effect /\ e = effect[t]),
           NEW r, reply' = [reply EXCEPT ![t] = r] \/ (reply' = reply /\ r = reply[t]),
           (inbox' = inbox /\ proc[t].pc # "await") \/ inbox' = Abandoned(t),
           RP_Good(q), r \in {"none", "success", "error", "closed"}, e \subseteq {"deleted", "set", "unstored"},
           q.pc \notin RP_Rewriting, q.pi = "live" => props[q.name] # Absent,
           RP_SetTold(q, e, r), RP_DeleteTold(q, e)
    PROVE  RP_IInv'
<1>1. RP_Alone(t) /\ proc'[t] = q /\ effect'[t] = e /\ reply'[t] = r
  BY RP_ProcOnly, ZenonT(40)
<1> QED BY <1>1, RP_QuietAlone

(* What the invariant says of one process. *)
LEMMA RP_Process ==
    ASSUME RP_IInv, NEW t \in Tools
    PROVE  /\ RP_Good(proc[t]) /\ proc[t] \in Process
           /\ reply[t] \in {"none", "success", "error", "closed"} /\ effect[t] \subseteq {"deleted", "set", "unstored"}
           /\ proc[t].pi = "live" => proc[t].name \in Names /\ props[proc[t].name] # Absent
           /\ RP_SetTold(proc[t], effect[t], reply[t]) /\ RP_DeleteTold(proc[t], effect[t])
           /\ props \in Contents
BY DEF RP_IInv, RP_Types, RP_Live, RP_Told, RP_Good

(* A command ends, or a file goes on with its next line. *)
LEMMA RP_ReturnKeeps ==
    ASSUME WellFormed, RP_IInv, NEW t \in Tools, NEW p \in Process, NEW r \in 0 .. 1,
           proc' = [proc EXCEPT ![t] = Returned(p, r)],
           UNCHANGED <<props, nodes, mode, store, tmp, overlap, effect>>,
           NEW s, reply' = [reply EXCEPT ![t] = s] \/ (reply' = reply /\ s = reply[t]),
           s \in {"none", "success", "error", "closed"},
           (inbox' = inbox /\ proc[t].pc # "await") \/ inbox' = Abandoned(t),
           p.pi = "live" => p.name \in Names /\ props[p.name] # Absent,
           p.op # "delete",
           p.op = "set" /\ p.name \in Names =>
              (p.ver = 2 => (r = 0 <=> "set" \in effect[t])) /\ (r # 0 => effect[t] \subseteq RP_Lost(p))
    PROVE  RP_IInv'
<1>1. PICK q : q = Returned(p, r)
  OBVIOUS
<1>2. /\ RP_Good(q) /\ q.op = p.op /\ q.pc \in {"ended", "find", "skip"}
      /\ q.pi = Absent \/ (q.pi = p.pi /\ q.name = p.name)
      /\ p.op # "file" => /\ q.pc = "ended" /\ q.ret = r /\ q.name = p.name /\ q.ver = p.ver
                          /\ q.trigger = p.trigger
  BY <1>1, RP_Returned
<1>3. q.pi = "live" => props[q.name] # Absent
  BY <1>2 DEF Absent
<1>4. RP_SetTold(q, effect[t], s)
  BY <1>2 DEF RP_SetTold, RP_Lost
<1>5. RP_DeleteTold(q, effect[t])
  BY <1>2 DEF RP_DeleteTold
<1>6. q.pc \notin RP_Rewriting
  BY <1>2 DEF RP_Rewriting
<1>7. proc' = [proc EXCEPT ![t] = q]
  BY <1>1
<1>8. effect[t] \subseteq {"deleted", "set", "unstored"}
  BY RP_Process
<1> QED BY <1>2, <1>3, <1>4, <1>5, <1>6, <1>7, <1>8, RP_Quiet

LEMMA RP_StartKeeps ==
    ASSUME WellFormed, RP_IInv, NEW t \in Tools, Start(t)
    PROVE  RP_IInv'
<1>1. PICK argv \in CommandLines :
        /\ proc[t].pc = "idle" /\ proc' = [proc EXCEPT ![t] = Entry(Main(argv))]
        /\ effect' = [effect EXCEPT ![t] = {}]
        /\ UNCHANGED <<props, nodes, mode, store, tmp, inbox, reply, overlap>>
  BY DEF Start
<1>2. PICK q : q = Entry(Main(argv))
  OBVIOUS
<1>3. /\ RP_Good(q) /\ q.pi = Absent /\ q.pc \notin RP_Setting \cup RP_Rewriting
      /\ q.op = "set" => /\ q.pc = "find" => q.ver = 0
                         /\ q.pc = "ended" => q.name \notin Names
      /\ q.op = "delete" => /\ q.pc = "del" => ~(q.persist /\ q.name \in PersistNames)
                            /\ q.pc = "ended" => q.name \notin Names
  BY <1>2, RP_Entry
<1>4. RP_SetTold(q, {}, reply[t])
  BY <1>3 DEF RP_SetTold, RP_Setting
<1>5. RP_DeleteTold(q, {})
  BY <1>3 DEF RP_DeleteTold
<1>6. proc' = [proc EXCEPT ![t] = q]
  BY <1>1, <1>2
<1>7. q.pi = "live" => props[q.name] # Absent
  BY <1>3 DEF Absent
<1>8. reply[t] \in {"none", "success", "error", "closed"}
  BY RP_Process
<1> QED BY <1>1, <1>3, <1>4, <1>5, <1>6, <1>7, <1>8, RP_Quiet

LEMMA RP_EndKeeps ==
    ASSUME WellFormed, RP_IInv, NEW t \in Tools, Exit(t) \/ Kill(t)
    PROVE  RP_IInv'
<1>1. /\ proc' = [proc EXCEPT ![t] = Idle] /\ reply' = [reply EXCEPT ![t] = "none"]
      /\ (inbox' = inbox /\ proc[t].pc # "await") \/ inbox' = Abandoned(t)
      /\ UNCHANGED <<props, nodes, mode, store, tmp, overlap, effect>>
  BY DEF Exit, Kill
<1>2. PICK q : q = Idle
  OBVIOUS
<1>3. RP_Good(q) /\ q.pc = "idle" /\ q.pi = Absent /\ q.op = "none"
  BY <1>2, RP_IdleGood
<1>4. RP_SetTold(q, effect[t], "none") /\ RP_DeleteTold(q, effect[t])
  BY <1>3 DEF RP_SetTold, RP_DeleteTold
<1>5. effect[t] \subseteq {"deleted", "set", "unstored"}
  BY RP_Process
<1>6. q.pc \notin RP_Rewriting /\ (q.pi = "live" => props[q.name] # Absent)
  BY <1>3 DEF RP_Rewriting, Absent
<1>7. proc' = [proc EXCEPT ![t] = q]
  BY <1>1, <1>2
<1> QED BY <1>1, <1>3, <1>4, <1>5, <1>6, <1>7, RP_Quiet

LEMMA RP_SkipKeeps ==
    ASSUME WellFormed, RP_IInv, NEW t \in Tools, SkipLine(t)
    PROVE  RP_IInv'
<1>1. /\ proc[t] \in Process /\ proc[t].op = "file" /\ proc[t].pc = "skip"
      /\ proc[t].pi = "live" => proc[t].name \in Names /\ props[proc[t].name] # Absent
      /\ reply[t] \in {"none", "success", "error", "closed"}
  BY RP_Process DEF SkipLine, RP_Good
<1>2. /\ proc' = [proc EXCEPT ![t] = Returned(proc[t], 1)]
      /\ UNCHANGED <<props, nodes, mode, store, tmp, inbox, reply, effect, overlap>>
  BY DEF SkipLine
<1>3. PICK s, r : s = reply[t] /\ r = 1
  OBVIOUS
<1>4. r \in 0 .. 1 /\ proc' = [proc EXCEPT ![t] = Returned(proc[t], r)]
  BY <1>2, <1>3
<1> QED BY <1>1, <1>2, <1>3, <1>4, RP_ReturnKeeps

LEMMA RP_FindKeeps ==
    ASSUME WellFormed, RP_IInv, NEW t \in Tools, SetFind(t)
    PROVE  RP_IInv'
<1>1. PICK p, next, pi :
        /\ p = proc[t]
        /\ next = IF p.trigger THEN IF Find(p.name) /\ p.name \in ReadOnly THEN "remove" ELSE "connect"
                  ELSE IF Find(p.name) THEN "update" ELSE "add"
        /\ pi = IF Find(p.name) THEN "live" ELSE Absent
  OBVIOUS
<1>2. /\ p.pc = "find" /\ p.op \in {"set", "file"} /\ proc' = [proc EXCEPT ![t].pc = next, ![t].pi = pi]
      /\ effect' = [effect EXCEPT ![t] = {}]
      /\ UNCHANGED <<props, nodes, mode, store, tmp, inbox, reply, overlap>>
  BY <1>1 DEF SetFind
<1>3. /\ p \in Process /\ RP_Good(p) /\ RP_SetTold(p, effect[t], reply[t])
      /\ reply[t] \in {"none", "success", "error", "closed"}
  BY <1>1, RP_Process
<1>4. PICK q : q = [p EXCEPT !.pc = next, !.pi = pi]
  OBVIOUS
<1>5. next \in {"remove", "connect", "update", "add"} /\ pi \in {"live", Absent}
  BY <1>1
<1>6. q \in Process
  BY <1>3, <1>4, <1>5 DEF Process
<1>7. /\ q.pc = next /\ q.pi = pi /\ q.op = p.op /\ q.name = p.name /\ q.value = p.value /\ q.ver = p.ver
      /\ (q.trigger <=> p.trigger)
  BY <1>3, <1>4 DEF Process
<1>8. proc' = [proc EXCEPT ![t] = q]
  BY <1>1, <1>2, <1>4 DEF RP_IInv, RP_Types
<1>9. p.name \in Names /\ p.value \in Values
  BY <1>2, <1>3 DEF RP_Good
<1>10. RP_Good(q) /\ q.pc \notin RP_Rewriting
  BY <1>2, <1>5, <1>6, <1>7, <1>9 DEF RP_Good, RP_Setting, RP_Deleting, RP_Rewriting
<1>11. q.pi = "live" => props[q.name] # Absent
  BY <1>1, <1>7 DEF Find, Absent
<1>12. p.op = "set" => p.ver = 0
  BY <1>2, <1>3 DEF RP_SetTold
<1>13. RP_SetTold(q, {}, reply[t])
  BY <1>1, <1>5, <1>7, <1>12 DEF RP_SetTold
<1>14. RP_DeleteTold(q, {})
  BY <1>2, <1>7 DEF RP_DeleteTold
<1> QED BY <1>1, <1>2, <1>3, <1>8, <1>10, <1>11, <1>13, <1>14, RP_Quiet

LEMMA RP_ConnectKeeps ==
    ASSUME WellFormed, RP_IInv, NEW t \in Tools, Connect(t)
    PROVE  RP_IInv'
<1>1. PICK p, ver : ver = detect_protocol_version(proc[t]) /\ p = [proc[t] EXCEPT !.ver = ver]
  OBVIOUS
<1>2. /\ p.pc = "connect"
      /\ proc' = [proc EXCEPT ![t] = [p EXCEPT !.pc = "send"]] \/ proc' = [proc EXCEPT ![t] = Returned(p, 1)]
      /\ UNCHANGED <<props, nodes, mode, store, tmp, inbox, reply, effect, overlap>>
  BY <1>1, Zenon DEF Connect
<1>3. /\ proc[t] \in Process /\ RP_Good(proc[t]) /\ RP_SetTold(proc[t], effect[t], reply[t])
      /\ reply[t] \in {"none", "success", "error", "closed"} /\ effect[t] \subseteq {"deleted", "set", "unstored"}
      /\ proc[t].pi = "live" => proc[t].name \in Names /\ props[proc[t].name] # Absent
  BY RP_Process
<1>4. ver \in 0 .. 2
  BY <1>1, <1>3 DEF detect_protocol_version, Process
<1>5. p \in Process
  BY <1>1, <1>3, <1>4 DEF Process
<1>6. /\ p.pc = proc[t].pc /\ p.pi = proc[t].pi /\ p.op = proc[t].op /\ p.name = proc[t].name
      /\ p.value = proc[t].value /\ (p.trigger <=> proc[t].trigger)
  BY <1>1, <1>3 DEF Process
<1>7. p.name \in Names /\ p.value \in Values /\ p.op \in {"set", "file"}
  BY <1>2, <1>3, <1>6 DEF RP_Good, RP_Setting
<1>8. p.op = "set" => effect[t] \subseteq RP_Lost(p) /\ "set" \notin effect[t]
  BY <1>2, <1>3, <1>6 DEF RP_SetTold, RP_Lost
<1>9. p.pi = "live" => p.name \in Names /\ props[p.name] # Absent
  BY <1>3, <1>6
<1>10. CASE proc' = [proc EXCEPT ![t] = Returned(p, 1)]
  <2>1. PICK s, r : s = reply[t] /\ r = 1
    OBVIOUS
  <2>2. r \in 0 .. 1 /\ proc' = [proc EXCEPT ![t] = Returned(p, r)]
    BY <1>10, <2>1
  <2>3. p.op = "set" /\ p.name \in Names =>
          (p.ver = 2 => (r = 0 <=> "set" \in effect[t])) /\ (r # 0 => effect[t] \subseteq RP_Lost(p))
    BY <1>8, <2>1
  <2>4. /\ p.op # "delete" /\ inbox' = inbox /\ proc[t].pc # "await"
        /\ UNCHANGED <<props, nodes, mode, store, tmp, overlap, effect>>
        /\ reply' = reply /\ s = reply[t] /\ s \in {"none", "success", "error", "closed"}
    BY <1>2, <1>3, <1>6, <1>7, <2>1
  <2> QED BY <1>5, <1>9, <2>2, <2>3, <2>4, RP_ReturnKeeps
<1>11. CASE proc' = [proc EXCEPT ![t] = [p EXCEPT !.pc = "send"]]
  <2>1. PICK q : q = [p EXCEPT !.pc = "send"]
    OBVIOUS
  <2>2. q \in Process
    BY <1>5, <2>1 DEF Process
  <2>3. /\ q.pc = "send" /\ q.pi = p.pi /\ q.op = p.op /\ q.name = p.name /\ q.value = p.value
        /\ (q.trigger <=> p.trigger)
    BY <1>5, <2>1 DEF Process
  <2>4. RP_Good(q) /\ q.pc \notin RP_Rewriting
    BY <1>7, <2>2, <2>3 DEF RP_Good, RP_Setting, RP_Deleting, RP_Rewriting
  <2>5. RP_SetTold(q, effect[t], reply[t])
    BY <1>8, <2>3 DEF RP_SetTold, RP_Lost
  <2>6. RP_DeleteTold(q, effect[t])
    BY <1>7, <2>3 DEF RP_DeleteTold
  <2> QED BY <1>2, <1>3, <1>6, <1>9, <1>11, <2>1, <2>3, <2>4, <2>5, <2>6, RP_Quiet, ZenonT(40)
<1> QED BY <1>2, <1>10, <1>11

LEMMA RP_AwaitKeeps ==
    ASSUME WellFormed, RP_IInv, NEW t \in Tools, Await(t)
    PROVE  RP_IInv'
<1>1. PICK p, r : p = proc[t] /\ r = IF p.ver = 2 THEN RecvResult(t) ELSE 0
  OBVIOUS
<1>2. /\ p.pc = "await" /\ proc' = [proc EXCEPT ![t] = Returned(p, r)]
      /\ inbox' = Abandoned(t) /\ reply' = [reply EXCEPT ![t] = "none"]
      /\ UNCHANGED <<props, nodes, mode, store, tmp, effect, overlap>>
  BY <1>1 DEF Await
<1>3. /\ p \in Process /\ RP_Good(p) /\ RP_SetTold(p, effect[t], reply[t])
      /\ p.pi = "live" => p.name \in Names /\ props[p.name] # Absent
  BY <1>1, RP_Process
<1>4. p.op \in {"set", "file"}
  BY <1>2, <1>3 DEF RP_Good, RP_Setting
<1>5. p.op = "set" => effect[t] \subseteq RP_Lost(p) \cup {"set"} /\ ("set" \in effect[t] <=> reply[t] = "success")
  BY <1>2, <1>3 DEF RP_SetTold
<1>6. /\ r \in 0 .. 1
      /\ p.op = "set" => (p.ver = 2 => (r = 0 <=> "set" \in effect[t])) /\ (r # 0 => effect[t] \subseteq RP_Lost(p))
  BY <1>1, <1>5 DEF RecvResult
<1> QED BY <1>2, <1>3, <1>4, <1>6, RP_ReturnKeeps

(* What getprop2() and print_props() read. *)
LEMMA RP_Stored ==
    ASSUME WellFormed, RP_IInv, NEW n \in Names
    PROVE  persist_getprop(n) \in Values \cup {Absent}
BY RP_Facts DEF persist_getprop, RP_IInv, RP_Types, Contents

(* The end of getprop2() and print_props(): only what was read is kept. *)
LEMMA RP_ReadKeeps ==
    ASSUME WellFormed, RP_IInv, NEW t \in Tools, NEW p \in Process, NEW r \in 0 .. 1,
           proc' = [proc EXCEPT ![t] = Returned(p, r)],
           UNCHANGED <<props, nodes, mode, store, tmp, inbox, reply, overlap, effect>>,
           proc[t].pc # "await", p.op \in {"get", "list"}, p.pi = proc[t].pi, p.name = proc[t].name
    PROVE  RP_IInv'
<1>1. PICK s : s = reply[t]
  OBVIOUS
<1>2. /\ s \in {"none", "success", "error", "closed"}
      /\ p.pi = "live" => p.name \in Names /\ props[p.name] # Absent
  BY <1>1, RP_Process
<1>3. p.op # "delete" /\ p.op # "set"
  OBVIOUS
<1> QED BY <1>1, <1>2, <1>3, RP_ReturnKeeps

LEMMA RP_GetFindKeeps ==
    ASSUME WellFormed, RP_IInv, NEW t \in Tools, GetFind(t)
    PROVE  RP_IInv'
<1>1. PICK p : p = proc[t]
  OBVIOUS
<1>2. /\ p.pc = "find" /\ p.op = "get"
      /\ UNCHANGED <<props, nodes, mode, store, tmp, inbox, reply, effect, overlap>>
      /\ proc' = [proc EXCEPT ![t] =
            IF Find(p.name)
            THEN IF p.name \in ReadOnly THEN [p EXCEPT !.pc = "callback", !.pi = "live"]
                 ELSE Returned([p EXCEPT !.value = props[p.name]], 0)
            ELSE IF p.persist /\ p.name \in PersistNames THEN [p EXCEPT !.pc = "stored"] ELSE Returned(p, 1)]
  BY <1>1 DEF GetFind
<1>3. /\ p \in Process /\ RP_Good(p) /\ props \in Contents
      /\ reply[t] \in {"none", "success", "error", "closed"} /\ effect[t] \subseteq {"deleted", "set", "unstored"}
      /\ p.pi = "live" => props[p.name] # Absent
  BY <1>1, RP_Process
<1>4. p.name \in Names
  BY <1>2, <1>3 DEF RP_Good
<1>5. CASE Find(p.name) /\ p.name \notin ReadOnly
  <2>1. PICK q, r : q = [p EXCEPT !.value = props[p.name]] /\ r = 0
    OBVIOUS
  <2>2. q \in Process /\ q.op = "get" /\ q.pi = p.pi /\ q.name = p.name
    BY <1>2, <1>3, <1>4, <2>1 DEF Process, Contents
  <2>3. proc' = [proc EXCEPT ![t] = Returned(q, r)] /\ r \in 0 .. 1
    BY <1>2, <1>5, <2>1
  <2> QED BY <1>1, <1>2, <2>2, <2>3, RP_ReadKeeps
<1>6. CASE ~Find(p.name) /\ ~(p.persist /\ p.name \in PersistNames)
  <2>1. PICK r : r = 1
    OBVIOUS
  <2>2. proc' = [proc EXCEPT ![t] = Returned(p, r)] /\ r \in 0 .. 1
    <3>1. PICK b : b = (p.persist /\ p.name \in PersistNames)
      OBVIOUS
    <3>2. proc' = [proc EXCEPT ![t] =
              IF Find(p.name)
              THEN IF p.name \in ReadOnly THEN [p EXCEPT !.pc = "callback", !.pi = "live"]
                   ELSE Returned([p EXCEPT !.value = props[p.name]], 0)
              ELSE IF b THEN [p EXCEPT !.pc = "stored"] ELSE Returned(p, 1)]
      BY <1>2, <3>1, Zenon
    <3>3. ~b
      BY <1>6, <3>1
    <3> QED BY <1>6, <2>1, <3>2, <3>3
  <2> QED BY <1>1, <1>2, <1>3, <2>2, RP_ReadKeeps, ZenonT(40)
<1>7. ASSUME NEW q, q \in Process, q.op = "get", q.pc \in {"callback", "stored"}, q.name = p.name,
             q.pc = "callback" => q.name \in ReadOnly, proc' = [proc EXCEPT ![t] = q],
             q.pi = "live" => props[q.name] # Absent
      PROVE  RP_IInv'
  <2>1. RP_Good(q) /\ q.pc \notin RP_Rewriting
    BY <1>4, <1>7 DEF RP_Good, RP_Setting, RP_Deleting, RP_Rewriting
  <2>2. RP_SetTold(q, effect[t], reply[t]) /\ RP_DeleteTold(q, effect[t])
    BY <1>7 DEF RP_SetTold, RP_DeleteTold
  <2> QED BY <1>1, <1>2, <1>3, <1>7, <2>1, <2>2, RP_Quiet
<1>8. CASE Find(p.name) /\ p.name \in ReadOnly
  <2>1. PICK q : q = [p EXCEPT !.pc = "callback", !.pi = "live"]
    OBVIOUS
  <2>2. q \in Process /\ q.op = "get" /\ q.pi = "live" /\ q.name = p.name /\ q.pc = "callback"
    BY <1>2, <1>3, <2>1 DEF Process
  <2>3. proc' = [proc EXCEPT ![t] = q] /\ props[q.name] # Absent
    BY <1>2, <1>8, <2>1, <2>2 DEF Find
  <2> QED BY <1>7, <1>8, <2>2, <2>3
<1>9. CASE ~Find(p.name) /\ p.persist /\ p.name \in PersistNames
  <2>1. PICK q : q = [p EXCEPT !.pc = "stored"]
    OBVIOUS
  <2>2. q \in Process /\ q.op = "get" /\ q.pi = p.pi /\ q.name = p.name /\ q.pc = "stored"
    BY <1>2, <1>3, <2>1 DEF Process
  <2>3. proc' = [proc EXCEPT ![t] = q]
    BY <1>2, <1>9, <2>1
  <2> QED BY <1>3, <1>7, <2>2, <2>3
<1> QED BY <1>5, <1>6, <1>8, <1>9

LEMMA RP_GetKeeps ==
    ASSUME WellFormed, RP_IInv, NEW t \in Tools, GetCallback(t) \/ GetStored(t) \/ List(t)
    PROVE  RP_IInv'
<1>1. proc[t] \in Process /\ RP_Good(proc[t]) /\ props \in Contents
  BY RP_Process
<1>2. CASE GetCallback(t)
  <2>1. PICK p, v, r : /\ v = IF proc[t].pi = "live" THEN props[proc[t].name] ELSE proc[t].old
                       /\ p = [proc[t] EXCEPT !.value = v] /\ r = 0
    OBVIOUS
  <2>2. /\ proc' = [proc EXCEPT ![t] = Returned(p, r)] /\ proc[t].pc = "callback" /\ r \in 0 .. 1
        /\ UNCHANGED <<props, nodes, mode, store, tmp, inbox, reply, effect, overlap>>
    BY <1>2, <2>1 DEF GetCallback
  <2>3. proc[t].name \in Names /\ proc[t].op = "get"
    BY <1>1, <2>2 DEF RP_Good
  <2>4. v \in Values \cup {Absent}
    BY <1>1, <2>1, <2>3 DEF Process, Contents
  <2>5. p \in Process /\ p.op = "get" /\ p.pi = proc[t].pi /\ p.name = proc[t].name
    BY <1>1, <2>1, <2>3, <2>4 DEF Process
  <2> QED BY <2>2, <2>5, RP_ReadKeeps
<1>3. CASE GetStored(t)
  <2>1. PICK p, v, r : /\ v = persist_getprop(proc[t].name)
                       /\ p = [proc[t] EXCEPT !.value = v] /\ r = IF v = Absent THEN 1 ELSE 0
    OBVIOUS
  <2>2. /\ proc' = [proc EXCEPT ![t] = Returned(p, r)] /\ proc[t].pc = "stored" /\ r \in 0 .. 1
        /\ UNCHANGED <<props, nodes, mode, store, tmp, inbox, reply, effect, overlap>>
    BY <1>3, <2>1 DEF GetStored
  <2>3. proc[t].name \in Names /\ proc[t].op = "get"
    BY <1>1, <2>2 DEF RP_Good
  <2>4. v \in Values \cup {Absent}
    BY <2>1, <2>3, RP_Stored
  <2>5. p \in Process /\ p.op = "get" /\ p.pi = proc[t].pi /\ p.name = proc[t].name
    BY <1>1, <2>1, <2>3, <2>4 DEF Process
  <2> QED BY <2>2, <2>5, RP_ReadKeeps
<1>4. CASE List(t)
  <2>1. PICK p, l, r : l = Listed(proc[t]) /\ p = [proc[t] EXCEPT !.list = l] /\ r = 0
    OBVIOUS
  <2>2. /\ proc' = [proc EXCEPT ![t] = Returned(p, r)] /\ proc[t].pc = "list" /\ r \in 0 .. 1
        /\ UNCHANGED <<props, nodes, mode, store, tmp, inbox, reply, effect, overlap>>
    BY <1>4, <2>1 DEF List
  <2>3. l \in Contents
    BY <1>1, <2>1, RP_Stored DEF Listed, Contents
  <2>4. p \in Process /\ p.op = proc[t].op /\ p.pi = proc[t].pi /\ p.name = proc[t].name
    BY <1>1, <2>1, <2>3 DEF Process
  <2>5. proc[t].op = "list"
    BY <1>1, <2>2 DEF RP_Good
  <2> QED BY <2>2, <2>4, <2>5, RP_ReadKeeps
<1> QED BY <1>2, <1>3, <1>4

(* Delete(): who pointed to the property has an orphan. *)
LEMMA RP_Deletes ==
    ASSUME RP_IInv, NEW t \in Tools, NEW p, p.name \in Names, Delete(t, p), reply' = reply
    PROVE  /\ RP_Alone(t) /\ proc'[t] = p /\ reply'[t] = reply[t]
           /\ effect'[t] = effect[t] \cup (IF Find(p.name) THEN {"deleted"} ELSE {})
           /\ props' \in Contents /\ props'[p.name] = Absent /\ \A n \in Names \ {p.name} : props'[n] = props[n]
           /\ \A u \in Tools \ {t} : proc'[u].pi = "live" => proc'[u].name # p.name
           /\ \A u \in Tools \ {t} : IF proc[u].name = p.name /\ proc[u].pi = "live"
                                     THEN proc'[u].pi = "orphan" /\ proc'[u].old = props[p.name]
                                     ELSE proc'[u] = proc[u]
<1>1. /\ DOMAIN proc = Tools /\ DOMAIN reply = Tools /\ DOMAIN effect = Tools /\ props \in Contents
      /\ \A u \in Tools : proc[u] \in Process
  BY DEF RP_IInv, RP_Types, RP_Good
<1>2. PICK v, ps : v = props[p.name] /\ ps = Repoint(proc, p.name, v)
  OBVIOUS
<1>3. v \in Values \cup {Absent}
  BY <1>1, <1>2 DEF Contents
<1>4. /\ props' = [props EXCEPT ![p.name] = Absent] /\ proc' = [ps EXCEPT ![t] = p]
      /\ effect' = [effect EXCEPT ![t] = effect[t] \cup (IF Find(p.name) THEN {"deleted"} ELSE {})]
  BY <1>2 DEF Delete
<1>5. /\ DOMAIN ps = Tools
      /\ \A u \in Tools : ps[u] = IF proc[u].name = p.name /\ proc[u].pi = "live"
                                  THEN [proc[u] EXCEPT !.pi = "orphan", !.old = v] ELSE proc[u]
  BY <1>2 DEF Repoint
<1>6. ASSUME NEW u \in Tools
      PROVE  /\ RP_Moved(proc[u], ps[u])
             /\ ps[u].pi = "live" => ps[u].name # p.name
             /\ IF proc[u].name = p.name /\ proc[u].pi = "live" THEN ps[u].pi = "orphan" /\ ps[u].old = v
                ELSE ps[u] = proc[u]
  <2>1. CASE proc[u].name = p.name /\ proc[u].pi = "live"
    <3>1. ps[u] = [proc[u] EXCEPT !.pi = "orphan", !.old = v] /\ proc[u] \in Process
      BY <1>1, <1>5, <2>1
    <3>2. PICK a, b : a = proc[u] /\ b = ps[u]
      OBVIOUS
    <3>3. b = [a EXCEPT !.pi = "orphan", !.old = v] /\ a \in Process
      BY <3>1, <3>2
    <3>4. b \in Process /\ b.pi = "orphan" /\ b.old = v
      BY <1>3, <3>3 DEF Process
    <3>5. /\ b.pc = a.pc /\ b.op = a.op /\ b.name = a.name /\ b.value = a.value /\ (b.trigger <=> a.trigger)
          /\ (b.persist <=> a.persist) /\ b.ver = a.ver /\ b.list = a.list /\ b.ret = a.ret
      BY <3>3 DEF Process
    <3> QED BY <2>1, <3>2, <3>4, <3>5 DEF RP_Moved
  <2>2. CASE ~(proc[u].name = p.name /\ proc[u].pi = "live")
    BY <1>1, <1>5, <2>2, RP_MovedSelf
  <2> QED BY <2>1, <2>2
<1>7. /\ DOMAIN proc' = Tools /\ DOMAIN reply' = Tools /\ DOMAIN effect' = Tools
      /\ proc'[t] = p /\ \A u \in Tools \ {t} : proc'[u] = ps[u] /\ effect'[u] = effect[u]
      /\ effect'[t] = effect[t] \cup (IF Find(p.name) THEN {"deleted"} ELSE {})
  BY <1>1, <1>4, <1>5
<1>8. RP_Alone(t)
  BY <1>6, <1>7 DEF RP_Alone
<1>9. /\ props' \in Contents /\ props'[p.name] = Absent
      /\ \A n \in Names \ {p.name} : props'[n] = props[n]
  BY <1>1, <1>4 DEF Contents
<1> QED BY <1>2, <1>6, <1>7, <1>8, <1>9

(* A step that deletes the property of the command. *)
LEMMA RP_DeleteKeeps ==
    ASSUME WellFormed, RP_IInv, NEW t \in Tools, NEW p, p.name \in Names, RP_Good(p), Delete(t, p),
           p.pi # "live", p.pc \notin RP_Rewriting, proc[t].pc # "await",
           UNCHANGED <<nodes, mode, store, tmp, inbox, reply, overlap>>,
           NEW e, e = effect[t] \cup (IF Find(p.name) THEN {"deleted"} ELSE {}),
           RP_SetTold(p, e, reply[t]), RP_DeleteTold(p, e)
    PROVE  RP_IInv'
<1>1. /\ RP_Alone(t) /\ proc'[t] = p /\ reply'[t] = reply[t] /\ effect'[t] = e
      /\ props' \in Contents /\ props'[p.name] = Absent /\ \A n \in Names \ {p.name} : props'[n] = props[n]
      /\ \A u \in Tools \ {t} : proc'[u].pi = "live" => proc'[u].name # p.name
  BY RP_Deletes
<1>2. /\ nodes \subseteq Names /\ (\A n \in Names : props[n] # Absent => n \in nodes) /\ overlap \in BOOLEAN
      /\ store = Damaged \/ store \in Contents
      /\ tmp \in {NoFile, Damaged} \/ tmp \in Contents
      /\ reply[t] \in {"none", "success", "error", "closed"} /\ effect[t] \subseteq {"deleted", "set", "unstored"}
  BY DEF RP_IInv, RP_Types
<1>3. \A n \in Names : props'[n] # Absent => n \in nodes'
  BY <1>1, <1>2
<1>4. e \subseteq {"deleted", "set", "unstored"}
  BY <1>2
<1>5. RP_Types'
  BY <1>1, <1>2, <1>3, <1>4, RP_TypesKept
<1>6. \A u \in Tools \ {t} : proc'[u].pi = "live" /\ props[proc[u].name] # Absent
                             => props'[proc[u].name] # Absent
  <2>1. ASSUME NEW u \in Tools \ {t}, proc'[u].pi = "live"
        PROVE  proc[u].name \in Names \ {p.name}
    <3>1. RP_Moved(proc[u], proc'[u])
      BY <1>1 DEF RP_Alone
    <3>2. proc[u].pi = "live" /\ proc[u].name = proc'[u].name
      BY <2>1, <3>1 DEF RP_Moved
    <3> QED BY <1>1, <2>1, <3>2, RP_Process
  <2> QED BY <1>1, <2>1
<1>7. RP_Live'
  BY <1>1, <1>6, RP_LiveKept
<1>8. RP_Inbox'
  BY <1>1, RP_InboxKept
<1>9. RP_Storage'
  BY <1>1, RP_StorageKept
<1>10. RP_DeleteTold(proc[t], effect[t])'
  BY <1>1 DEF RP_DeleteTold
<1>11. RP_Told'
  BY <1>1, <1>10, RP_ToldKept
<1> QED BY <1>5, <1>7, <1>8, <1>9, <1>11 DEF RP_IInv

LEMMA RP_RemoveKeeps ==
    ASSUME WellFormed, RP_IInv, NEW t \in Tools, SetRemove(t)
    PROVE  RP_IInv'
<1>1. PICK p, q, e : /\ p = proc[t] /\ q = [p EXCEPT !.pc = "connect", !.pi = Absent]
                     /\ e = effect[t] \cup (IF Find(q.name) THEN {"deleted"} ELSE {})
  OBVIOUS
<1>2. /\ p.pc = "remove" /\ Delete(t, q)
      /\ UNCHANGED <<nodes, mode, store, tmp, inbox, reply, overlap>>
  BY <1>1 DEF SetRemove
<1>3. p \in Process /\ RP_Good(p) /\ RP_SetTold(p, effect[t], reply[t])
  BY <1>1, RP_Process
<1>4. q \in Process
  <2>1. q = [p EXCEPT !.pc = "connect", !.pi = Absent]
    BY <1>1
  <2> QED BY <1>3, <2>1 DEF Process
<1>5. /\ q.pc = "connect" /\ q.pi = Absent /\ q.op = p.op /\ q.name = p.name /\ q.value = p.value
      /\ q.ver = p.ver /\ (q.trigger <=> p.trigger)
  BY <1>1, <1>3 DEF Process
<1>6. p.name \in Names /\ p.value \in Values /\ p.op \in {"set", "file"}
  BY <1>2, <1>3 DEF RP_Good, RP_Setting
<1>7. RP_Good(q) /\ q.pc \notin RP_Rewriting /\ q.pi # "live"
  BY <1>4, <1>5, <1>6 DEF RP_Good, RP_Setting, RP_Deleting, RP_Rewriting, Absent
<1>8. p.op = "set" => p.ver = 0 /\ effect[t] = {} /\ p.trigger /\ p.name \in ReadOnly
  BY <1>2, <1>3 DEF RP_SetTold
<1>9. RP_SetTold(q, e, reply[t])
  BY <1>1, <1>5, <1>8 DEF RP_SetTold, RP_Lost
<1>10. RP_DeleteTold(q, e)
  BY <1>5, <1>6 DEF RP_DeleteTold
<1> QED BY <1>1, <1>2, <1>5, <1>6, <1>7, <1>9, <1>10, RP_DeleteKeeps

LEMMA RP_DelKeeps ==
    ASSUME WellFormed, RP_IInv, NEW t \in Tools, Del(t)
    PROVE  RP_IInv'
<1>1. PICK p, r, q, e : /\ p = proc[t] /\ r = DeleteResult(p) /\ q = Returned(p, r)
                        /\ e = effect[t] \cup (IF Find(q.name) THEN {"deleted"} ELSE {})
  OBVIOUS
<1>2. /\ p.pc = "del" /\ Delete(t, q)
      /\ UNCHANGED <<nodes, mode, store, tmp, inbox, reply, overlap>>
  BY <1>1 DEF Del
<1>3. p \in Process /\ RP_Good(p) /\ RP_DeleteTold(p, effect[t])
  BY <1>1, RP_Process
<1>4. p.name \in Names /\ p.op = "delete" /\ p.pi = Absent
  BY <1>2, <1>3 DEF RP_Good, RP_Deleting
<1>5. r \in 0 .. 1 /\ (p.pi = "live" => p.name \in Names)
  BY <1>1, <1>4 DEF DeleteResult
<1>6. /\ RP_Good(q) /\ q.op = "delete" /\ q.pc = "ended" /\ q.ret = r /\ q.name = p.name
      /\ q.pi = Absent
  BY <1>1, <1>3, <1>4, <1>5, RP_Returned
<1>7. q.pc \notin RP_Rewriting /\ q.pi # "live"
  BY <1>6 DEF RP_Rewriting, Absent
<1>8. RP_SetTold(q, e, reply[t])
  BY <1>6 DEF RP_SetTold
<1>9. Find(p.name) => p.name \in nodes
  BY <1>4 DEF Find, RP_IInv, RP_Types
<1>10. IF p.persist /\ p.name \in PersistNames THEN overlap \/ effect[t] # {} ELSE effect[t] = {}
  BY <1>2, <1>3, <1>4 DEF RP_DeleteTold
<1>11. ~overlap => IF r = 0 THEN e # {} \/ p.name \in nodes ELSE e = {}
  <2>1. CASE p.persist /\ p.name \in PersistNames
    BY <1>1, <1>10, <2>1 DEF DeleteResult
  <2>2. CASE ~(p.persist /\ p.name \in PersistNames)
    BY <1>1, <1>6, <1>9, <1>10, <2>2 DEF DeleteResult
  <2> QED BY <2>1, <2>2
<1>12. RP_DeleteTold(q, e)
  BY <1>6, <1>11 DEF RP_DeleteTold, RP_Rewriting
<1> QED BY <1>1, <1>2, <1>4, <1>6, <1>7, <1>8, <1>12, RP_DeleteKeeps

(* A step that gives the property of the command its value. *)
LEMMA RP_PutKeeps ==
    ASSUME WellFormed, RP_IInv, NEW t \in Tools, RP_Alone(t), NEW n \in Names, NEW v \in Values,
           props' = [props EXCEPT ![n] = v], nodes' \subseteq Names, nodes \subseteq nodes', n \in nodes',
           RP_Good(proc'[t]), proc'[t].pi = "live" => proc[t].pi = "live" /\ proc'[t].name = proc[t].name,
           effect'[t] \subseteq {"deleted", "set", "unstored"}, reply'[t] \in {"none", "success", "error", "closed"},
           proc'[t].pc \notin RP_Rewriting, UNCHANGED <<mode, store, tmp, overlap>>,
           RP_SetTold(proc'[t], effect'[t], reply'[t]), RP_DeleteTold(proc[t], effect[t])',
           RP_Inbox'
    PROVE  RP_IInv'
<1>1. /\ props' \in Contents /\ props'[n] = v /\ \A m \in Names \ {n} : props'[m] = props[m]
  BY DEF RP_IInv, RP_Types, Contents
<1>2. /\ \A m \in Names : props[m] # Absent => m \in nodes
      /\ overlap \in BOOLEAN /\ (store = Damaged \/ store \in Contents)
      /\ tmp \in {NoFile, Damaged} \/ tmp \in Contents
  BY DEF RP_IInv, RP_Types
<1>3. \A m \in Names : props'[m] # Absent => m \in nodes'
  BY <1>1, <1>2
<1>4. RP_Types'
  BY <1>1, <1>2, <1>3, RP_TypesKept
<1>5. \A m \in Names : props[m] # Absent => props'[m] # Absent
  BY <1>1, RP_Facts
<1>6. RP_Live'
  <2>1. proc'[t].pi = "live" => props'[proc'[t].name] # Absent
    BY <1>5, RP_Process
  <2>2. \A u \in Tools \ {t} : proc'[u].pi = "live" => proc[u].pi = "live"
    BY DEF RP_Alone, RP_Moved
  <2>3. \A u \in Tools \ {t} : proc'[u].pi = "live" /\ props[proc[u].name] # Absent
                               => props'[proc[u].name] # Absent
    BY <1>5, <2>2, RP_Process
  <2> QED BY <2>1, <2>3, RP_LiveKept
<1>7. RP_Storage'
  BY RP_StorageKept
<1>8. RP_Told'
  BY RP_ToldKept
<1> QED BY <1>4, <1>6, <1>7, <1>8 DEF RP_IInv

(* The end of a set without init: what the return says of the effect. *)
LEMMA RP_SetEnds ==
    ASSUME WellFormed, NEW p, p \in Process, RP_Good(p), p.pc \in {"update", "add"},
           NEW r \in 0 .. 1, NEW q, q = Returned(p, r), NEW e, NEW a, RP_SetTold(p, {}, a),
           p.op = "set" => r = 0 \/ e = {}
    PROVE  /\ RP_Good(q) /\ q.pc \notin RP_Rewriting
           /\ q.pi = "live" => p.pi = "live" /\ q.name = p.name
           /\ RP_SetTold(q, e, a) /\ q.op # "delete"
<1>1. p.op \in {"set", "file"} /\ p.name \in Names
  BY DEF RP_Good, RP_Setting
<1>2. /\ RP_Good(q) /\ q.op = p.op /\ q.pc \in {"ended", "find", "skip"}
      /\ q.pi = Absent \/ (q.pi = p.pi /\ q.name = p.name)
      /\ p.op # "file" => /\ q.pc = "ended" /\ q.ret = r /\ q.name = p.name /\ q.ver = p.ver
  BY <1>1, RP_Returned
<1>3. p.op = "set" => p.ver = 0
  BY DEF RP_SetTold
<1>4. RP_SetTold(q, e, a)
  BY <1>1, <1>2, <1>3 DEF RP_SetTold
<1> QED BY <1>1, <1>2, <1>4 DEF RP_Rewriting, Absent

LEMMA RP_AddKeeps ==
    ASSUME WellFormed, RP_IInv, NEW t \in Tools, SetAdd(t)
    PROVE  RP_IInv'
<1> DEFINE p == proc[t]
           fits == p.value \in LongValues => p.name \in ReadOnly
           adds(full) == fits /\ ~full /\ ~Find(p.name)
           code(full) == IF fits /\ (~full \/ Find(p.name)) THEN 0 ELSE 1
<1>0. PICK full \in BOOLEAN :
        /\ p.pc = "add"
        /\ props' = IF adds(full) THEN [props EXCEPT ![p.name] = p.value] ELSE props
        /\ nodes' = IF adds(full) THEN nodes \cup {p.name} ELSE nodes
        /\ effect' = IF adds(full) THEN [effect EXCEPT ![t] = {"set"}] ELSE effect
        /\ proc' = [proc EXCEPT ![t] = Returned(p, code(full))]
        /\ UNCHANGED <<mode, store, tmp, inbox, reply, overlap>>
  BY DEF SetAdd
<1>1. PICK r, q : r = code(full) /\ q = Returned(p, r)
  OBVIOUS
<1>2. /\ p \in Process /\ RP_Good(p) /\ RP_SetTold(p, effect[t], reply[t])
      /\ p.pi = "live" => props[p.name] # Absent
      /\ reply[t] \in {"none", "success", "error", "closed"} /\ effect[t] \subseteq {"deleted", "set", "unstored"}
  BY RP_Process
<1>3. p.name \in Names /\ p.value \in Values
  BY <1>0, <1>2 DEF RP_Good, RP_Setting
<1>4. r \in 0 .. 1 /\ (adds(full) => r = 0) /\ p.pc \in {"update", "add"} /\ p.pc = "add"
  BY <1>0, <1>1
<1> HIDE DEF adds, code
<1>5. RP_SetTold(p, {}, reply[t]) /\ (p.op = "set" => effect[t] = {})
  BY <1>2, <1>4 DEF RP_SetTold
<1>6. CASE adds(full)
  <2>1. PICK e : e = {"set"}
    OBVIOUS
  <2>2. /\ RP_Good(q) /\ q.pc \notin RP_Rewriting
        /\ q.pi = "live" => p.pi = "live" /\ q.name = p.name
        /\ RP_SetTold(q, e, reply[t]) /\ q.op # "delete"
    BY <1>1, <1>2, <1>4, <1>5, <1>6, RP_SetEnds
  <2>3. effect' = [effect EXCEPT ![t] = e] /\ reply' = reply /\ proc' = [proc EXCEPT ![t] = q]
    BY <1>0, <1>1, <1>6, <2>1
  <2>4. RP_Alone(t) /\ proc'[t] = q /\ effect'[t] = e /\ reply'[t] = reply[t]
    BY <2>3, RP_ProcOnly
  <2>5. RP_Inbox'
    BY <1>0, <2>4, RP_InboxKept
  <2>6. RP_DeleteTold(proc[t], effect[t])'
    BY <2>2, <2>4 DEF RP_DeleteTold
  <2>7. /\ props' = [props EXCEPT ![p.name] = p.value] /\ nodes' \subseteq Names /\ nodes \subseteq nodes'
        /\ p.name \in nodes' /\ UNCHANGED <<mode, store, tmp, overlap>>
    BY <1>0, <1>3, <1>6 DEF RP_IInv, RP_Types
  <2>8. proc'[t].pi = "live" => proc[t].pi = "live" /\ proc'[t].name = proc[t].name
    BY <1>1, <2>2, <2>4
  <2>9. e \subseteq {"deleted", "set", "unstored"}
    BY <2>1
  <2> QED BY <1>2, <1>3, <2>2, <2>4, <2>5, <2>6, <2>7, <2>8, <2>9, RP_PutKeeps
<1>7. CASE ~adds(full)
  <2>1. PICK e : e = effect[t]
    OBVIOUS
  <2>2. /\ RP_Good(q) /\ q.pc \notin RP_Rewriting
        /\ q.pi = "live" => p.pi = "live" /\ q.name = p.name
        /\ RP_SetTold(q, e, reply[t]) /\ q.op # "delete"
    BY <1>1, <1>2, <1>4, <1>5, <2>1, RP_SetEnds
  <2>3. RP_DeleteTold(q, e)
    BY <2>2 DEF RP_DeleteTold
  <2>4. /\ effect' = effect /\ reply' = reply /\ proc' = [proc EXCEPT ![t] = q] /\ inbox' = inbox
        /\ UNCHANGED <<props, nodes, mode, store, tmp, overlap>> /\ proc[t].pc # "await"
    BY <1>0, <1>1, <1>7
  <2>5. q.pi = "live" => props[q.name] # Absent
    BY <1>2, <2>2
  <2> QED BY <1>2, <2>1, <2>2, <2>3, <2>4, <2>5, RP_Quiet
<1> QED BY <1>6, <1>7

LEMMA RP_UpdateKeeps ==
    ASSUME WellFormed, RP_IInv, NEW t \in Tools, SetUpdate(t)
    PROVE  RP_IInv'
<1> DEFINE p == proc[t]
           fits == p.value \notin LongValues
<1>1. PICK ps \in {proc, Overwritten(p)} :
        /\ p.pc = "update"
        /\ IF fits /\ p.pi = "live"
           THEN props' = [props EXCEPT ![p.name] = p.value] /\ effect' = [effect EXCEPT ![t] = {"set"}]
           ELSE UNCHANGED <<props, effect>>
        /\ proc' = [(IF fits THEN ps ELSE proc) EXCEPT ![t] = Returned(p, IF fits THEN 0 ELSE 1)]
        /\ UNCHANGED <<nodes, mode, store, tmp, inbox, reply, overlap>>
  BY DEF SetUpdate
<1>2. PICK r, q, others : /\ r = IF fits THEN 0 ELSE 1
                          /\ q = Returned(p, r) /\ others = IF fits THEN ps ELSE proc
  OBVIOUS
<1>3. /\ p \in Process /\ RP_Good(p) /\ RP_SetTold(p, effect[t], reply[t])
      /\ p.pi = "live" => props[p.name] # Absent
      /\ reply[t] \in {"none", "success", "error", "closed"} /\ effect[t] \subseteq {"deleted", "set", "unstored"}
  BY RP_Process
<1>4. p.name \in Names /\ p.value \in Values
  BY <1>1, <1>3 DEF RP_Good, RP_Setting
<1>5. r \in 0 .. 1 /\ p.pc \in {"update", "add"} /\ proc' = [others EXCEPT ![t] = q]
  BY <1>1, <1>2
<1>6. RP_SetTold(p, {}, reply[t]) /\ (p.op = "set" => effect[t] = {})
  BY <1>1, <1>3 DEF RP_SetTold
<1>7. DOMAIN others = Tools /\ \A u \in Tools : RP_Moved(proc[u], others[u])
  <2>1. DOMAIN proc = Tools /\ \A u \in Tools : proc[u] \in Process /\ RP_Moved(proc[u], proc[u])
    BY RP_MovedSelf DEF RP_IInv, RP_Types, RP_Good
  <2>2. CASE others = Overwritten(p)
    <3>1. /\ DOMAIN others = Tools
          /\ \A u \in Tools : others[u] = IF p.pi = "orphan" /\ proc[u].name = p.name /\ proc[u].pi = "orphan"
                                          THEN [proc[u] EXCEPT !.old = p.value] ELSE proc[u]
      BY <2>2 DEF Overwritten
    <3>2. ASSUME NEW u \in Tools PROVE RP_Moved(proc[u], others[u])
      <4>1. PICK a, b, v : a = proc[u] /\ b = others[u] /\ v = p.value
        OBVIOUS
      <4>2. a \in Process /\ v \in Values /\ (b = a \/ b = [a EXCEPT !.old = v])
        BY <1>4, <2>1, <3>1, <4>1
      <4>3. CASE b = [a EXCEPT !.old = v]
        <5>1. b \in Process /\ b.pi = a.pi
          BY <4>2, <4>3 DEF Process
        <5>2. /\ b.pc = a.pc /\ b.op = a.op /\ b.name = a.name /\ b.value = a.value /\ (b.trigger <=> a.trigger)
              /\ (b.persist <=> a.persist) /\ b.ver = a.ver /\ b.list = a.list /\ b.ret = a.ret
          BY <4>2, <4>3 DEF Process
        <5> QED BY <4>1, <5>1, <5>2 DEF RP_Moved
      <4>4. CASE b = a
        BY <2>1, <4>1, <4>4
      <4> QED BY <4>2, <4>3, <4>4
    <3> QED BY <3>1, <3>2
  <2>3. others = proc \/ others = Overwritten(p)
    BY <1>1, <1>2
  <2> QED BY <2>1, <2>2, <2>3
<1>8. PICK e : e = IF fits /\ p.pi = "live" THEN {"set"} ELSE effect[t]
  OBVIOUS
<1>9. e \subseteq {"deleted", "set", "unstored"} /\ (p.op = "set" => r = 0 \/ e = {})
  BY <1>2, <1>3, <1>6, <1>8
<1>10. /\ RP_Good(q) /\ q.pc \notin RP_Rewriting
       /\ q.pi = "live" => p.pi = "live" /\ q.name = p.name
       /\ RP_SetTold(q, e, reply[t]) /\ q.op # "delete"
  BY <1>2, <1>3, <1>5, <1>6, <1>9, RP_SetEnds
<1>11. RP_Alone(t) /\ proc'[t] = q /\ effect'[t] = e /\ reply'[t] = reply[t]
  <2>1. DOMAIN effect = Tools /\ DOMAIN reply = Tools
    BY DEF RP_IInv, RP_Types
  <2>2. /\ DOMAIN effect' = Tools /\ effect'[t] = e /\ \A u \in Tools \ {t} : effect'[u] = effect[u]
        /\ reply' = reply
    BY <1>1, <1>8, <2>1
  <2>3. DOMAIN proc' = Tools /\ proc'[t] = q /\ \A u \in Tools \ {t} : proc'[u] = others[u]
    BY <1>5, <1>7
  <2> QED BY <1>7, <2>1, <2>2, <2>3 DEF RP_Alone
<1>12. CASE fits /\ p.pi = "live"
  <2>1. props' = [props EXCEPT ![p.name] = p.value] /\ UNCHANGED <<nodes, mode, store, tmp, inbox, overlap>>
    BY <1>1, <1>12
  <2>2. RP_Inbox'
    BY <1>1, <1>11, RP_InboxKept
  <2>3. RP_DeleteTold(proc[t], effect[t])'
    BY <1>10, <1>11 DEF RP_DeleteTold
  <2>4. nodes \subseteq Names /\ p.name \in nodes
    BY <1>3, <1>4, <1>12 DEF RP_IInv, RP_Types
  <2>5. proc'[t].pi = "live" => proc[t].pi = "live" /\ proc'[t].name = proc[t].name
    BY <1>10, <1>11
  <2> QED BY <1>3, <1>4, <1>9, <1>10, <1>11, <2>1, <2>2, <2>3, <2>4, <2>5, RP_PutKeeps
<1>13. CASE ~(fits /\ p.pi = "live")
  <2>1. UNCHANGED <<props, nodes, mode, store, tmp, inbox, overlap>> /\ proc[t].pc # "await"
    BY <1>1, <1>13
  <2>2. RP_DeleteTold(q, e)
    BY <1>10 DEF RP_DeleteTold
  <2>3. q.pi = "live" => props[q.name] # Absent
    BY <1>3, <1>10
  <2> QED BY <1>3, <1>9, <1>10, <1>11, <2>1, <2>2, <2>3, RP_QuietAlone
<1> QED BY <1>12, <1>13

(* A command has sent its message. *)
LEMMA RP_InboxSent ==
    ASSUME RP_IInv, NEW t \in Tools, RP_Alone(t), proc[t].pc # "await", proc'[t].pc = "await", reply'[t] = "none",
           NEW m \in [tool : Tools \cup {"nobody"}, name : Names, value : Values], m.tool = t,
           inbox' = Append(inbox, m)
    PROVE  RP_Inbox'
<1> DEFINE M == [tool : Tools \cup {"nobody"}, name : Names, value : Values]
           n == Len(inbox)
<1>1. /\ inbox \in Seq(M)
      /\ \A i, j \in 1 .. n : i # j /\ inbox[i].tool \in Tools => inbox[i].tool # inbox[j].tool
      /\ \A i \in 1 .. n : inbox[i].tool \in Tools =>
           proc[inbox[i].tool].pc = "await" /\ reply[inbox[i].tool] = "none"
  BY DEF RP_IInv, RP_Inbox
<1> HIDE DEF M
<1>2. /\ inbox' \in Seq(M) /\ Len(inbox') = n + 1 /\ n \in Nat
      /\ \A i \in 1 .. n : inbox'[i] = inbox[i]
      /\ inbox'[n + 1] = m
  BY <1>1, AppendProperties, LenProperties DEF M
<1>3. \A i \in 1 .. n : inbox[i].tool # t
  BY <1>1
<1>4. \A u \in Tools \ {t} : proc'[u].pc = proc[u].pc /\ reply'[u] = reply[u]
  BY DEF RP_Alone, RP_Moved
<1>5. \A i \in 1 .. Len(inbox') : i \in 1 .. n \/ i = n + 1
  BY <1>2
<1> HIDE DEF n
<1>6. \A i, j \in 1 .. Len(inbox') : i # j /\ inbox'[i].tool \in Tools => inbox'[i].tool # inbox'[j].tool
  <2>1. ASSUME NEW i \in 1 .. Len(inbox'), NEW j \in 1 .. Len(inbox'), i # j, inbox'[i].tool \in Tools
        PROVE  inbox'[i].tool # inbox'[j].tool
    <3>1. CASE i \in 1 .. n /\ j \in 1 .. n
      BY <1>1, <1>2, <2>1, <3>1
    <3>2. CASE i = n + 1 /\ j \in 1 .. n
      BY <1>2, <1>3, <3>2
    <3>3. CASE i \in 1 .. n /\ j = n + 1
      BY <1>2, <1>3, <3>3
    <3> QED BY <1>5, <2>1, <3>1, <3>2, <3>3
  <2> QED BY <2>1
<1>7. \A i \in 1 .. Len(inbox') : inbox'[i].tool \in Tools =>
         proc'[inbox'[i].tool].pc = "await" /\ reply'[inbox'[i].tool] = "none"
  <2>1. ASSUME NEW i \in 1 .. Len(inbox'), inbox'[i].tool \in Tools
        PROVE  proc'[inbox'[i].tool].pc = "await" /\ reply'[inbox'[i].tool] = "none"
    <3>1. CASE i \in 1 .. n
      BY <1>1, <1>2, <1>3, <1>4, <2>1, <3>1
    <3>2. CASE i = n + 1
      BY <1>2, <3>2
    <3> QED BY <1>5, <3>1, <3>2
  <2> QED BY <2>1
<1> QED BY <1>2, <1>6, <1>7 DEF RP_Inbox, M

LEMMA RP_SendKeeps ==
    ASSUME WellFormed, RP_IInv, NEW t \in Tools, Send(t)
    PROVE  RP_IInv'
<1> DEFINE p == proc[t]
<1>1. PICK written \in BOOLEAN :
        /\ p.pc = "send" /\ reply' = [reply EXCEPT ![t] = "none"]
        /\ inbox' = IF written THEN Append(inbox, [tool |-> t, name |-> p.name, value |-> p.value]) ELSE inbox
        /\ proc' = [proc EXCEPT ![t] = IF written THEN [p EXCEPT !.pc = "await"] ELSE Returned(p, 1)]
        /\ UNCHANGED <<props, nodes, mode, store, tmp, effect, overlap>>
  BY DEF Send
<1>2. /\ p \in Process /\ RP_Good(p) /\ RP_SetTold(p, effect[t], reply[t])
      /\ p.pi = "live" => p.name \in Names /\ props[p.name] # Absent
      /\ effect[t] \subseteq {"deleted", "set", "unstored"}
  BY RP_Process
<1>3. p.name \in Names /\ p.value \in Values /\ p.op \in {"set", "file"}
  BY <1>1, <1>2 DEF RP_Good, RP_Setting
<1>4. p.op = "set" => effect[t] \subseteq RP_Lost(p) /\ "set" \notin effect[t]
  BY <1>1, <1>2 DEF RP_SetTold, RP_Lost
<1>5. CASE written
  <2>1. PICK q, m : q = [p EXCEPT !.pc = "await"] /\ m = [tool |-> t, name |-> p.name, value |-> p.value]
    OBVIOUS
  <2>2. /\ proc' = [proc EXCEPT ![t] = q] /\ inbox' = Append(inbox, m) /\ reply' = [reply EXCEPT ![t] = "none"]
        /\ UNCHANGED <<props, nodes, mode, store, tmp, effect, overlap>> /\ proc[t].pc # "await"
    BY <1>1, <1>5, <2>1
  <2>3. q \in Process
    BY <1>2, <2>1 DEF Process
  <2>4. /\ q.pc = "await" /\ q.pi = p.pi /\ q.op = p.op /\ q.name = p.name /\ q.value = p.value
        /\ (q.trigger <=> p.trigger)
    BY <1>2, <2>1 DEF Process
  <2>5. RP_Good(q) /\ q.pc \notin RP_Rewriting
    BY <1>3, <2>3, <2>4 DEF RP_Good, RP_Setting, RP_Deleting, RP_Rewriting
  <2>6. RP_Alone(t) /\ proc'[t] = q /\ effect'[t] = effect[t] /\ reply'[t] = "none"
    BY <2>2, RP_ProcOnly
  <2>7. m \in [tool : Tools \cup {"nobody"}, name : Names, value : Values] /\ m.tool = t
    BY <1>3, <2>1
  <2>8. RP_Inbox'
    BY <2>2, <2>4, <2>6, <2>7, RP_InboxSent
  <2>9. /\ props \in Contents /\ nodes \subseteq Names /\ (\A n \in Names : props[n] # Absent => n \in nodes)
        /\ overlap \in BOOLEAN /\ (store = Damaged \/ store \in Contents)
        /\ tmp \in {NoFile, Damaged} \/ tmp \in Contents
    BY DEF RP_IInv, RP_Types
  <2>10. RP_Types'
    BY <1>2, <2>2, <2>5, <2>6, <2>9, RP_TypesKept
  <2>11. RP_Live'
    BY <1>2, <2>2, <2>4, <2>6, RP_LiveKept
  <2>12. RP_Storage'
    BY <2>2, <2>5, <2>6, RP_StorageKept
  <2>13. RP_SetTold(q, effect[t], "none")
    BY <1>4, <2>4 DEF RP_SetTold, RP_Lost
  <2>14. RP_DeleteTold(proc[t], effect[t])'
    BY <1>3, <2>4, <2>6 DEF RP_DeleteTold
  <2>15. RP_Told'
    BY <2>2, <2>6, <2>13, <2>14, RP_ToldKept
  <2> QED BY <2>8, <2>10, <2>11, <2>12, <2>15 DEF RP_IInv
<1>6. CASE ~written
  <2>1. PICK s, r : s = "none" /\ r = 1
    OBVIOUS
  <2>2. /\ proc' = [proc EXCEPT ![t] = Returned(p, r)] /\ inbox' = inbox /\ reply' = [reply EXCEPT ![t] = s]
        /\ UNCHANGED <<props, nodes, mode, store, tmp, effect, overlap>> /\ proc[t].pc # "await"
        /\ r \in 0 .. 1 /\ s \in {"none", "success", "error", "closed"} /\ p.op # "delete"
    BY <1>1, <1>3, <1>6, <2>1
  <2>3. p.op = "set" /\ p.name \in Names =>
          (p.ver = 2 => (r = 0 <=> "set" \in effect[t])) /\ (r # 0 => effect[t] \subseteq RP_Lost(p))
    BY <1>4, <2>1
  <2> QED BY <1>2, <2>2, <2>3, RP_ReturnKeeps
<1> QED BY <1>5, <1>6

(* persist_deleteprop(): a step that leaves the area and the connections alone. *)
LEMMA RP_WriterKeeps ==
    ASSUME WellFormed, RP_IInv, NEW t \in Tools, NEW q, RP_Good(q), q.pc \in RP_Deleting,
           proc[t].pc # "await", proc' = [proc EXCEPT ![t] = q],
           NEW e, effect' = [effect EXCEPT ![t] = e] \/ (effect' = effect /\ e = effect[t]),
           e \subseteq {"deleted", "set", "unstored"},
           UNCHANGED <<props, nodes, mode, inbox, reply>>, overlap' \in BOOLEAN, overlap => overlap',
           store' = Damaged \/ store' \in Contents, tmp' \in {NoFile, Damaged} \/ tmp' \in Contents,
           RP_Storage', q.pc # "del" => e = {},
           q.pc = "del" => IF q.persist /\ q.name \in PersistNames THEN overlap' \/ e # {} ELSE e = {}
    PROVE  RP_IInv'
<1>0. PICK r : r = reply[t]
  OBVIOUS
<1>1. RP_Alone(t) /\ proc'[t] = q /\ effect'[t] = e /\ reply'[t] = r
  BY <1>0, RP_ProcOnly
<1>2. /\ props \in Contents /\ nodes \subseteq Names /\ (\A n \in Names : props[n] # Absent => n \in nodes)
      /\ reply[t] \in {"none", "success", "error", "closed"}
  BY DEF RP_IInv, RP_Types
<1>3. RP_Types'
  BY <1>0, <1>1, <1>2, RP_TypesKept
<1>4. q.op = "delete" /\ q.pi = Absent
  BY DEF RP_Good
<1>5. RP_Live'
  BY <1>1, <1>4, RP_LiveKept DEF Absent
<1>6. RP_Inbox'
  BY <1>1, RP_InboxKept
<1>7. RP_SetTold(q, e, r)
  BY <1>4 DEF RP_SetTold
<1>8. RP_DeleteTold(proc[t], effect[t])'
  BY <1>1, <1>4 DEF RP_DeleteTold, RP_Deleting, RP_Rewriting
<1>9. RP_Told'
  BY <1>1, <1>7, <1>8, RP_ToldKept
<1> QED BY <1>3, <1>5, <1>6, <1>9 DEF RP_IInv

(* The storage after a step of the only writer. *)
LEMMA RP_WriterStorage ==
    ASSUME RP_IInv, NEW t \in Tools, NEW q, proc' = [proc EXCEPT ![t] = q], mode' = mode,
           q.pc \in RP_Rewriting => mode = "file",
           ~overlap' => \A u \in Tools : proc[u].pc \in RP_Rewriting => u = t,
           ~overlap' /\ q.pc \in RP_Rewriting =>
             /\ store' \in Contents /\ q.list = [store' EXCEPT ![q.name] = Absent]
             /\ (q.pc = "encode" => tmp' = Damaged)
             /\ (q.pc = "rename" => tmp' = q.list)
    PROVE  RP_Storage'
<1>1. DOMAIN proc = Tools /\ proc'[t] = q /\ \A u \in Tools \ {t} : proc'[u] = proc[u]
  BY DEF RP_IInv, RP_Types
<1>2. \A u \in Tools : proc'[u].pc \in RP_Rewriting => mode' = "file"
  BY <1>1 DEF RP_IInv, RP_Storage
<1>3. ~overlap' => \A u \in Tools : proc'[u].pc \in RP_Rewriting => u = t
  BY <1>1
<1> QED BY <1>1, <1>2, <1>3 DEF RP_Storage

LEMMA RP_DecodeKeeps ==
    ASSUME WellFormed, RP_IInv, NEW t \in Tools, Decode(t)
    PROVE  RP_IInv'
<1> DEFINE p == proc[t]
           found == store # Damaged /\ store[p.name] # Absent
<1>1. /\ p.pc = "decode" /\ mode = "file"
      /\ proc' = [proc EXCEPT ![t] =
            IF found THEN [p EXCEPT !.pc = "creat", !.list = [store EXCEPT ![p.name] = Absent]]
            ELSE [p EXCEPT !.pc = "del", !.persist = FALSE]]
      /\ overlap' = (overlap \/ (found /\ Rewriters # {}))
      /\ UNCHANGED <<props, nodes, mode, store, tmp, inbox, reply, effect>>
  BY DEF Decode
<1>2. p \in Process /\ RP_Good(p) /\ RP_DeleteTold(p, effect[t])
  BY RP_Process
<1>3. p.name \in Names /\ p.op = "delete" /\ p.pi = Absent /\ p.persist /\ p.name \in PersistNames
  BY <1>1, <1>2 DEF RP_Good, RP_Deleting
<1>4. effect[t] = {}
  BY <1>1, <1>2, <1>3 DEF RP_DeleteTold
<1>5. /\ overlap \in BOOLEAN /\ (store = Damaged \/ store \in Contents)
      /\ tmp \in {NoFile, Damaged} \/ tmp \in Contents
  BY DEF RP_IInv, RP_Types
<1>6. overlap' \in BOOLEAN /\ (overlap => overlap')
  BY <1>1, <1>5
<1>7. CASE found
  <2>1. PICK q, l : l = [store EXCEPT ![p.name] = Absent] /\ q = [p EXCEPT !.pc = "creat", !.list = l]
    OBVIOUS
  <2>2. store \in Contents /\ l \in Contents
    BY <1>3, <1>5, <1>7, <2>1 DEF Contents
  <2>3. q \in Process
    BY <1>2, <2>1, <2>2, ZenonT(40) DEF Process
  <2>4. q.pc = "creat" /\ q.list = l /\ q.name = p.name /\ q.op = p.op /\ q.pi = p.pi /\ (q.persist <=> p.persist)
    BY <1>2, <2>1 DEF Process
  <2>5. RP_Good(q) /\ q.pc \in RP_Deleting
    BY <1>3, <2>2, <2>3, <2>4 DEF RP_Good, RP_Setting, RP_Deleting, RP_Rewriting, Absent
  <2>6. proc' = [proc EXCEPT ![t] = q]
    BY <1>1, <1>7, <2>1
  <2>7. ~overlap' => \A u \in Tools : proc[u].pc \in RP_Rewriting => u = t
    BY <1>1, <1>7 DEF Rewriters, RP_Rewriting
  <2>8. RP_Storage'
    <3>1. store' = store /\ mode' = mode /\ mode = "file"
      BY <1>1
    <3>2. store' \in Contents /\ q.list = [store' EXCEPT ![q.name] = Absent]
      BY <2>1, <2>2, <2>4, <3>1
    <3> QED BY <2>4, <2>6, <2>7, <3>1, <3>2, RP_WriterStorage
  <2> QED BY <1>1, <1>4, <1>5, <1>6, <2>4, <2>5, <2>6, <2>8, RP_WriterKeeps
<1>8. CASE ~found
  <2>1. PICK q : q = [p EXCEPT !.pc = "del", !.persist = FALSE]
    OBVIOUS
  <2>2. q \in Process
    BY <1>2, <2>1 DEF Process
  <2>3. q.pc = "del" /\ q.name = p.name /\ q.op = p.op /\ q.pi = p.pi /\ ~q.persist
    BY <1>2, <2>1 DEF Process
  <2>4. RP_Good(q) /\ q.pc \in RP_Deleting /\ q.pc \notin RP_Rewriting
    BY <1>3, <2>2, <2>3 DEF RP_Good, RP_Setting, RP_Deleting, RP_Rewriting, Absent
  <2>5. proc' = [proc EXCEPT ![t] = q]
    BY <1>1, <1>8, <2>1
  <2>6. RP_Alone(t) /\ proc'[t] = q
    BY <1>1, <2>5, RP_ProcOnly
  <2>7. RP_Storage'
    BY <1>1, <1>6, <2>4, <2>6, RP_StorageKept
  <2> QED BY <1>1, <1>4, <1>5, <1>6, <2>3, <2>4, <2>5, <2>7, RP_WriterKeeps
<1> QED BY <1>7, <1>8

(* What the invariant says of a process that rewrites the file. *)
LEMMA RP_Writer ==
    ASSUME RP_IInv, NEW t \in Tools, proc[t].pc \in RP_Rewriting
    PROVE  /\ proc[t] \in Process /\ proc[t].name \in Names /\ proc[t].op = "delete" /\ proc[t].pi = Absent
           /\ proc[t].persist /\ proc[t].name \in PersistNames /\ proc[t].list \in Contents
           /\ effect[t] = {} /\ mode = "file"
           /\ ~overlap => /\ store \in Contents
                          /\ proc[t].list = [store EXCEPT ![proc[t].name] = Absent]
                          /\ (proc[t].pc = "encode" => tmp = Damaged)
                          /\ (proc[t].pc = "rename" => tmp = proc[t].list)
                          /\ \A u \in Tools : proc[u].pc \in RP_Rewriting => u = t
<1>1. RP_Good(proc[t]) /\ RP_DeleteTold(proc[t], effect[t])
  BY RP_Process
<1>2. /\ proc[t] \in Process /\ proc[t].name \in Names /\ proc[t].op = "delete" /\ proc[t].pi = Absent
      /\ proc[t].persist /\ proc[t].name \in PersistNames /\ proc[t].list \in Contents
  BY <1>1 DEF RP_Good, RP_Deleting
<1>3. effect[t] = {}
  BY <1>1, <1>2 DEF RP_DeleteTold
<1> QED BY <1>2, <1>3 DEF RP_IInv, RP_Storage

(* The next step of a process that rewrites the file. *)
LEMMA RP_WriterGoesOn ==
    ASSUME NEW p \in Process, p.name \in Names, p.op = "delete", p.pi = Absent,
           p.persist, p.name \in PersistNames, p.list \in Contents,
           NEW c, c \in RP_Rewriting \cup {"del"}, NEW q, q = [p EXCEPT !.pc = c]
    PROVE  /\ RP_Good(q) /\ q.pc = c /\ q.pc \in RP_Deleting /\ q.name = p.name /\ q.list = p.list /\ q.persist
<1>1. q \in Process
  BY DEF Process, RP_Rewriting
<1>2. q.pc = c /\ q.name = p.name /\ q.op = p.op /\ q.pi = p.pi /\ (q.persist <=> p.persist) /\ q.list = p.list
  BY DEF Process
<1> QED BY <1>1, <1>2 DEF RP_Good, RP_Setting, RP_Deleting, RP_Rewriting, Absent

LEMMA RP_CreatKeeps ==
    ASSUME WellFormed, RP_IInv, NEW t \in Tools, Creat(t)
    PROVE  RP_IInv'
<1>1. PICK p, c, q : p = proc[t] /\ c = "encode" /\ q = [p EXCEPT !.pc = c]
  OBVIOUS
<1>2. /\ p.pc = "creat" /\ tmp' = Damaged /\ proc' = [proc EXCEPT ![t] = q]
      /\ UNCHANGED <<props, nodes, mode, store, inbox, reply, effect, overlap>>
  BY <1>1 DEF Creat, RP_IInv, RP_Types
<1>3. p.pc \in RP_Rewriting /\ c \in RP_Rewriting \cup {"del"}
  BY <1>1, <1>2 DEF RP_Rewriting
<1>4. /\ RP_Good(q) /\ q.pc = c /\ q.pc \in RP_Deleting /\ q.name = p.name /\ q.list = p.list /\ q.persist
  <2>1. /\ p \in Process /\ p.name \in Names /\ p.op = "delete" /\ p.pi = Absent
        /\ p.persist /\ p.name \in PersistNames /\ p.list \in Contents
    BY <1>1, <1>3, RP_Writer
  <2>2. q = [p EXCEPT !.pc = c]
    BY <1>1
  <2> QED BY <1>3, <2>1, <2>2, RP_WriterGoesOn
<1>5. /\ effect[t] = {} /\ mode = "file"
      /\ ~overlap => /\ store \in Contents /\ p.list = [store EXCEPT ![p.name] = Absent]
                     /\ \A u \in Tools : proc[u].pc \in RP_Rewriting => u = t
  BY <1>1, <1>3, RP_Writer
<1>6. RP_Storage'
  BY <1>1, <1>2, <1>4, <1>5, RP_WriterStorage
<1>7. overlap \in BOOLEAN /\ (store = Damaged \/ store \in Contents)
  BY DEF RP_IInv, RP_Types
<1> QED BY <1>1, <1>2, <1>4, <1>5, <1>6, <1>7, RP_WriterKeeps

LEMMA RP_EncodeKeeps ==
    ASSUME WellFormed, RP_IInv, NEW t \in Tools, Encode(t)
    PROVE  RP_IInv'
<1> DEFINE p == proc[t]
<1>1. PICK written \in BOOLEAN :
        /\ p.pc = "encode"
        /\ tmp' = IF written /\ tmp # NoFile THEN p.list ELSE tmp
        /\ proc' = [proc EXCEPT ![t] = IF written THEN [p EXCEPT !.pc = "rename"]
                                       ELSE [p EXCEPT !.pc = "del", !.persist = FALSE]]
        /\ UNCHANGED <<props, nodes, mode, store, inbox, reply, effect, overlap>>
  BY DEF Encode
<1>2. p.pc \in RP_Rewriting
  BY <1>1 DEF RP_Rewriting
<1>3. /\ p \in Process /\ p.name \in Names /\ p.op = "delete" /\ p.pi = Absent
      /\ p.persist /\ p.name \in PersistNames /\ p.list \in Contents
      /\ effect[t] = {} /\ mode = "file"
      /\ ~overlap => /\ store \in Contents /\ p.list = [store EXCEPT ![p.name] = Absent]
                     /\ tmp = Damaged
                     /\ \A u \in Tools : proc[u].pc \in RP_Rewriting => u = t
  BY <1>1, <1>2, RP_Writer
<1>4. /\ overlap \in BOOLEAN /\ (store = Damaged \/ store \in Contents)
      /\ tmp \in {NoFile, Damaged} \/ tmp \in Contents
  BY DEF RP_IInv, RP_Types
<1>5. tmp' \in {NoFile, Damaged} \/ tmp' \in Contents
  BY <1>1, <1>3, <1>4
<1>6. CASE written
  <2>1. PICK c, q : c = "rename" /\ q = [p EXCEPT !.pc = c]
    OBVIOUS
  <2>2. /\ proc' = [proc EXCEPT ![t] = q] /\ UNCHANGED <<props, nodes, mode, store, inbox, reply, effect, overlap>>
        /\ tmp' = IF tmp # NoFile THEN p.list ELSE tmp
    BY <1>1, <1>6, <2>1
  <2>3. c \in RP_Rewriting \cup {"del"}
    BY <2>1 DEF RP_Rewriting
  <2>4. /\ RP_Good(q) /\ q.pc = c /\ q.pc \in RP_Deleting /\ q.name = p.name /\ q.list = p.list /\ q.persist
    BY <1>3, <2>1, <2>3, RP_WriterGoesOn
  <2>5. ~overlap => tmp' = q.list
    BY <1>3, <2>2, <2>4, RP_Facts
  <2>6. RP_Storage'
    BY <1>3, <2>1, <2>2, <2>4, <2>5, RP_WriterStorage
  <2>7. PICK e : e = effect[t]
    OBVIOUS
  <2>8. e \subseteq {"deleted", "set", "unstored"} /\ e = {} /\ q.pc # "del" /\ proc[t].pc # "await"
    BY <1>1, <1>3, <2>1, <2>4, <2>7
  <2> QED BY <1>4, <1>5, <2>2, <2>4, <2>6, <2>7, <2>8, RP_WriterKeeps
<1>7. CASE ~written
  <2>1. PICK q : q = [p EXCEPT !.pc = "del", !.persist = FALSE]
    OBVIOUS
  <2>2. /\ proc' = [proc EXCEPT ![t] = q]
        /\ UNCHANGED <<props, nodes, mode, store, tmp, inbox, reply, effect, overlap>>
    BY <1>1, <1>7, <2>1
  <2>3. q \in Process
    <3>1. p \in Process
      BY <1>3
    <3> QED BY <2>1, <3>1 DEF Process
  <2>4. q.pc = "del" /\ q.name = p.name /\ q.op = p.op /\ q.pi = p.pi /\ ~q.persist
    <3>1. p \in Process
      BY <1>3
    <3> QED BY <2>1, <3>1 DEF Process
  <2>5. RP_Good(q) /\ q.pc \in RP_Deleting /\ q.pc \notin RP_Rewriting
    BY <1>3, <2>3, <2>4 DEF RP_Good, RP_Setting, RP_Deleting, RP_Rewriting, Absent
  <2>6. RP_Alone(t) /\ proc'[t] = q
    BY <2>2, RP_ProcOnly
  <2>7. RP_Storage'
    BY <2>2, <2>5, <2>6, RP_StorageKept
  <2>8. PICK e : e = effect[t]
    OBVIOUS
  <2>9. e \subseteq {"deleted", "set", "unstored"} /\ e = {} /\ proc[t].pc # "await"
    BY <1>1, <1>3, <2>8
  <2> QED BY <1>4, <2>2, <2>4, <2>5, <2>7, <2>8, <2>9, RP_WriterKeeps
<1> QED BY <1>6, <1>7

LEMMA RP_RenameKeeps ==
    ASSUME WellFormed, RP_IInv, NEW t \in Tools, Rename(t)
    PROVE  RP_IInv'
<1>1. PICK p, c, q, e : /\ p = proc[t] /\ c = "del" /\ q = [p EXCEPT !.pc = c]
                        /\ e = IF tmp = NoFile THEN effect[t] ELSE effect[t] \cup {"unstored"}
  OBVIOUS
<1>2. /\ p.pc = "rename" /\ store' = (IF tmp = NoFile THEN store ELSE tmp) /\ tmp' = NoFile
      /\ effect' = [effect EXCEPT ![t] = e] /\ proc' = [proc EXCEPT ![t] = q]
      /\ UNCHANGED <<props, nodes, mode, inbox, reply, overlap>>
  BY <1>1 DEF Rename, RP_IInv, RP_Types
<1>3. p.pc \in RP_Rewriting /\ c \in RP_Rewriting \cup {"del"} /\ c \notin RP_Rewriting
  BY <1>1, <1>2 DEF RP_Rewriting
<1>4. /\ RP_Good(q) /\ q.pc = c /\ q.pc \in RP_Deleting /\ q.name = p.name /\ q.list = p.list /\ q.persist
  <2>1. /\ p \in Process /\ p.name \in Names /\ p.op = "delete" /\ p.pi = Absent
        /\ p.persist /\ p.name \in PersistNames /\ p.list \in Contents
    BY <1>1, <1>3, RP_Writer
  <2>2. q = [p EXCEPT !.pc = c]
    BY <1>1
  <2> QED BY <1>3, <2>1, <2>2, RP_WriterGoesOn
<1>5. /\ effect[t] = {} /\ p.list \in Contents /\ p.name \in PersistNames
      /\ ~overlap => tmp = p.list /\ \A u \in Tools : proc[u].pc \in RP_Rewriting => u = t
  BY <1>1, <1>2, <1>3, RP_Writer
<1>6. /\ overlap \in BOOLEAN /\ (store = Damaged \/ store \in Contents)
      /\ tmp \in {NoFile, Damaged} \/ tmp \in Contents
  BY DEF RP_IInv, RP_Types
<1>7. /\ store' = Damaged \/ store' \in Contents
      /\ tmp' \in {NoFile, Damaged}
  BY <1>2, <1>6
<1>8. overlap \/ e # {}
  BY <1>1, <1>5, RP_Facts
<1>9. e \subseteq {"deleted", "set", "unstored"}
  BY <1>1, <1>5
<1>10. RP_Storage'
  BY <1>2, <1>3, <1>4, <1>5, RP_WriterStorage
<1>11. proc[t].pc # "await" /\ overlap' \in BOOLEAN /\ (overlap => overlap')
  BY <1>1, <1>2, <1>6
<1>12. /\ q.pc # "del" => e = {}
       /\ q.pc = "del" => IF q.persist /\ q.name \in PersistNames THEN overlap' \/ e # {} ELSE e = {}
  BY <1>1, <1>2, <1>4, <1>5, <1>8
<1> QED BY <1>2, <1>4, <1>7, <1>9, <1>10, <1>11, <1>12, RP_WriterKeeps

LEMMA RP_UnlinkKeeps ==
    ASSUME WellFormed, RP_IInv, NEW t \in Tools, Unlink(t)
    PROVE  RP_IInv'
<1> DEFINE found == store # Damaged /\ store[proc[t].name] # Absent
<1>1. PICK p, q, e : /\ p = proc[t] /\ q = [p EXCEPT !.pc = "del", !.persist = found]
                     /\ e = IF found THEN effect[t] \cup {"unstored"} ELSE effect[t]
  OBVIOUS
<1>2. /\ p.pc = "decode" /\ mode = "dir"
      /\ store' = IF found THEN [store EXCEPT ![p.name] = Absent] ELSE store
      /\ effect' = [effect EXCEPT ![t] = e] /\ proc' = [proc EXCEPT ![t] = q]
      /\ UNCHANGED <<props, nodes, mode, tmp, inbox, reply, overlap>>
  BY <1>1 DEF Unlink, RP_IInv, RP_Types
<1>3. p \in Process /\ RP_Good(p) /\ RP_DeleteTold(p, effect[t])
  BY <1>1, RP_Process
<1>4. p.name \in Names /\ p.op = "delete" /\ p.pi = Absent /\ p.name \in PersistNames
  BY <1>2, <1>3 DEF RP_Good, RP_Deleting
<1>5. effect[t] = {}
  BY <1>2, <1>3, <1>4 DEF RP_DeleteTold
<1>6. /\ overlap \in BOOLEAN /\ (store = Damaged \/ store \in Contents)
      /\ tmp \in {NoFile, Damaged} \/ tmp \in Contents
  BY DEF RP_IInv, RP_Types
<1>7. PICK f \in BOOLEAN : f = found
  OBVIOUS
<1>8. q = [p EXCEPT !.pc = "del", !.persist = f]
  BY <1>1, <1>7
<1>9. store' = Damaged \/ store' \in Contents
  BY <1>1, <1>2, <1>4, <1>6 DEF Contents
<1>10. e \subseteq {"deleted", "set", "unstored"} /\ (e # {} <=> f)
  BY <1>1, <1>5, <1>7
<1> HIDE DEF found
<1>11. q \in Process
  <2>1. p \in Process /\ f \in BOOLEAN
    BY <1>3, <1>7
  <2>2. PICK a : a = [p EXCEPT !.pc = "del"]
    OBVIOUS
  <2>3. a \in Process
    BY <2>1, <2>2 DEF Process
  <2>4. q = [a EXCEPT !.persist = f]
    BY <1>8, <2>2
  <2> QED BY <2>1, <2>3, <2>4 DEF Process
<1>12. q.pc = "del" /\ q.name = p.name /\ q.op = p.op /\ q.pi = p.pi /\ (q.persist <=> f)
  <2>1. DOMAIN p = DOMAIN q /\ q.persist = f
    BY <1>3, <1>8 DEF Process
  <2> QED BY <1>3, <1>8, <2>1 DEF Process
<1>13. RP_Good(q) /\ q.pc \in RP_Deleting /\ q.pc \notin RP_Rewriting
  BY <1>4, <1>11, <1>12 DEF RP_Good, RP_Setting, RP_Deleting, RP_Rewriting, Absent
<1>14. \A u \in Tools : proc[u].pc \notin RP_Rewriting
  BY <1>2 DEF RP_IInv, RP_Storage
<1>15. RP_Storage'
  BY <1>2, <1>13, <1>14, RP_WriterStorage
<1>16. proc[t].pc # "await" /\ overlap' \in BOOLEAN /\ (overlap => overlap')
  BY <1>1, <1>2, <1>6
<1>17. /\ q.pc # "del" => e = {}
       /\ q.pc = "del" => IF q.persist /\ q.name \in PersistNames THEN overlap' \/ e # {} ELSE e = {}
  BY <1>4, <1>10, <1>12
<1> QED BY <1>2, <1>6, <1>9, <1>10, <1>13, <1>15, <1>16, <1>17, RP_WriterKeeps

(* Init's property service takes the first connection. *)
LEMMA RP_ServiceKeeps ==
    ASSUME WellFormed, RP_IInv, ServiceHandle
    PROVE  RP_IInv'
<1> DEFINE M == [tool : Tools \cup {"nobody"}, name : Names, value : Values]
           m == Head(inbox)
           waits == m.tool \in Tools
           stores(answer) == answer = "success" /\ m.name \in PersistNames
<1>1. PICK answer \in {"success", "error", "closed"} :
        /\ inbox # <<>>
        /\ stores(answer) => store # Damaged
        /\ inbox' = Tail(inbox)
        /\ reply' = IF waits THEN [reply EXCEPT ![m.tool] = answer] ELSE reply
        /\ props' = IF answer = "success" THEN [props EXCEPT ![m.name] = m.value] ELSE props
        /\ nodes' = IF answer = "success" THEN nodes \cup {m.name} ELSE nodes
        /\ effect' = IF answer = "success" /\ waits
                     THEN [effect EXCEPT ![m.tool] = effect[m.tool] \cup {"set"}] ELSE effect
        /\ store' = IF stores(answer) THEN [store EXCEPT ![m.name] = m.value] ELSE store
        /\ tmp' = IF stores(answer) /\ mode = "file" THEN NoFile ELSE tmp
        /\ overlap' = (overlap \/ (stores(answer) /\ Rewriters # {}))
        /\ UNCHANGED <<mode, proc>>
  BY DEF ServiceHandle
<1>2. /\ inbox \in Seq(M)
      /\ \A i, j \in 1 .. Len(inbox) : i # j /\ inbox[i].tool \in Tools => inbox[i].tool # inbox[j].tool
      /\ \A i \in 1 .. Len(inbox) : inbox[i].tool \in Tools =>
           proc[inbox[i].tool].pc = "await" /\ reply[inbox[i].tool] = "none"
  BY DEF RP_IInv, RP_Inbox
<1>3. /\ m \in M /\ m = inbox[1] /\ Len(inbox) \in Nat /\ Len(inbox) > 0
      /\ inbox' \in Seq(M) /\ Len(inbox') = Len(inbox) - 1
      /\ \A i \in 1 .. Len(inbox') : inbox'[i] = inbox[i + 1]
  <2> HIDE DEF M
  <2>1. m \in M /\ inbox' \in Seq(M) /\ Len(inbox') = Len(inbox) - 1 /\ Len(inbox) \in Nat /\ Len(inbox) > 0
    BY <1>1, <1>2, HeadTailProperties, EmptySeq, LenProperties
  <2>2. m = inbox[1] /\ \A i \in 1 .. Len(inbox') : inbox'[i] = inbox[i + 1]
    BY <1>1, <1>2, HeadTailProperties
  <2> QED BY <2>1, <2>2
<1>4. m.name \in Names /\ m.value \in Values
  BY <1>3
<1>5. waits => proc[m.tool].pc = "await" /\ reply[m.tool] = "none"
  BY <1>2, <1>3
<1> HIDE DEF M, m, waits
<1>6. /\ DOMAIN proc = Tools /\ DOMAIN reply = Tools /\ DOMAIN effect = Tools
      /\ \A u \in Tools : /\ RP_Good(proc[u])
                          /\ reply[u] \in {"none", "success", "error", "closed"}
                          /\ effect[u] \subseteq {"deleted", "set", "unstored"}
      /\ props \in Contents /\ nodes \subseteq Names /\ (\A n \in Names : props[n] # Absent => n \in nodes)
      /\ overlap \in BOOLEAN /\ (store = Damaged \/ store \in Contents)
      /\ tmp \in {NoFile, Damaged} \/ tmp \in Contents
  BY DEF RP_IInv, RP_Types
<1>7. /\ DOMAIN reply' = Tools /\ DOMAIN effect' = Tools
      /\ \A u \in Tools : u # m.tool => reply'[u] = reply[u] /\ effect'[u] = effect[u]
      /\ waits => /\ reply'[m.tool] = answer
                  /\ effect'[m.tool] = IF answer = "success" THEN effect[m.tool] \cup {"set"} ELSE effect[m.tool]
  BY <1>1, <1>6 DEF waits
<1>8. \A u \in Tools : u = m.tool => waits
  BY DEF waits
<1>9. /\ props' \in Contents
      /\ \A n \in Names : props'[n] = props[n] \/ (n = m.name /\ props'[n] = m.value /\ n \in nodes')
  BY <1>1, <1>4, <1>6 DEF Contents
<1>10. nodes \subseteq nodes' /\ nodes' \subseteq Names /\ overlap' \in BOOLEAN /\ (overlap => overlap')
  BY <1>1, <1>4, <1>6
<1>11. /\ store' = Damaged \/ store' \in Contents
       /\ tmp' \in {NoFile, Damaged} \/ tmp' \in Contents
  BY <1>1, <1>4, <1>6 DEF Contents
<1>12. RP_Types'
  <2>1. \A u \in Tools : /\ RP_Good(proc'[u])
                         /\ reply'[u] \in {"none", "success", "error", "closed"}
                         /\ effect'[u] \subseteq {"deleted", "set", "unstored"}
    <3>1. ASSUME NEW u \in Tools PROVE RP_Good(proc'[u])
      BY <1>1, <1>6
    <3>2. ASSUME NEW u \in Tools PROVE /\ reply'[u] \in {"none", "success", "error", "closed"}
                                      /\ effect'[u] \subseteq {"deleted", "set", "unstored"}
      BY <1>6, <1>7, <1>8
    <3> QED BY <3>1, <3>2
  <2>2. \A n \in Names : props'[n] # Absent => n \in nodes'
    BY <1>6, <1>9, <1>10
  <2>3. RP_Types' <=>
          /\ DOMAIN proc' = Tools /\ DOMAIN reply' = Tools /\ DOMAIN effect' = Tools
          /\ \A u \in Tools : /\ RP_Good(proc'[u])
                              /\ reply'[u] \in {"none", "success", "error", "closed"}
                              /\ effect'[u] \subseteq {"deleted", "set", "unstored"}
          /\ props' \in Contents /\ nodes' \subseteq Names /\ (\A n \in Names : props'[n] # Absent => n \in nodes')
          /\ mode' \in {"file", "dir"} /\ overlap' \in BOOLEAN
          /\ store' = Damaged \/ store' \in Contents
          /\ tmp' \in {NoFile, Damaged} \/ tmp' \in Contents
    BY DEF RP_Types, RP_Good
  <2>4. mode' \in {"file", "dir"} /\ DOMAIN proc' = Tools
    BY <1>1 DEF RP_IInv, RP_Types
  <2> QED BY <1>7, <1>9, <1>10, <1>11, <2>1, <2>2, <2>3, <2>4
<1>13. RP_Live'
  <2>1. ASSUME NEW u \in Tools, proc[u].pi = "live" PROVE props'[proc[u].name] # Absent
    BY <1>4, <1>9, <2>1, RP_Process, RP_Facts
  <2> QED BY <1>1, <2>1 DEF RP_Live
<1>14. RP_Inbox'
  <2>1. \A i \in 1 .. Len(inbox') : i + 1 \in 1 .. Len(inbox) /\ i + 1 # 1
    BY <1>3
  <2>2. \A i, j \in 1 .. Len(inbox') : i # j /\ inbox'[i].tool \in Tools => inbox'[i].tool # inbox'[j].tool
    <3>1. ASSUME NEW i \in 1 .. Len(inbox'), NEW j \in 1 .. Len(inbox'), i # j, inbox'[i].tool \in Tools
          PROVE  inbox'[i].tool # inbox'[j].tool
      <4>1. PICK k, l : k = i + 1 /\ l = j + 1
        OBVIOUS
      <4>2. k \in 1 .. Len(inbox) /\ l \in 1 .. Len(inbox) /\ k # l
        BY <2>1, <3>1, <4>1
      <4>3. inbox'[i] = inbox[k] /\ inbox'[j] = inbox[l]
        BY <1>3, <4>1
      <4> QED BY <1>2, <3>1, <4>2, <4>3
    <3> QED BY <3>1
  <2>3. \A i \in 1 .. Len(inbox') : inbox'[i].tool \in Tools =>
           proc'[inbox'[i].tool].pc = "await" /\ reply'[inbox'[i].tool] = "none"
    <3>1. ASSUME NEW i \in 1 .. Len(inbox'), inbox'[i].tool \in Tools
          PROVE  proc'[inbox'[i].tool].pc = "await" /\ reply'[inbox'[i].tool] = "none"
      <4>1. PICK k, u : k = i + 1 /\ u = inbox'[i].tool
        OBVIOUS
      <4>2. k \in 1 .. Len(inbox) /\ 1 \in 1 .. Len(inbox) /\ k # 1 /\ inbox'[i] = inbox[k]
        BY <1>3, <2>1, <4>1, SMTT(30)
      <4>3. u \in Tools /\ u # m.tool /\ proc[u].pc = "await" /\ reply[u] = "none"
        BY <1>2, <1>3, <3>1, <4>1, <4>2
      <4> QED BY <1>1, <1>7, <4>1, <4>3
    <3> QED BY <3>1
  <2> QED BY <1>3, <2>2, <2>3 DEF RP_Inbox, M
<1>15. RP_Storage'
  <2>1. CASE stores(answer) /\ ~overlap'
    <3>1. \A u \in Tools : proc[u].pc \notin RP_Rewriting
      BY <1>1, <2>1 DEF Rewriters, RP_Rewriting
    <3> QED BY <1>1, <3>1 DEF RP_Storage
  <2>2. CASE ~stores(answer)
    <3>1. UNCHANGED <<store, tmp, mode, proc>>
      BY <1>1, <2>2
    <3> QED BY <1>10, <3>1 DEF RP_IInv, RP_Storage
  <2>3. CASE overlap'
    BY <1>1, <2>3 DEF RP_IInv, RP_Storage
  <2> QED BY <2>1, <2>2, <2>3
<1>16. RP_Told'
  <2>1. ASSUME NEW u \in Tools
        PROVE  RP_SetTold(proc[u], effect'[u], reply'[u]) /\ RP_DeleteTold(proc[u], effect[u])'
    <3>1. RP_SetTold(proc[u], effect[u], reply[u]) /\ RP_DeleteTold(proc[u], effect[u])
      BY RP_Process
    <3>2. CASE u # m.tool
      <4>1. reply'[u] = reply[u] /\ effect'[u] = effect[u] /\ proc'[u] = proc[u]
        BY <1>1, <1>7, <3>2
      <4> QED BY <1>10, <3>1, <4>1 DEF RP_DeleteTold
    <3>3. CASE u = m.tool
      <4>1. /\ proc[u].pc = "await" /\ reply[u] = "none" /\ reply'[u] = answer
            /\ effect'[u] = IF answer = "success" THEN effect[u] \cup {"set"} ELSE effect[u]
        BY <1>5, <1>7, <1>8, <3>3
      <4>2. proc[u].op \in {"set", "file"}
        BY <4>1, RP_Process DEF RP_Good, RP_Setting
      <4>3. RP_SetTold(proc[u], effect'[u], reply'[u])
        BY <3>1, <4>1 DEF RP_SetTold
      <4>4. RP_DeleteTold(proc[u], effect[u])'
        BY <1>1, <4>2 DEF RP_DeleteTold
      <4> QED BY <4>3, <4>4
    <3> QED BY <3>2, <3>3
  <2>2. \A u \in Tools : RP_SetTold(proc'[u], effect'[u], reply'[u])
    BY <1>1, <2>1
  <2> QED BY <2>1, <2>2 DEF RP_Told, RP_SetTold, RP_Lost
<1> QED BY <1>12, <1>13, <1>14, <1>15, <1>16 DEF RP_IInv

LEMMA RP_Init == ASSUME WellFormed PROVE Init => RP_IInv
<1> SUFFICES ASSUME Init PROVE RP_IInv
  OBVIOUS
<1>1. /\ props \in Contents /\ nodes = {n \in Names : props[n] # Absent} /\ store \in Contents
      /\ mode \in {"file", "dir"} /\ tmp = NoFile /\ inbox = <<>> /\ overlap = FALSE
      /\ reply = [t \in Tools |-> "none"] /\ proc = [t \in Tools |-> Idle] /\ effect = [t \in Tools |-> {}]
  BY DEF Init, WellFormed
<1>2. PICK q : q = Idle
  OBVIOUS
<1>3. RP_Good(q) /\ q.pc = "idle" /\ q.pi = Absent /\ q.op = "none"
  BY <1>2, RP_IdleGood
<1>4. \A t \in Tools : proc[t] = q /\ reply[t] = "none" /\ effect[t] = {}
  BY <1>1, <1>2
<1>5. DOMAIN proc = Tools /\ DOMAIN reply = Tools /\ DOMAIN effect = Tools
  BY <1>1
<1>6. RP_Types
  <2>1. \A t \in Tools : /\ RP_Good(proc[t]) /\ reply[t] \in {"none", "success", "error", "closed"}
                         /\ effect[t] \subseteq {"deleted", "set", "unstored"}
    BY <1>3, <1>4
  <2> QED BY <1>1, <1>5, <2>1 DEF RP_Types
<1>7. RP_Live /\ RP_Storage
  BY <1>3, <1>4 DEF RP_Live, RP_Storage, RP_Rewriting, Absent
<1>8. RP_Inbox
  BY <1>1, EmptySeq DEF RP_Inbox
<1>9. RP_Told
  BY <1>3, <1>4 DEF RP_Told, RP_SetTold, RP_DeleteTold
<1> QED BY <1>6, <1>7, <1>8, <1>9 DEF RP_IInv

LEMMA RP_Step ==
    ASSUME WellFormed, RP_IInv, [Next]_vars
    PROVE  RP_IInv'
<1>1. CASE UNCHANGED vars
  <2>1. UNCHANGED <<props, nodes, mode, store, tmp, inbox, reply, proc, effect, overlap>>
    BY <1>1 DEF vars
  <2>2. RP_Types'
    BY <2>1 DEF RP_IInv, RP_Types, RP_Good
  <2>3. RP_Live' /\ RP_Inbox' /\ RP_Storage'
    BY <2>1 DEF RP_IInv, RP_Live, RP_Inbox, RP_Storage
  <2>4. RP_Told'
    BY <2>1 DEF RP_IInv, RP_Told, RP_SetTold, RP_DeleteTold, RP_Lost
  <2> QED BY <2>2, <2>3, <2>4 DEF RP_IInv
<1>2. ASSUME NEW t \in Tools, Step(t) PROVE RP_IInv'
  BY <1>2, RP_SkipKeeps, RP_EndKeeps, RP_FindKeeps, RP_RemoveKeeps, RP_UpdateKeeps, RP_AddKeeps, RP_ConnectKeeps,
     RP_SendKeeps, RP_AwaitKeeps, RP_GetFindKeeps, RP_GetKeeps, RP_DecodeKeeps, RP_CreatKeeps, RP_EncodeKeeps,
     RP_RenameKeeps, RP_UnlinkKeeps, RP_DelKeeps DEF Step
<1> QED BY <1>1, <1>2, RP_ServiceKeeps, RP_StartKeeps, RP_EndKeeps DEF Next

LEMMA RP_Invariant == ASSUME WellFormed PROVE Spec => []RP_IInv
<1>1. Init => RP_IInv
  BY RP_Init
<1>2. RP_IInv /\ [Next]_vars => RP_IInv'
  BY RP_Step
<1> QED BY <1>1, <1>2, PTL DEF Spec

(* main(): whatever the tools, init and SIGKILL do in which order, a command  *)
(* works only with values it was given, the exit code of setprop2() with the *)
(* new protocol says whether init has set the property, a set that fails has *)
(* lost at most the read-only property it replaces, and the exit code of     *)
(* deleteprop2() tells whether something was removed unless two writers met. *)
(* It is the safety part of ExitTells.                                       *)
THEOREM ExitCodes == Spec => [](TypeOK /\ SetTellsEffect /\ DeleteTellsEffect)
<1> USE ToolAssumption
<1>1. RP_IInv => TypeOK
  <2> SUFFICES ASSUME RP_IInv PROVE TypeOK
    OBVIOUS
  <2>1. DOMAIN inbox = 1 .. Len(inbox)
        /\ \A i \in 1 .. Len(inbox) : inbox[i] \in [tool : Tools \cup {"nobody"}, name : Names, value : Values]
    BY LenProperties DEF RP_IInv, RP_Inbox
  <2>2. \A t \in Tools : proc[t] \in Process
    BY DEF RP_IInv, RP_Types, RP_Good
  <2> QED BY <2>1, <2>2 DEF RP_IInv, RP_Types, RP_Inbox, TypeOK, Find
<1>2. RP_IInv => SetTellsEffect
  BY DEF RP_IInv, RP_Told, RP_SetTold, RP_Lost, SetTellsEffect
<1>3. RP_IInv => DeleteTellsEffect
  BY DEF RP_IInv, RP_Told, RP_DeleteTold, DeleteTellsEffect
<1> QED BY <1>1, <1>2, <1>3, RP_Invariant, PTL

(* persist_deleteprop() and init: wherever a process is killed and whichever *)
(* write fails, the file of the persistent properties stays complete and     *)
(* loses no property but the one the command names, unless two writers met.  *)
THEOREM Storage == Spec => StorageKept
<1> USE ToolAssumption
<1> DEFINE Kept == (~overlap' /\ store # store') =>
                     /\ store' # Damaged
                     /\ \A n \in Names : store'[n] = Absent =>
                          \/ store[n] = Absent
                          \/ \E t \in Tools :
                               proc[t].op = "delete" /\ proc[t].name = n /\ proc[t].pc \in {"decode", "rename"}
<1>1. ASSUME RP_IInv, [Next]_vars PROVE [Kept]_vars
  <2>1. ASSUME NEW n \in Names, NEW v \in Values \cup {Absent}, store \in Contents,
               store' = [store EXCEPT ![n] = v],
               v # Absent \/ \E t \in Tools : /\ proc[t].op = "delete" /\ proc[t].name = n
                                                 /\ proc[t].pc \in {"decode", "rename"}
        PROVE  Kept
    <3>1. store' \in Contents /\ store'[n] = v /\ \A m \in Names \ {n} : store'[m] = store[m]
      BY <2>1 DEF Contents
    <3> QED BY <2>1, <3>1, RP_Facts
  <2>2. CASE ServiceHandle
    <3>1. PICK m : m = Head(inbox)
      OBVIOUS
    <3>2. store' = store \/ (store # Damaged /\ store' = [store EXCEPT ![m.name] = m.value])
      BY <2>2, <3>1 DEF ServiceHandle
    <3>3. m.name \in Names /\ m.value \in Values
      <4> DEFINE M == [tool : Tools \cup {"nobody"}, name : Names, value : Values]
      <4>1. inbox \in Seq(M) /\ inbox # <<>>
        BY <1>1, <2>2 DEF RP_IInv, RP_Inbox, ServiceHandle
      <4> HIDE DEF M
      <4>2. m \in M
        BY <3>1, <4>1, HeadTailProperties
      <4> QED BY <4>2 DEF M
    <3>4. store = Damaged \/ store \in Contents
      BY <1>1 DEF RP_IInv, RP_Types
    <3> QED BY <2>1, <3>2, <3>3, <3>4, RP_Facts
  <2>3. ASSUME NEW t \in Tools, Rename(t) PROVE Kept
    <3>1. proc[t].pc = "rename" /\ proc[t].pc \in RP_Rewriting /\ overlap' = overlap
          /\ store' = IF tmp = NoFile THEN store ELSE tmp
      BY <2>3 DEF Rename, RP_Rewriting
    <3>2. /\ proc[t].op = "delete" /\ proc[t].name \in Names
          /\ ~overlap => /\ store \in Contents /\ tmp = proc[t].list
                         /\ proc[t].list = [store EXCEPT ![proc[t].name] = Absent]
      BY <1>1, <3>1, RP_Writer
    <3>3. CASE ~overlap' /\ store # store'
      <4>1. store' = [store EXCEPT ![proc[t].name] = Absent] /\ store \in Contents
        BY <3>1, <3>2, <3>3
      <4> QED BY <2>1, <3>1, <3>2, <4>1
    <3> QED BY <3>3
  <2>4. ASSUME NEW t \in Tools, Unlink(t) PROVE Kept
    <3>1. /\ proc[t].pc = "decode"
          /\ store' = store \/ (store # Damaged /\ store' = [store EXCEPT ![proc[t].name] = Absent])
      BY <2>4 DEF Unlink
    <3>2. proc[t].op = "delete" /\ proc[t].name \in Names
      BY <1>1, <3>1, RP_Process DEF RP_Good, RP_Deleting
    <3>3. store = Damaged \/ store \in Contents
      BY <1>1 DEF RP_IInv, RP_Types
    <3> QED BY <2>1, <3>1, <3>2, <3>3
  <2>5. ASSUME NEW t \in Tools, Start(t) \/ Kill(t) PROVE Kept
    BY <2>5 DEF Start, Kill
  <2>6. ASSUME NEW t \in Tools, Step(t) PROVE Kept
    <3>1. store' = store \/ Rename(t) \/ Unlink(t)
      BY <2>6 DEF Step, SkipLine, Exit, SetFind, SetRemove, SetUpdate, SetAdd, Connect,
           Send, Await, GetFind, GetCallback, GetStored, List, Decode, Creat, Encode, Del
    <3> QED BY <2>3, <2>4, <3>1
  <2> QED BY <1>1, <2>2, <2>5, <2>6 DEF Next
<1>2. RP_IInv /\ [Next]_vars => [Kept]_vars
  BY <1>1
<1> QED BY <1>2, RP_Invariant, PTL DEF Spec, StorageKept

(* The steps of a process that is about to hand out a value end its callback. *)
LEMMA RP_CallbackEnds ==
    ASSUME WellFormed, RP_IInv, NEW t \in Tools, proc[t].pc = "callback", Start(t) \/ Kill(t) \/ Step(t)
    PROVE  proc'[t].pc # "callback"
<1>1. ~Connect(t)
  <2>1. PICK v, q : v = detect_protocol_version(proc[t]) /\ q = [proc[t] EXCEPT !.ver = v]
    OBVIOUS
  <2>2. proc[t] \in Process
    BY RP_Process
  <2>3. q.pc = "callback"
    BY <2>1, <2>2 DEF Process
  <2> QED BY <2>1, <2>3 DEF Connect
<1>2. Kill(t) \/ GetCallback(t)
  BY <1>1 DEF Step, Start, SkipLine, Exit, SetFind, SetRemove, SetUpdate, SetAdd, Send,
       Await, GetFind, GetStored, List, Decode, Creat, Encode, Rename, Unlink, Del
<1>3. DOMAIN proc = Tools /\ proc[t] \in Process /\ RP_Good(proc[t]) /\ props \in Contents
  BY RP_Process DEF RP_IInv, RP_Types
<1>4. CASE Kill(t)
  BY <1>3, <1>4, RP_IdleGood DEF Kill
<1>5. CASE GetCallback(t)
  <2>1. PICK v, p, r, q : /\ v = IF proc[t].pi = "live" THEN props[proc[t].name] ELSE proc[t].old
                          /\ p = [proc[t] EXCEPT !.value = v] /\ r = 0 /\ q = Returned(p, r)
    OBVIOUS
  <2>2. proc' = [proc EXCEPT ![t] = q] /\ r \in 0 .. 1
    BY <1>5, <2>1 DEF GetCallback
  <2>3. proc[t].name \in Names
    BY <1>3 DEF RP_Good
  <2>4. v \in Values \cup {Absent}
    BY <1>3, <2>1, <2>3 DEF Process, Contents
  <2>5. p \in Process /\ p.name \in Names
    BY <1>3, <2>1, <2>3, <2>4 DEF Process
  <2>6. q.pc \in {"ended", "find", "skip"}
    BY <2>1, <2>2, <2>5, RP_Returned
  <2> QED BY <1>3, <2>2, <2>6
<1> QED BY <1>2, <1>4, <1>5

(* ReadCallback() of a read-only property: between finding the property and  *)
(* handing its value out no deletion, no property that takes its place and   *)
(* no request to init changes what the reader gets; only Update() of another *)
(* resetprop does.                                                           *)
THEOREM ReadOnlyValues == Spec => ReadOnlyKept
<1> USE ToolAssumption
<1> DEFINE Kept == \A t \in Tools :
             proc[t].pc = "callback" /\ proc'[t].pc = "callback" /\ ValueRead(proc[t])' # ValueRead(proc[t]) =>
                 \E u \in Tools : proc[u].pc = "update" /\ proc'[u].pc # "update" /\ proc[u].name = proc[t].name
<1>1. ASSUME RP_IInv, [Next]_vars PROVE [Kept]_vars
  <2>1. ASSUME Next, NEW t \in Tools, proc[t].pc = "callback", proc'[t].pc = "callback",
               ValueRead(proc[t])' # ValueRead(proc[t])
        PROVE  \E u \in Tools : proc[u].pc = "update" /\ proc'[u].pc # "update" /\ proc[u].name = proc[t].name
    <3>1. /\ proc[t].name \in ReadOnly /\ proc[t].name \in Names /\ proc[t] \in Process
          /\ proc[t].pi = "live" => props[proc[t].name] # Absent
          /\ DOMAIN proc = Tools /\ props \in Contents
      BY <1>1, <2>1, RP_Process DEF RP_Good, RP_IInv, RP_Types
    <3>2. ~(/\ proc'[t] = proc[t]
            /\ proc[t].pi = "live" => props'[proc[t].name] = props[proc[t].name])
      BY <2>1 DEF ValueRead
    <3>3. CASE ServiceHandle
      <4>1. PICK m : m = Head(inbox)
        OBVIOUS
      <4>2. /\ proc' = proc
            /\ props' = props \/ (props' = [props EXCEPT ![m.name] = m.value] /\ ~(m.name \in ReadOnly /\ Find(m.name)))
        BY <3>3, <4>1 DEF ServiceHandle
      <4>3. proc[t].pi = "live" => props'[proc[t].name] = props[proc[t].name]
        BY <3>1, <4>2 DEF Find, Contents
      <4> QED BY <3>2, <4>2, <4>3
    <3>4. ASSUME NEW u \in Tools, Start(u) \/ Kill(u) \/ Step(u)
          PROVE  \E w \in Tools : proc[w].pc = "update" /\ proc'[w].pc # "update" /\ proc[w].name = proc[t].name
      <4>1. u # t
        BY <1>1, <2>1, <3>4, RP_CallbackEnds
      <4>2. CASE SetRemove(u) \/ Del(u)
        <5>1. PICK q : Delete(u, q) /\ q.name \in Names /\ reply' = reply
          <6>1. CASE SetRemove(u)
            <7>1. PICK q : q = [proc[u] EXCEPT !.pc = "connect", !.pi = Absent]
              OBVIOUS
            <7>2. proc[u] \in Process /\ proc[u].name \in Names
              BY <1>1, <6>1, RP_Process DEF RP_Good, RP_Setting, SetRemove
            <7>3. Delete(u, q) /\ q.name \in Names /\ reply' = reply
              BY <6>1, <7>1, <7>2 DEF SetRemove, Process
            <7> QED BY <7>3
          <6>2. CASE Del(u)
            <7>1. PICK r, q : r = DeleteResult(proc[u]) /\ q = Returned(proc[u], r)
              OBVIOUS
            <7>2. proc[u] \in Process /\ proc[u].name \in Names /\ proc[u].op = "delete"
              BY <1>1, <6>2, RP_Process DEF RP_Good, RP_Deleting, Del
            <7>3. r \in 0 .. 1
              BY <7>1 DEF DeleteResult
            <7>4. q.name = proc[u].name
              BY <7>1, <7>2, <7>3, RP_Returned
            <7>5. Delete(u, q) /\ q.name \in Names /\ reply' = reply
              BY <6>2, <7>1, <7>2, <7>4 DEF Del
            <7> QED BY <7>5
          <6> QED BY <4>2, <6>1, <6>2
        <5>2. /\ \A n \in Names \ {q.name} : props'[n] = props[n]
              /\ IF proc[t].name = q.name /\ proc[t].pi = "live"
                 THEN proc'[t].pi = "orphan" /\ proc'[t].old = props[q.name] ELSE proc'[t] = proc[t]
          BY <1>1, <4>1, <5>1, RP_Deletes
        <5>3. ValueRead(proc[t])' = ValueRead(proc[t])
          BY <3>1, <5>2 DEF ValueRead
        <5> QED BY <2>1, <5>3
      <4>3. CASE SetUpdate(u)
        <5>0. PICK r, q : r = (IF proc[u].value \notin LongValues THEN 0 ELSE 1) /\ q = Returned(proc[u], r)
          OBVIOUS
        <5>1. /\ r \in 0 .. 1 /\ q = Returned(proc[u], r) /\ proc[u].pc = "update"
              /\ \E ps \in {proc, Overwritten(proc[u])} : proc' = [ps EXCEPT ![u] = q]
          BY <4>3, <5>0 DEF SetUpdate
        <5>2. proc[u] \in Process /\ proc[u].name \in Names
          BY <1>1, <5>1, RP_Process DEF RP_Good, RP_Setting
        <5>3. q.pc # "update"
          BY <5>1, <5>2, RP_Returned
        <5>4. proc'[u].pc # "update" /\ (proc[u].name # proc[t].name => proc'[t] = proc[t])
          BY <3>1, <4>1, <5>1, <5>3 DEF Overwritten
        <5>5. proc[u].name # proc[t].name => props'[proc[t].name] = props[proc[t].name]
          BY <3>1, <4>3, <5>2 DEF SetUpdate, Contents
        <5> QED BY <3>2, <5>1, <5>4, <5>5
      <4>4. CASE SetAdd(u)
        <5>1. proc'[t] = proc[t]
          BY <3>1, <4>1, <4>4 DEF SetAdd
        <5>2. props' = props \/ (~Find(proc[u].name) /\ props' = [props EXCEPT ![proc[u].name] = proc[u].value])
          BY <4>4 DEF SetAdd
        <5>3. proc[t].pi = "live" => props'[proc[t].name] = props[proc[t].name]
          BY <3>1, <5>2 DEF Find, Contents
        <5> QED BY <3>2, <5>1, <5>3
      <4>5. CASE ~(SetRemove(u) \/ Del(u) \/ SetUpdate(u) \/ SetAdd(u))
        <5>1. props' = props
          BY <3>4, <4>5 DEF Start, Kill, Step, SkipLine, Exit, SetFind, Connect, Send, Await,
               GetFind, GetCallback, GetStored, List, Decode, Creat, Encode, Rename, Unlink
        <5>2. proc'[t] = proc[t]
          <6>1. CASE \/ Start(u) \/ Kill(u) \/ SkipLine(u) \/ Exit(u)
                     \/ SetFind(u) \/ Connect(u) \/ Send(u)
            BY <3>1, <4>1, <6>1 DEF Start, Kill, SkipLine, Exit, SetFind, Connect, Send
          <6>2. CASE Await(u) \/ GetFind(u) \/ GetCallback(u) \/ GetStored(u) \/ List(u) \/ Decode(u)
            BY <3>1, <4>1, <6>2 DEF Await, GetFind, GetCallback, GetStored, List, Decode
          <6>3. CASE Creat(u) \/ Encode(u) \/ Rename(u) \/ Unlink(u)
            BY <3>1, <4>1, <6>3 DEF Creat, Encode, Rename, Unlink
          <6> QED BY <3>4, <4>5, <6>1, <6>2, <6>3 DEF Step
        <5> QED BY <3>2, <5>1, <5>2
      <4> QED BY <4>2, <4>3, <4>4, <4>5
    <3> QED BY <2>1, <3>3, <3>4 DEF Next
  <2> QED BY <1>1, <2>1
<1>2. RP_IInv /\ [Next]_vars => [Kept]_vars
  BY <1>1
<1> QED BY <1>2, RP_Invariant, PTL DEF Spec, ReadOnlyKept

-----------------------------------------------------------------------------
(* Buffers: blocks that grow, entries that are freed. *)

BU_Vectors ==
    [entry : Seq(VectorItems \cup {"null"}), cap : Nat, state : {"none", "live", "destroyed"}]

(* A vector has room for its entries; without a block it has none. *)
BU_Blocks ==
    /\ bu_vec \in [VectorNames -> BU_Vectors]
    /\ \A v \in VectorNames : /\ Len(bu_vec[v].entry) <= bu_vec[v].cap
                              /\ IF bu_vec[v].state = "live" THEN bu_vec[v].cap >= 1 ELSE bu_vec[v].entry = <<>>

(* Item i is entry k of vector v. *)
BU_At(v, k, i) == k \in 1 .. Len(bu_vec[v].entry) /\ bu_vec[v].entry[k] = i

(* An item no vec_dup has seen is in one place, and in none once it is freed. *)
BU_Owned(i) ==
    /\ bu_freed[i] \in {0, 1}
    /\ bu_freed[i] = 1 => \A v \in VectorNames, k \in Nat : ~BU_At(v, k, i)
    /\ \A v, w \in VectorNames, k, l \in Nat : BU_At(v, k, i) /\ BU_At(w, l, i) => v = w /\ k = l

BU_Items ==
    /\ bu_freed \in [VectorItems -> Nat]
    /\ \A i \in VectorItems : i \in bu_dup \/ BU_Owned(i)

(* A line has room for one more byte, a stream's block is as large as a read can *)
(* be, and fdgets stops before the last byte of its array. *)
BU_Job ==
    /\ bu_job \in [kind : {"none", "getdelim", "stream", "fdgets"}, cap : Nat, pos : Nat, avail : Int]
    /\ bu_job.kind = "getdelim" => bu_job.avail = bu_job.cap - bu_job.pos /\ bu_job.avail >= 1
    /\ bu_job.kind = "stream" => bu_job.pos <= bu_job.cap /\ \A n \in StreamReads : n <= bu_job.cap
    /\ bu_job.kind = "fdgets" => bu_job.pos < bu_job.cap

BU_IInv == BU_Blocks /\ BU_Items /\ BU_Job /\ bu_over = FALSE

LEMMA BU_Cardinality == \A S : BU!Cardinality(S) = Cardinality(S)
BY DEF BU!Cardinality, Cardinality

LEMMA BU_Init == BU!Init => BU_IInv
<1> SUFFICES ASSUME BU!Init PROVE BU_IInv
  OBVIOUS
<1>1. BU_Blocks
  BY DEF BU!Init, BU!NoVector, BU_Blocks, BU_Vectors
<1>2. BU_Items
  BY DEF BU!Init, BU!NoVector, BU_Items, BU_Owned, BU_At
<1>3. BU_Job /\ bu_over = FALSE
  BY DEF BU!Init, BU!Idle, BU_Job
<1> QED BY <1>1, <1>2, <1>3 DEF BU_IInv

(* Bookkeeping for the vectors' actions: an item that is no newcomer keeps its owner. *)
LEMMA BU_Kept ==
    ASSUME NEW i, BU_Owned(i), bu_freed'[i] = bu_freed[i],
           \A v \in VectorNames, k \in Nat : BU_At(v, k, i)' => \E l \in Nat : BU_At(v, l, i),
           \A v \in VectorNames, k, l \in Nat : BU_At(v, k, i)' /\ BU_At(v, l, i)' => k = l
    PROVE  BU_Owned(i)'
<1>1. bu_freed'[i] \in {0, 1}
  BY DEF BU_Owned
<1>2. ASSUME bu_freed'[i] = 1, NEW v \in VectorNames, NEW k \in Nat, BU_At(v, k, i)'
      PROVE  FALSE
  BY <1>2 DEF BU_Owned
<1>3. ASSUME NEW v \in VectorNames, NEW w \in VectorNames, NEW k \in Nat, NEW l \in Nat, BU_At(v, k, i)', BU_At(w, l, i)'
      PROVE  v = w /\ k = l
  <2>1. v = w
    BY <1>3 DEF BU_Owned
  <2> QED BY <1>3, <2>1
<1> QED BY <1>1, <1>2, <1>3 DEF BU_Owned

(* Only vector v has changed; s are its entries now. *)
BU_Set(v, s) ==
    /\ BU_Blocks'
    /\ \A w \in VectorNames, k \in Nat, i \in VectorItems : w # v => (BU_At(w, k, i)' <=> BU_At(w, k, i))
    /\ \A k \in Nat, i \in VectorItems : BU_At(v, k, i)' <=> k \in 1 .. Len(s) /\ s[k] = i

LEMMA BU_Change ==
    ASSUME BU_Blocks, NEW v \in VectorNames, NEW s \in Seq(VectorItems \cup {"null"}), NEW cap \in Nat,
           NEW state \in {"none", "live", "destroyed"},
           bu_vec' = [bu_vec EXCEPT ![v] = [entry |-> s, cap |-> cap, state |-> state]],
           Len(s) <= cap, IF state = "live" THEN cap >= 1 ELSE s = <<>>
    PROVE  BU_Set(v, s)
<1>1. \A w \in VectorNames : bu_vec'[w] = IF w = v THEN [entry |-> s, cap |-> cap, state |-> state] ELSE bu_vec[w]
  BY DEF BU_Blocks
<1>2. [entry |-> s, cap |-> cap, state |-> state] \in BU_Vectors
  BY DEF BU_Vectors
<1>3. bu_vec' \in [VectorNames -> BU_Vectors]
  BY <1>2 DEF BU_Blocks
<1>4. BU_Blocks'
  BY <1>1, <1>3 DEF BU_Blocks
<1> QED BY <1>1, <1>4 DEF BU_At, BU_Set

(* The fields of a vector. *)
LEMMA BU_Fields ==
    ASSUME BU_Blocks, NEW v \in VectorNames
    PROVE  /\ bu_vec[v].entry \in Seq(VectorItems \cup {"null"}) /\ bu_vec[v].cap \in Nat
           /\ bu_vec[v].state \in {"none", "live", "destroyed"}
           /\ bu_vec[v] = [entry |-> bu_vec[v].entry, cap |-> bu_vec[v].cap, state |-> bu_vec[v].state]
           /\ Len(bu_vec[v].entry) \in Nat /\ Len(bu_vec[v].entry) <= bu_vec[v].cap
           /\ IF bu_vec[v].state = "live" THEN bu_vec[v].cap >= 1 ELSE bu_vec[v].entry = <<>>
<1>1. bu_vec[v] \in BU_Vectors
  BY DEF BU_Blocks
<1> QED BY <1>1 DEF BU_Blocks, BU_Vectors

(* What holds after a step of a vector. *)
BU_Vector == BU_Blocks /\ BU_Items /\ bu_over = FALSE

(* Its entries are thrown away, or there were none. *)
LEMMA BU_Emptied ==
    ASSUME BU_Vector, NEW v \in VectorNames, NEW cap \in Nat, NEW state \in {"none", "live", "destroyed"},
           bu_vec' = [bu_vec EXCEPT ![v] = [entry |-> <<>>, cap |-> cap, state |-> state]],
           state = "live" => cap >= 1, UNCHANGED <<bu_freed, bu_dup, bu_over>>
    PROVE  BU_Vector'
<1>1. BU_Set(v, <<>>)
  <2>1. PICK s : s = <<>>
    OBVIOUS
  <2>2. bu_vec' = [bu_vec EXCEPT ![v] = [entry |-> s, cap |-> cap, state |-> state]] /\ Len(s) <= cap
        /\ s \in Seq(VectorItems \cup {"null"}) /\ IF state = "live" THEN cap >= 1 ELSE s = <<>>
    BY <2>1
  <2>3. BU_Set(v, s)
    BY <2>2, BU_Change DEF BU_Vector
  <2> QED BY <2>1, <2>3
<1>2. /\ BU_Blocks' /\ \A k \in Nat, i \in VectorItems : ~BU_At(v, k, i)'
      /\ \A w \in VectorNames, k \in Nat, i \in VectorItems : w # v => (BU_At(w, k, i)' <=> BU_At(w, k, i))
  BY <1>1 DEF BU_Set
<1>4. ASSUME NEW i \in VectorItems, i \notin bu_dup'
      PROVE  BU_Owned(i)'
  <2>1. BU_Owned(i) /\ bu_freed'[i] = bu_freed[i]
    BY <1>4 DEF BU_Vector, BU_Items
  <2> QED BY <1>2, <2>1 DEF BU_Owned
<1> QED BY <1>2, <1>4 DEF BU_Vector, BU_Items

(* Its entries are some of those it had, each of them once. *)
LEMMA BU_Shortened ==
    ASSUME BU_Vector, NEW v \in VectorNames, bu_vec[v].state = "live", NEW s \in Seq(VectorItems \cup {"null"}),
           bu_vec' = [bu_vec EXCEPT ![v].entry = s], Len(s) <= Len(bu_vec[v].entry),
           NEW p, \A k \in 1 .. Len(s) : p[k] \in 1 .. Len(bu_vec[v].entry) /\ s[k] = bu_vec[v].entry[p[k]],
           \A k, l \in 1 .. Len(s) : p[k] = p[l] => k = l,
           UNCHANGED <<bu_freed, bu_dup, bu_over>>
    PROVE  BU_Vector'
<1>f. /\ bu_vec[v] = [entry |-> bu_vec[v].entry, cap |-> bu_vec[v].cap, state |-> bu_vec[v].state]
      /\ bu_vec[v].cap \in Nat /\ Len(bu_vec[v].entry) \in Nat /\ Len(bu_vec[v].entry) <= bu_vec[v].cap
      /\ bu_vec[v].cap >= 1 /\ Len(s) \in Nat
  BY BU_Fields DEF BU_Vector
<1>1. bu_vec' = [bu_vec EXCEPT ![v] = [entry |-> s, cap |-> bu_vec[v].cap, state |-> "live"]]
  <2>1. PICK e, c, t : bu_vec[v] = [entry |-> e, cap |-> c, state |-> t]
    BY <1>f
  <2>2. [bu_vec[v] EXCEPT !.entry = s] = [entry |-> s, cap |-> bu_vec[v].cap, state |-> "live"]
    BY <2>1
  <2> QED BY <2>2
<1>2. BU_Set(v, s)
  <2>1. Len(s) <= bu_vec[v].cap /\ "live" \in {"none", "live", "destroyed"} /\ BU_Blocks
    BY <1>f DEF BU_Vector
  <2>2. IF "live" = "live" THEN bu_vec[v].cap >= 1 ELSE s = <<>>
    BY <1>f
  <2> QED BY <1>f, <1>1, <2>1, <2>2, BU_Change
<1>3. ASSUME NEW i \in VectorItems, i \notin bu_dup'
      PROVE  BU_Owned(i)'
  <2>1. BU_Owned(i) /\ bu_freed'[i] = bu_freed[i]
    BY <1>3 DEF BU_Vector, BU_Items
  <2>2. ASSUME NEW k \in Nat, BU_At(v, k, i)'
        PROVE  k \in 1 .. Len(s) /\ p[k] \in Nat /\ BU_At(v, p[k], i)
    BY <1>2, <1>f, <2>2 DEF BU_At, BU_Set
  <2>3. ASSUME NEW w \in VectorNames, NEW k \in Nat, BU_At(w, k, i)'
        PROVE  \E l \in Nat : BU_At(w, l, i)
    BY <1>2, <2>2, <2>3 DEF BU_Set
  <2>4. ASSUME NEW w \in VectorNames, NEW k \in Nat, NEW l \in Nat, BU_At(w, k, i)', BU_At(w, l, i)'
        PROVE  k = l
    <3>1. CASE w # v
      BY <1>2, <2>1, <2>4, <3>1 DEF BU_Owned, BU_Set
    <3>2. CASE w = v
      <4>1. p[k] = p[l]
        BY <2>1, <2>2, <2>4, <3>2 DEF BU_Owned
      <4> QED BY <2>2, <2>4, <3>2, <4>1
    <3> QED BY <3>1, <3>2
  <2> QED BY <2>1, <2>3, <2>4, BU_Kept
<1> QED BY <1>2, <1>3 DEF BU_Vector, BU_Items, BU_Set

LEMMA BU_Pop ==
    ASSUME BU_Vector, NEW v \in VectorNames, BU!vec_pop_back(v)
    PROVE  BU_Vector'
<1>s. PICK s : s = BU!Front(bu_vec[v].entry)
  OBVIOUS
<1>1. /\ bu_vec' = [bu_vec EXCEPT ![v].entry = s] /\ bu_vec[v].state = "live"
      /\ Len(bu_vec[v].entry) > 0 /\ UNCHANGED <<bu_freed, bu_dup, bu_over>>
  BY <1>s DEF BU!vec_pop_back, BU!vec_size
<1>2. bu_vec[v].entry \in Seq(VectorItems \cup {"null"})
  BY BU_Fields DEF BU_Vector
<1>3. /\ s \in Seq(VectorItems \cup {"null"}) /\ Len(s) = Len(bu_vec[v].entry) - 1
      /\ \A k \in 1 .. Len(s) : s[k] = bu_vec[v].entry[k]
  <2>1. PICK e : e = bu_vec[v].entry
    OBVIOUS
  <2>2. e \in Seq(VectorItems \cup {"null"}) /\ Len(e) \in Nat /\ Len(e) > 0
    BY <1>1, <1>2, <2>1
  <2>3. /\ SubSeq(e, 1, Len(e) - 1) \in Seq(VectorItems \cup {"null"}) /\ Len(SubSeq(e, 1, Len(e) - 1)) = Len(e) - 1
        /\ \A k \in 1 .. Len(e) - 1 : SubSeq(e, 1, Len(e) - 1)[k] = e[k]
    <3>n. PICK n : n = Len(e) - 1
      OBVIOUS
    <3>1. 1 \in Int /\ n \in Int /\ n >= 0 /\ \A k \in 1 .. n : k \in 1 .. Len(e)
      BY <2>2, <3>n
    <3>2. \A k \in 1 .. n : e[k] \in VectorItems \cup {"null"}
      BY <2>2, <3>1, ElementOfSeq
    <3>3. /\ SubSeq(e, 1, n) \in Seq(VectorItems \cup {"null"}) /\ Len(SubSeq(e, 1, n)) = IF 1 <= n THEN n - 1 + 1 ELSE 0
          /\ \A k \in 1 .. n - 1 + 1 : SubSeq(e, 1, n)[k] = e[1 + k - 1]
      BY <3>1, <3>2, SubSeqProperties
    <3>4. /\ SubSeq(e, 1, n) \in Seq(VectorItems \cup {"null"}) /\ Len(SubSeq(e, 1, n)) = n
          /\ \A k \in 1 .. n : SubSeq(e, 1, n)[k] = e[k]
      BY <3>1, <3>3
    <3> QED BY <3>n, <3>4
  <2> QED BY <1>s, <2>1, <2>2, <2>3 DEF BU!Front
<1>p. PICK p : p = [k \in 1 .. Len(s) |-> k]
  OBVIOUS
<1>4. \A k \in 1 .. Len(s) : p[k] = k
  BY <1>p
<1>5. /\ \A k \in 1 .. Len(s) : p[k] \in 1 .. Len(bu_vec[v].entry) /\ s[k] = bu_vec[v].entry[p[k]]
      /\ \A k, l \in 1 .. Len(s) : p[k] = p[l] => k = l
      /\ Len(s) <= Len(bu_vec[v].entry)
  <2>1. Len(bu_vec[v].entry) \in Nat /\ Len(s) = Len(bu_vec[v].entry) - 1
    BY <1>2, <1>3
  <2>2. Len(s) <= Len(bu_vec[v].entry) /\ \A k \in 1 .. Len(s) : k \in 1 .. Len(bu_vec[v].entry)
    BY <2>1
  <2> QED BY <1>3, <1>4, <2>2
<1> QED BY <1>1, <1>3, <1>5, BU_Shortened

LEMMA BU_Sort ==
    ASSUME BU_Vector, NEW v \in VectorNames, BU!vec_sort(v)
    PROVE  BU_Vector'
<1>e. PICK e : e = bu_vec[v].entry
  OBVIOUS
<1>1. e \in Seq(VectorItems \cup {"null"}) /\ Len(e) \in Nat /\ DOMAIN e = 1 .. Len(e)
  <2>1. e \in Seq(VectorItems \cup {"null"})
    BY <1>e, BU_Fields DEF BU_Vector
  <2> QED BY <2>1
<1>n. PICK n : n = Cardinality(BU!Full(e))
  OBVIOUS
<1>2. PICK p \in BU!Bijection(1 .. n, BU!Full(e)) : bu_vec' = [bu_vec EXCEPT ![v].entry = [k \in DOMAIN p |-> e[p[k]]]]
  <2>1. BU!Cardinality(BU!Full(e)) = n
    BY <1>n, BU_Cardinality
  <2>2. \E p \in BU!Bijection(1 .. BU!Cardinality(BU!Full(e)), BU!Full(e)) :
          bu_vec' = [bu_vec EXCEPT ![v].entry = [k \in DOMAIN p |-> e[p[k]]]]
    <3>1. PICK p \in BU!Bijection(1 .. BU!Cardinality(BU!Full(bu_vec[v].entry)), BU!Full(bu_vec[v].entry)) :
            bu_vec' = [bu_vec EXCEPT ![v].entry = [k \in DOMAIN p |-> @[p[k]]]]
      BY Zenon DEF BU!vec_sort
    <3>2. p \in BU!Bijection(1 .. BU!Cardinality(BU!Full(e)), BU!Full(e))
      BY <1>e, <3>1
    <3>3. bu_vec' = [bu_vec EXCEPT ![v].entry = [k \in DOMAIN p |-> e[p[k]]]]
      BY <1>e, <3>1
    <3> QED BY <3>2, <3>3
  <2> QED BY <2>1, <2>2
<1>3. bu_vec[v].state = "live" /\ UNCHANGED <<bu_freed, bu_dup, bu_over>>
  BY DEF BU!vec_sort
<1>4. n \in Nat /\ n <= Len(e)
  <2>1. BU!Full(e) \subseteq 1 .. Len(e)
    BY <1>1 DEF BU!Full
  <2>2. IsFiniteSet(1 .. Len(e)) /\ Cardinality(1 .. Len(e)) = Len(e)
    BY <1>1, FS_Interval
  <2>3. IsFiniteSet(BU!Full(e)) /\ Cardinality(BU!Full(e)) <= Len(e)
    BY <2>1, <2>2, FS_Subset
  <2> QED BY <1>n, <2>3, FS_CardinalityType
<1>5. /\ DOMAIN p = 1 .. n
      /\ \A k \in 1 .. n : p[k] \in 1 .. Len(e)
      /\ \A k, l \in 1 .. n : p[k] = p[l] => k = l
  BY <1>1 DEF BU!Bijection, BU!Injection, BU!IsInjective, BU!Full
<1>s. PICK s : s = [k \in DOMAIN p |-> e[p[k]]]
  OBVIOUS
<1>6. s \in Seq(VectorItems \cup {"null"}) /\ Len(s) = n /\ \A k \in 1 .. n : s[k] = e[p[k]]
  <2>1. \A k \in 1 .. n : e[p[k]] \in VectorItems \cup {"null"}
    BY <1>1, <1>5, ElementOfSeq
  <2>2. s \in [1 .. n -> VectorItems \cup {"null"}]
    BY <1>s, <1>5, <2>1
  <2> QED BY <1>s, <1>4, <1>5, <2>2
<1>7. /\ bu_vec' = [bu_vec EXCEPT ![v].entry = s] /\ Len(s) <= Len(bu_vec[v].entry)
      /\ \A k \in 1 .. Len(s) : p[k] \in 1 .. Len(bu_vec[v].entry) /\ s[k] = bu_vec[v].entry[p[k]]
      /\ \A k, l \in 1 .. Len(s) : p[k] = p[l] => k = l
  BY <1>e, <1>s, <1>2, <1>4, <1>5, <1>6
<1> QED BY <1>3, <1>6, <1>7, BU_Shortened

LEMMA BU_Push ==
    ASSUME BU_Vector, NEW v \in VectorNames, NEW i \in VectorItems \cup {"null"}, BU!Fresh(i), BU!vec_push_back(v, i)
    PROVE  BU_Vector'
<1> USE BuffersAssumption
<1>e. PICK e, c : e = bu_vec[v].entry /\ c = BU!Grown(v)
  OBVIOUS
<1>1. /\ e \in Seq(VectorItems \cup {"null"}) /\ Len(e) \in Nat /\ bu_vec[v].state = "live"
      /\ bu_vec[v].cap \in Nat /\ bu_vec[v].cap >= 1 /\ Len(e) <= bu_vec[v].cap
  BY <1>e, BU_Fields DEF BU_Vector, BU!vec_push_back
<1>2. c \in Nat /\ Len(e) + 1 <= c /\ c >= 1
  BY <1>e, <1>1 DEF BU!Grown, BU!vec_size
<1>s. PICK s : s = Append(e, i)
  OBVIOUS
<1>3. /\ s \in Seq(VectorItems \cup {"null"}) /\ Len(s) = Len(e) + 1 /\ s[Len(e) + 1] = i
      /\ \A k \in 1 .. Len(e) : s[k] = e[k]
  BY <1>s, <1>1, AppendProperties
<1>4. bu_vec' = [bu_vec EXCEPT ![v] = [entry |-> s, cap |-> c, state |-> "live"]]
  <2>1. bu_vec' = [bu_vec EXCEPT ![v].cap = c, ![v].entry = s]
    BY <1>e, <1>s DEF BU!vec_push_back
  <2>2. bu_vec \in [VectorNames -> BU_Vectors]
    BY DEF BU_Vector, BU_Blocks
  <2>3. PICK f, d, t : bu_vec[v] = [entry |-> f, cap |-> d, state |-> t]
    BY BU_Fields DEF BU_Vector
  <2>4. t = "live"
    BY <1>1, <2>3
  <2>5. [[entry |-> f, cap |-> d, state |-> t] EXCEPT !.cap = c, !.entry = s] = [entry |-> s, cap |-> c, state |-> "live"]
    <3>1. [[entry |-> f, cap |-> d, state |-> t] EXCEPT !.cap = c] = [entry |-> f, cap |-> c, state |-> t]
      OBVIOUS
    <3>2. [[entry |-> f, cap |-> c, state |-> t] EXCEPT !.entry = s] = [entry |-> s, cap |-> c, state |-> t]
      OBVIOUS
    <3> QED BY <2>4, <3>1, <3>2
  <2>6. [bu_vec EXCEPT ![v].cap = c, ![v].entry = s] = [bu_vec EXCEPT ![v] = [[entry |-> f, cap |-> d, state |-> t] EXCEPT !.cap = c, !.entry = s]]
    BY <2>2, <2>3
  <2> QED BY <2>1, <2>5, <2>6
<1>5. BU_Set(v, s)
  <2>1. Len(s) <= c /\ "live" \in {"none", "live", "destroyed"} /\ BU_Blocks
    BY <1>2, <1>3 DEF BU_Vector
  <2>2. IF "live" = "live" THEN c >= 1 ELSE s = <<>>
    BY <1>2
  <2> QED BY <1>2, <1>3, <1>4, <2>1, <2>2, BU_Change
<1>6. UNCHANGED <<bu_freed, bu_dup>> /\ bu_over' = FALSE
  <2>1. ~(BU!vec_size(v) + 1 > BU!Grown(v))
    BY <1>e, <1>1, <1>2 DEF BU!vec_size
  <2> QED BY <2>1 DEF BU!vec_push_back, BU_Vector
<1>7. ASSUME NEW j \in VectorItems, j \notin bu_dup'
      PROVE  BU_Owned(j)'
  <2>1. BU_Owned(j) /\ bu_freed'[j] = bu_freed[j]
    BY <1>6, <1>7 DEF BU_Vector, BU_Items
  <2>2. \A w \in VectorNames, k \in Nat : w # v => (BU_At(w, k, j)' <=> BU_At(w, k, j))
    BY <1>5 DEF BU_Set
  <2>3. \A k \in Nat : BU_At(v, k, j)' <=> BU_At(v, k, j) \/ (k = Len(e) + 1 /\ j = i)
    BY <1>1, <1>e, <1>3, <1>5 DEF BU_Set, BU_At
  <2>4. CASE j # i
    <3>1. \A w \in VectorNames, k \in Nat : BU_At(w, k, j)' <=> BU_At(w, k, j)
      BY <2>2, <2>3, <2>4
    <3> QED BY <2>1, <3>1 DEF BU_Owned
  <2>5. CASE j = i
    <3>1. bu_freed[i] = 0 /\ \A w \in VectorNames : i \notin BU!ToSet(bu_vec[w].entry)
      BY <2>5 DEF BU!Fresh
    <3>2. ASSUME NEW w \in VectorNames, NEW k \in Nat, BU_At(w, k, i)
          PROVE  FALSE
      <4>1. DOMAIN bu_vec[w].entry = 1 .. Len(bu_vec[w].entry)
        BY BU_Fields DEF BU_Vector
      <4> QED BY <3>1, <3>2, <4>1 DEF BU_At, BU!ToSet
    <3>3. \A w \in VectorNames, k \in Nat : BU_At(w, k, j)' => w = v /\ k = Len(e) + 1
      BY <2>2, <2>3, <2>5, <3>2
    <3>4. bu_freed'[j] = 0
      BY <2>1, <2>5, <3>1
    <3> QED BY <3>3, <3>4 DEF BU_Owned
  <2> QED BY <2>4, <2>5
<1> QED BY <1>5, <1>6, <1>7 DEF BU_Vector, BU_Items, BU_Set

LEMMA BU_Dup ==
    ASSUME BU_Vector, NEW v \in VectorNames, NEW w \in VectorNames, BU!vec_dup(v, w)
    PROVE  BU_Vector'
<1>e. PICK e, c : e = bu_vec[v].entry /\ c = bu_vec[v].cap
  OBVIOUS
<1>1. /\ e \in Seq(VectorItems \cup {"null"}) /\ c \in Nat /\ c >= 1 /\ Len(e) <= c
      /\ bu_vec[v] = [entry |-> e, cap |-> c, state |-> "live"] /\ DOMAIN e = 1 .. Len(e)
  BY <1>e, BU_Fields DEF BU_Vector, BU!vec_dup
<1>2. bu_vec' = [bu_vec EXCEPT ![w] = [entry |-> e, cap |-> c, state |-> "live"]]
  BY <1>1 DEF BU!vec_dup
<1>3. BU_Set(w, e)
  <2>1. "live" \in {"none", "live", "destroyed"} /\ BU_Blocks /\ IF "live" = "live" THEN c >= 1 ELSE e = <<>>
    BY <1>1 DEF BU_Vector
  <2> QED BY <1>1, <1>2, <2>1, BU_Change
<1>4. bu_dup' = bu_dup \cup BU!ToSet(e) /\ UNCHANGED <<bu_freed, bu_over>> /\ bu_vec[w].state # "live"
  BY <1>e DEF BU!vec_dup
<1>5. ASSUME NEW j \in VectorItems, j \notin bu_dup'
      PROVE  BU_Owned(j)'
  <2>1. BU_Owned(j) /\ bu_freed'[j] = bu_freed[j]
    BY <1>4, <1>5 DEF BU_Vector, BU_Items
  <2>2. \A k \in 1 .. Len(e) : e[k] # j
    BY <1>1, <1>4, <1>5 DEF BU!ToSet
  <2>3. \A k \in Nat : ~BU_At(w, k, j)'
    BY <1>3, <2>2 DEF BU_Set
  <2>4. \A u \in VectorNames, k \in Nat : BU_At(u, k, j)' => BU_At(u, k, j)
    BY <1>3, <2>3 DEF BU_Set
  <2> QED BY <2>1, <2>4 DEF BU_Owned
<1> QED BY <1>3, <1>4, <1>5 DEF BU_Vector, BU_Items, BU_Set

LEMMA BU_DeepDestroy ==
    ASSUME BU_Vector, NEW v \in VectorNames, BU!vec_deep_destroy(v)
    PROVE  BU_Vector'
<1>0. UNCHANGED <<bu_dup, bu_over>>
  BY DEF BU!vec_deep_destroy
<1>1. BU_Set(v, <<>>)
  <2>1. PICK s : s = <<>>
    OBVIOUS
  <2>2. bu_vec' = [bu_vec EXCEPT ![v] = [entry |-> s, cap |-> 0, state |-> "destroyed"]] /\ Len(s) <= 0
        /\ s \in Seq(VectorItems \cup {"null"}) /\ IF "destroyed" = "live" THEN 0 >= 1 ELSE s = <<>>
    BY <2>1 DEF BU!vec_deep_destroy, BU!Destroyed
  <2>3. "destroyed" \in {"none", "live", "destroyed"} /\ 0 \in Nat /\ BU_Blocks
    BY DEF BU_Vector
  <2>4. BU_Set(v, s)
    BY <2>2, <2>3, BU_Change
  <2> QED BY <2>1, <2>4
<1>2. /\ BU_Blocks' /\ \A k \in Nat, i \in VectorItems : ~BU_At(v, k, i)'
      /\ \A w \in VectorNames, k \in Nat, i \in VectorItems : w # v => (BU_At(w, k, i)' <=> BU_At(w, k, i))
  BY <1>1 DEF BU_Set
<1>e. PICK e : e = bu_vec[v].entry
  OBVIOUS
<1>3. e \in Seq(VectorItems \cup {"null"}) /\ Len(e) \in Nat /\ DOMAIN e = 1 .. Len(e)
  <2>1. e \in Seq(VectorItems \cup {"null"})
    BY <1>e, BU_Fields DEF BU_Vector
  <2> QED BY <2>1
<1>4. \A i \in VectorItems : BU!Held(v, i) = Cardinality({k \in 1 .. Len(e) : e[k] = i})
  BY <1>3, <1>e, BU_Cardinality DEF BU!Held
<1>5. \A i \in VectorItems : Cardinality({k \in 1 .. Len(e) : e[k] = i}) \in Nat
  <2>1. IsFiniteSet(1 .. Len(e))
    BY <1>3, FS_Interval
  <2>2. \A i \in VectorItems : {k \in 1 .. Len(e) : e[k] = i} \in SUBSET (1 .. Len(e))
    OBVIOUS
  <2>3. \A i \in VectorItems : IsFiniteSet({k \in 1 .. Len(e) : e[k] = i})
    BY <2>1, <2>2, FS_Subset
  <2> QED BY <2>3, FS_CardinalityType
<1>6. bu_freed' = [i \in VectorItems |-> bu_freed[i] + Cardinality({k \in 1 .. Len(e) : e[k] = i})]
  BY <1>4 DEF BU!vec_deep_destroy
<1>7. bu_freed' \in [VectorItems -> Nat]
  BY <1>5, <1>6 DEF BU_Vector, BU_Items
<1>8. ASSUME NEW i \in VectorItems, i \notin bu_dup'
      PROVE  BU_Owned(i)'
  <2>1. BU_Owned(i)
    BY <1>0, <1>8 DEF BU_Vector, BU_Items
  <2>a. PICK here : here = {k \in 1 .. Len(e) : e[k] = i}
    OBVIOUS
  <2>2. bu_freed'[i] = bu_freed[i] + Cardinality(here)
    BY <1>6, <2>a
  <2>3. CASE here = {}
    <3>1. bu_freed'[i] = bu_freed[i]
      BY <2>1, <2>2, <2>3, FS_EmptySet DEF BU_Owned
    <3>2. \A w \in VectorNames, k \in Nat : BU_At(w, k, i)' => BU_At(w, k, i)
      BY <1>2
    <3> QED BY <2>1, <3>1, <3>2 DEF BU_Owned
  <2>4. ASSUME NEW k \in here
        PROVE  BU_Owned(i)'
    <3>1. k \in Nat /\ BU_At(v, k, i)
      BY <1>e, <1>3, <2>a DEF BU_At
    <3>2. bu_freed[i] = 0
      BY <2>1, <3>1 DEF BU_Owned
    <3>3. here = {k}
      <4>1. ASSUME NEW l \in here PROVE l = k
        <5>1. l \in Nat /\ BU_At(v, l, i)
          BY <1>e, <1>3, <2>a DEF BU_At
        <5> QED BY <2>1, <3>1, <5>1 DEF BU_Owned
      <4> QED BY <4>1
    <3>4. bu_freed'[i] = 1
      BY <2>2, <3>2, <3>3, FS_Singleton
    <3>5. ASSUME NEW w \in VectorNames, NEW l \in Nat, BU_At(w, l, i)'
          PROVE  FALSE
      <4>1. w # v /\ BU_At(w, l, i)
        BY <1>2, <3>5
      <4> QED BY <2>1, <3>1, <4>1 DEF BU_Owned
    <3> QED BY <3>4, <3>5 DEF BU_Owned
  <2> QED BY <2>3, <2>4
<1> QED BY <1>0, <1>2, <1>7, <1>8 DEF BU_Vector, BU_Items

(* A step of a reader. *)
LEMMA BU_Getdelim ==
    ASSUME BU_Job, bu_over = FALSE, BU!__getdelim
    PROVE  BU_Job' /\ bu_over' = FALSE
<1>j. PICK j : j = BU!GrownLine(bu_job)
  OBVIOUS
<1>0. PICK c, q, a : bu_job = [kind |-> "getdelim", cap |-> c, pos |-> q, avail |-> a]
  BY DEF BU_Job, BU!__getdelim
<1>1. c \in Nat /\ q \in Nat /\ a = c - q /\ a >= 1 /\ c >= 1
  BY <1>0 DEF BU_Job
<1>2. PICK d : j = [kind |-> "getdelim", cap |-> d, pos |-> q, avail |-> d - q] /\ d \in Nat /\ d - q >= 2
  <2>1. CASE a >= 2
    BY <1>j, <1>0, <1>1, <2>1 DEF BU!GrownLine
  <2>2. CASE ~(a >= 2)
    <3>1. PICK d : d = IF c > BU!MIN_CHUNK THEN c * 2 ELSE c + BU!MIN_CHUNK
      OBVIOUS
    <3>2. d \in Nat /\ d - q >= 2
      BY <1>1, <2>2, <3>1 DEF BU!MIN_CHUNK
    <3>3. j = [bu_job EXCEPT !.cap = d, !.avail = d - q]
      BY <1>j, <1>0, <2>2, <3>1 DEF BU!GrownLine
    <3> QED BY <1>0, <3>2, <3>3
  <2> QED BY <2>1, <2>2
<1>3. \/ bu_job' = [j EXCEPT !.pos = j.pos + 1, !.avail = j.avail - 1] /\ bu_over' = (bu_over \/ j.pos >= j.cap)
      \/ bu_job' = BU!Idle /\ bu_over' = (bu_over \/ j.pos + 1 >= j.cap)
      \/ bu_job' = BU!Idle /\ bu_over' = (bu_over \/ j.pos >= j.cap)
  BY <1>j DEF BU!__getdelim
<1>4. bu_over' = FALSE
  <2>1. ~(j.pos >= j.cap) /\ ~(j.pos + 1 >= j.cap)
    BY <1>1, <1>2
  <2> QED BY <1>3, <2>1
<1>5. bu_job' = BU!Idle \/ bu_job' = [kind |-> "getdelim", cap |-> d, pos |-> q + 1, avail |-> d - q - 1]
  BY <1>2, <1>3
<1>6. BU_Job'
  BY <1>1, <1>2, <1>5 DEF BU_Job, BU!Idle
<1> QED BY <1>4, <1>6

LEMMA BU_Stream ==
    ASSUME BU_Job, bu_over = FALSE, BU!stream_full_read
    PROVE  BU_Job' /\ bu_over' = FALSE
<1> USE BuffersAssumption
<1>0. PICK c, q, a : bu_job = [kind |-> "stream", cap |-> c, pos |-> q, avail |-> a]
  BY DEF BU_Job, BU!stream_full_read
<1>1. c \in Nat /\ q \in Nat /\ a \in Int /\ q <= c /\ \A n \in StreamReads : n <= c
  BY <1>0 DEF BU_Job
<1>2. CASE bu_job' = BU!Idle /\ bu_over' = bu_over
  BY <1>2 DEF BU_Job, BU!Idle
<1>3. ASSUME NEW n \in StreamReads, NEW d, d = (IF bu_job.pos + n > bu_job.cap THEN bu_job.cap * 2 ELSE bu_job.cap),
             bu_job' = [bu_job EXCEPT !.cap = d, !.pos = bu_job.pos + n], bu_over' = (bu_over \/ bu_job.pos + n > d)
      PROVE  BU_Job' /\ bu_over' = FALSE
  <2>1. d \in Nat /\ n \in Nat /\ q + n <= d /\ c <= d
    BY <1>0, <1>1, <1>3
  <2>2. bu_job' = [kind |-> "stream", cap |-> d, pos |-> q + n, avail |-> a]
    BY <1>0, <1>3
  <2>3. ~(bu_job.pos + n > d)
    BY <1>0, <1>1, <2>1
  <2>4. bu_over' = FALSE
    BY <1>3, <2>3
  <2> QED BY <1>1, <2>1, <2>2, <2>4 DEF BU_Job
<1> QED BY <1>2, <1>3 DEF BU!stream_full_read

LEMMA BU_Fdgets ==
    ASSUME BU_Job, bu_over = FALSE, BU!fdgets
    PROVE  BU_Job' /\ bu_over' = FALSE
<1>0. PICK c, q, a : bu_job = [kind |-> "fdgets", cap |-> c, pos |-> q, avail |-> a]
  BY DEF BU_Job, BU!fdgets
<1>1. c \in Nat /\ q \in Nat /\ a \in Int /\ q < c
  BY <1>0 DEF BU_Job
<1>2. bu_over' = FALSE
  <2>1. ~(bu_job.pos >= bu_job.cap)
    BY <1>0, <1>1
  <2> QED BY <2>1 DEF BU!fdgets
<1>3. bu_job' = BU!Idle \/ (q + 1 < c /\ bu_job' = [kind |-> "fdgets", cap |-> c, pos |-> q + 1, avail |-> a])
  BY <1>0 DEF BU!fdgets
<1> QED BY <1>1, <1>2, <1>3 DEF BU_Job, BU!Idle

LEMMA BU_Begins ==
    ASSUME BU_IInv, BU!GetdelimBegin \/ BU!StreamBegin \/ BU!FdgetsBegin
    PROVE  BU_Job' /\ UNCHANGED <<bu_vec, bu_freed, bu_dup, bu_over>>
<1> USE BuffersAssumption
<1>1. CASE BU!GetdelimBegin
  BY <1>1 DEF BU!GetdelimBegin, BU!Begin, BU!MIN_CHUNK, BU_Job
<1>2. CASE BU!StreamBegin
  <2>1. BU!Max(StreamReads) \in StreamReads /\ \A n \in StreamReads : n <= BU!Max(StreamReads)
    BY DEF BU!Max
  <2>2. PICK m : m = BU!Max(StreamReads)
    OBVIOUS
  <2>3. m \in Nat /\ \A n \in StreamReads : n <= m
    BY <2>1, <2>2
  <2>4. bu_job' = [kind |-> "stream", cap |-> m, pos |-> 0, avail |-> 0] /\ UNCHANGED <<bu_vec, bu_freed, bu_dup, bu_over>>
    BY <1>2, <2>2 DEF BU!StreamBegin, BU!Begin
  <2> QED BY <2>3, <2>4 DEF BU_Job
<1>3. CASE BU!FdgetsBegin
  BY <1>3 DEF BU!FdgetsBegin, BU!Begin, BU_Job
<1> QED BY <1>1, <1>2, <1>3

LEMMA BU_VectorStep ==
    ASSUME BU_Vector, BU!VectorNext
    PROVE  BU_Vector'
<1>1. ASSUME NEW v \in VectorNames, BU!vec_init(v) \/ BU!vec_destroy(v)
      PROVE  BU_Vector'
  <2>1. CASE BU!vec_init(v)
    <3>1. /\ bu_vec' = [bu_vec EXCEPT ![v] = [entry |-> <<>>, cap |-> 1, state |-> "live"]]
          /\ UNCHANGED <<bu_freed, bu_dup, bu_over>> /\ 1 \in Nat /\ "live" \in {"none", "live", "destroyed"} /\ 1 >= 1
      BY <2>1 DEF BU!vec_init
    <3> QED BY <3>1, BU_Emptied
  <2>2. CASE BU!vec_destroy(v)
    <3>1. /\ bu_vec' = [bu_vec EXCEPT ![v] = [entry |-> <<>>, cap |-> 0, state |-> "destroyed"]]
          /\ UNCHANGED <<bu_freed, bu_dup, bu_over>> /\ 0 \in Nat /\ "destroyed" \in {"none", "live", "destroyed"}
          /\ "destroyed" # "live"
      BY <2>2 DEF BU!vec_destroy, BU!Destroyed
    <3> QED BY <3>1, BU_Emptied
  <2> QED BY <1>1, <2>1, <2>2
<1> QED BY <1>1, BU_Pop, BU_Sort, BU_DeepDestroy, BU_Push, BU_Dup DEF BU!VectorNext

LEMMA BU_Step ==
    ASSUME BU_IInv, [BU!Next]_BU!vars
    PROVE  BU_IInv'
<1>1. CASE BU!VectorNext
  <2>1. BU_Vector'
    BY <1>1, BU_VectorStep DEF BU_IInv, BU_Vector
  <2>2. bu_job' = bu_job
    BY <1>1 DEF BU!VectorNext
  <2> QED BY <2>1, <2>2 DEF BU_IInv, BU_Vector, BU_Job
<1>2. ASSUME BU_Job', bu_over' = FALSE, UNCHANGED <<bu_vec, bu_freed, bu_dup>>
      PROVE  BU_IInv'
  BY <1>2 DEF BU_IInv, BU_Blocks, BU_Items, BU_Owned, BU_At
<1>3. CASE BU!GetdelimBegin \/ BU!StreamBegin \/ BU!FdgetsBegin
  BY <1>2, <1>3, BU_Begins DEF BU_IInv
<1>4. CASE BU!__getdelim
  BY <1>2, <1>4, BU_Getdelim DEF BU_IInv, BU!__getdelim
<1>5. CASE BU!stream_full_read
  BY <1>2, <1>5, BU_Stream DEF BU_IInv, BU!stream_full_read
<1>6. CASE BU!fdgets
  BY <1>2, <1>6, BU_Fdgets DEF BU_IInv, BU!fdgets
<1>7. CASE UNCHANGED BU!vars
  BY <1>2, <1>7 DEF BU!vars, BU_IInv, BU_Job
<1> QED BY <1>1, <1>3, <1>4, <1>5, <1>6, <1>7 DEF BU!Next

(* Buffers: vec_push_back, __getdelim, stream_full_read and fdgets store nothing *)
(* outside of the block there is, whatever the lengths, and vec_deep_destroy     *)
(* frees no entry twice that vec_dup has not given to a second vector.           *)
THEOREM Blocks == BU!Spec => []BuffersInv
<1>1. BU_IInv => BuffersInv
  <2> SUFFICES ASSUME BU_IInv PROVE BuffersInv
    OBVIOUS
  <2>1. BU!InBlock
    BY DEF BU_IInv, BU_Blocks, BU!InBlock, BU!vec_size
  <2>2. BU!FreedOnce
    BY DEF BU_IInv, BU_Items, BU_Owned, BU!FreedOnce
  <2> QED BY <2>1, <2>2 DEF BuffersInv, BU!BuffersInv
<1>2. BU_IInv /\ [BU!Next]_BU!vars => BU_IInv'
  BY BU_Step
<1> QED BY <1>1, <1>2, BU_Init, PTL DEF BU!Spec

-----------------------------------------------------------------------------
(* SecNativeFeature: no thread asks NULL. *)

(* What the constructor can have read. *)
NF_Read(d) == {SF!_loadFeature(SubSeq(d, 1, n)) : n \in {Len(d), Len(d) \div 2}}
NF_Loaded == UNION {NF_Read(d) : d \in FeatureFiles}

(* A thread about to assign has an instance of its own; one that asks has    *)
(* seen that there is one, and no assignment takes it back. *)
NF_IInv ==
    /\ sf_document \in FeatureFiles
    /\ sf_instances \in Seq(NF_Loaded)
    /\ sf_thread \in [FeatureThreads -> [at : {"idle", "new", "assign", "use"}, own : Nat]]
    /\ sf_instance \in 0 .. Len(sf_instances)
    /\ \A t \in FeatureThreads : sf_thread[t].at = "assign" => sf_thread[t].own \in 1 .. Len(sf_instances)
    /\ \A t \in FeatureThreads : sf_thread[t].at = "use" => sf_instance # 0

LEMMA NF_Init == SF!Init => NF_IInv
<1> SUFFICES ASSUME SF!Init PROVE NF_IInv
  OBVIOUS
<1>1. sf_instances = <<>> /\ sf_instance = 0 /\ sf_document \in FeatureFiles /\ sf_thread = [t \in FeatureThreads |-> [at |-> "idle", own |-> 0]]
  BY DEF SF!Init
<1>2. Len(sf_instances) = 0 /\ sf_instances \in Seq(NF_Loaded)
  BY <1>1
<1>3. sf_thread \in [FeatureThreads -> [at : {"idle", "new", "assign", "use"}, own : Nat]]
  BY <1>1
<1> QED BY <1>1, <1>2, <1>3 DEF NF_IInv

(* What a thread's step does to the threads. *)
LEMMA NF_Thread ==
    ASSUME NF_IInv, NEW t \in FeatureThreads, NEW at \in {"idle", "new", "assign", "use"}, NEW own \in Nat,
           sf_thread' = [sf_thread EXCEPT ![t] = [at |-> at, own |-> own]]
    PROVE  /\ sf_thread' \in [FeatureThreads -> [at : {"idle", "new", "assign", "use"}, own : Nat]]
           /\ sf_thread'[t].at = at /\ sf_thread'[t].own = own
           /\ \A u \in FeatureThreads : u # t => sf_thread'[u] = sf_thread[u]
<1>1. sf_thread \in [FeatureThreads -> [at : {"idle", "new", "assign", "use"}, own : Nat]]
  BY DEF NF_IInv
<1>2. [at |-> at, own |-> own] \in [at : {"idle", "new", "assign", "use"}, own : Nat]
  OBVIOUS
<1> QED BY <1>1, <1>2

LEMMA NF_At ==
    ASSUME NF_IInv, NEW t \in FeatureThreads, NEW at, sf_thread' = [sf_thread EXCEPT ![t].at = at]
    PROVE  sf_thread' = [sf_thread EXCEPT ![t] = [at |-> at, own |-> sf_thread[t].own]] /\ sf_thread[t].own \in Nat
<1>1. sf_thread[t] \in [at : {"idle", "new", "assign", "use"}, own : Nat]
  BY DEF NF_IInv
<1>2. [sf_thread[t] EXCEPT !.at = at] = [at |-> at, own |-> sf_thread[t].own]
  BY <1>1
<1> QED BY <1>1, <1>2

LEMMA NF_getInstance == ASSUME NF_IInv, NEW t \in FeatureThreads, SF!getInstance(t) PROVE NF_IInv'
<1>1. PICK at \in {"new", "use"} : sf_thread' = [sf_thread EXCEPT ![t].at = at] /\ (at = "use" => sf_instance # 0)
  BY DEF SF!getInstance, SF!Missing
<1>2. sf_document' = sf_document /\ sf_instances' = sf_instances /\ sf_instance' = sf_instance
  BY DEF SF!getInstance
<1>3. /\ sf_thread' \in [FeatureThreads -> [at : {"idle", "new", "assign", "use"}, own : Nat]]
      /\ sf_thread'[t].at = at /\ sf_thread'[t].own = sf_thread[t].own
      /\ \A u \in FeatureThreads : u # t => sf_thread'[u] = sf_thread[u]
  <2>1. PICK own \in Nat : own = sf_thread[t].own /\ sf_thread' = [sf_thread EXCEPT ![t] = [at |-> at, own |-> own]]
    BY <1>1, NF_At
  <2>2. at \in {"idle", "new", "assign", "use"}
    OBVIOUS
  <2> QED BY <2>1, <2>2, NF_Thread
<1> QED BY <1>1, <1>2, <1>3 DEF NF_IInv

LEMMA NF_New == ASSUME NF_IInv, NEW t \in FeatureThreads, SF!New(t) PROVE NF_IInv'
<1>1. PICK n \in {Len(sf_document), Len(sf_document) \div 2} : sf_instances' = Append(sf_instances, SF!_loadFeature(SubSeq(sf_document, 1, n)))
  BY DEF SF!New
<1>2. /\ sf_thread' = [sf_thread EXCEPT ![t] = [at |-> "assign", own |-> Len(sf_instances) + 1]]
      /\ sf_document' = sf_document /\ sf_instance' = sf_instance
  BY DEF SF!New
<1>f. PICK f : f = SF!_loadFeature(SubSeq(sf_document, 1, n))
  OBVIOUS
<1>3. f \in NF_Loaded
  BY <1>f DEF NF_IInv, NF_Loaded, NF_Read
<1>4. sf_instances \in Seq(NF_Loaded) /\ Len(sf_instances) \in Nat
  BY DEF NF_IInv
<1>5. sf_instances' \in Seq(NF_Loaded) /\ Len(sf_instances') = Len(sf_instances) + 1
  BY <1>1, <1>f, <1>3, <1>4, AppendProperties
<1>6. /\ sf_thread' \in [FeatureThreads -> [at : {"idle", "new", "assign", "use"}, own : Nat]]
      /\ sf_thread'[t].at = "assign" /\ sf_thread'[t].own = Len(sf_instances) + 1
      /\ \A u \in FeatureThreads : u # t => sf_thread'[u] = sf_thread[u]
  <2>1. PICK own \in Nat : own = Len(sf_instances) + 1
    BY <1>4
  <2>2. sf_thread' = [sf_thread EXCEPT ![t] = [at |-> "assign", own |-> own]]
    BY <1>2, <2>1
  <2> QED BY <2>1, <2>2, NF_Thread
<1>7. sf_instance' \in 0 .. Len(sf_instances')
  BY <1>2, <1>4, <1>5 DEF NF_IInv
<1>8. ASSUME NEW u \in FeatureThreads, sf_thread'[u].at = "assign"
      PROVE  sf_thread'[u].own \in 1 .. Len(sf_instances')
  <2>1. CASE u = t
    BY <1>4, <1>5, <1>6, <2>1
  <2>2. CASE u # t
    <3>1. sf_thread[u].own \in 1 .. Len(sf_instances) /\ sf_thread'[u] = sf_thread[u]
      BY <1>6, <1>8, <2>2 DEF NF_IInv
    <3> QED BY <1>4, <1>5, <3>1
  <2> QED BY <2>1, <2>2
<1>9. \A u \in FeatureThreads : sf_thread'[u].at = "use" => sf_instance' # 0
  BY <1>2, <1>6 DEF NF_IInv
<1> QED BY <1>2, <1>5, <1>6, <1>7, <1>8, <1>9 DEF NF_IInv

LEMMA NF_Assign == ASSUME NF_IInv, NEW t \in FeatureThreads, SF!Assign(t) PROVE NF_IInv'
<1>1. /\ sf_thread[t].at = "assign" /\ sf_instance' = sf_thread[t].own /\ sf_document' = sf_document /\ sf_instances' = sf_instances
      /\ sf_thread' = [sf_thread EXCEPT ![t].at = "use"]
  BY DEF SF!Assign
<1>2. sf_instance' \in 1 .. Len(sf_instances) /\ Len(sf_instances) \in Nat
  BY <1>1 DEF NF_IInv
<1>3. /\ sf_thread' \in [FeatureThreads -> [at : {"idle", "new", "assign", "use"}, own : Nat]]
      /\ sf_thread'[t].at = "use" /\ sf_thread'[t].own = sf_thread[t].own
      /\ \A u \in FeatureThreads : u # t => sf_thread'[u] = sf_thread[u]
  <2>1. PICK own \in Nat : own = sf_thread[t].own /\ sf_thread' = [sf_thread EXCEPT ![t] = [at |-> "use", own |-> own]]
    BY <1>1, NF_At
  <2>2. "use" \in {"idle", "new", "assign", "use"}
    OBVIOUS
  <2> QED BY <2>1, <2>2, NF_Thread
<1>4. sf_instance' \in 0 .. Len(sf_instances) /\ sf_instance' # 0
  BY <1>2
<1> QED BY <1>1, <1>3, <1>4 DEF NF_IInv

LEMMA NF_Ask == ASSUME NF_IInv, NEW t \in FeatureThreads, NEW tag, SF!Ask(t, tag) PROVE NF_IInv'
<1>1. /\ sf_instance' = sf_instance /\ sf_document' = sf_document /\ sf_instances' = sf_instances
      /\ sf_thread' = [sf_thread EXCEPT ![t].at = "idle"]
  BY DEF SF!Ask
<1>2. /\ sf_thread' \in [FeatureThreads -> [at : {"idle", "new", "assign", "use"}, own : Nat]]
      /\ sf_thread'[t].at = "idle" /\ sf_thread'[t].own = sf_thread[t].own
      /\ \A u \in FeatureThreads : u # t => sf_thread'[u] = sf_thread[u]
  <2>1. PICK own \in Nat : own = sf_thread[t].own /\ sf_thread' = [sf_thread EXCEPT ![t] = [at |-> "idle", own |-> own]]
    BY <1>1, NF_At
  <2>2. "idle" \in {"idle", "new", "assign", "use"}
    OBVIOUS
  <2> QED BY <2>1, <2>2, NF_Thread
<1> QED BY <1>1, <1>2 DEF NF_IInv

(* As long as no reading has failed, every instance holds what one reading of *)
(* the whole file gives, and so does every answer. *)
NF_Whole == SF!_loadFeature(sf_document)
NF_Reply(f, a) ==
    /\ a.enabled = SF!getEnableStatus(f, a.tag, a.default)
    /\ a.string = SF!getString(f, a.tag, a.default)
    /\ a.integer = SF!getInteger(f, a.tag, a.default)
NF_Agree ==
    ~sf_cut => /\ \A i \in 1 .. Len(sf_instances) : sf_instances[i] = NF_Whole
               /\ \A a \in sf_answers : NF_Reply(NF_Whole, a)

LEMMA NF_All ==
    ASSUME NEW d \in FeatureFiles, NEW n \in {Len(d), Len(d) \div 2}, ~(n < Len(d))
    PROVE  SubSeq(d, 1, n) = d
<1>s. PICK S : d \in Seq(S)
  BY FeaturesAssumption
<1>1. Len(d) \in Nat
  BY <1>s
<1>2. Len(d) \div 2 \in Nat /\ (Len(d) \div 2 < Len(d) \/ Len(d) = 0)
  BY <1>1
<1>3. Len(d) = 0 => Len(d) \div 2 = 0
  OBVIOUS
<1>4. n = Len(d)
  BY <1>1, <1>2, <1>3
<1>q. PICK q : q = SubSeq(d, 1, Len(d))
  OBVIOUS
<1>5. q \in Seq(S) /\ Len(q) = Len(d) /\ \A i \in 1 .. Len(d) : q[i] = d[i]
  BY <1>1, <1>s, <1>q, SubSeqProperties
<1>6. q = d
  BY <1>s, <1>5, SeqEqual
<1> QED BY <1>4, <1>6, <1>q

LEMMA NF_AgreeStarts == SF!Init => NF_Agree
<1> SUFFICES ASSUME SF!Init PROVE NF_Agree
  OBVIOUS
<1>1. sf_instances = <<>> /\ sf_answers = {}
  BY DEF SF!Init
<1>2. 1 .. Len(sf_instances) = {}
  BY <1>1
<1> QED BY <1>1, <1>2 DEF NF_Agree

LEMMA NF_AgreeKept == ASSUME NF_IInv, NF_Agree, [SF!Next]_SF!vars PROVE NF_Agree'
<1>1. ASSUME UNCHANGED <<sf_document, sf_instances, sf_answers, sf_cut>> PROVE NF_Agree'
  BY <1>1 DEF NF_Agree, NF_Whole
<1>2. ASSUME NEW t \in FeatureThreads, SF!New(t) PROVE NF_Agree'
  <2>1. PICK n \in {Len(sf_document), Len(sf_document) \div 2} :
          /\ sf_instances' = Append(sf_instances, SF!_loadFeature(SubSeq(sf_document, 1, n)))
          /\ sf_cut' = (sf_cut \/ n < Len(sf_document))
    BY <1>2 DEF SF!New
  <2>2. sf_document' = sf_document /\ sf_answers' = sf_answers /\ sf_document \in FeatureFiles
    BY <1>2 DEF SF!New, NF_IInv
  <2>3. ASSUME ~sf_cut' PROVE /\ \A i \in 1 .. Len(sf_instances') : sf_instances'[i] = NF_Whole'
                              /\ \A a \in sf_answers' : NF_Reply(NF_Whole', a)
    <3>1. ~sf_cut /\ ~(n < Len(sf_document))
      BY <2>1, <2>3
    <3>2. SubSeq(sf_document, 1, n) = sf_document
      BY <2>2, <3>1, NF_All
    <3>f. PICK f : f = NF_Whole
      OBVIOUS
    <3>3. sf_instances' = Append(sf_instances, f) /\ NF_Whole' = f
      BY <2>1, <2>2, <3>2, <3>f DEF NF_Whole
    <3>4. sf_instances \in Seq(NF_Loaded) /\ Len(sf_instances) \in Nat
      BY DEF NF_IInv
    <3>5. Len(sf_instances') = Len(sf_instances) + 1 /\ sf_instances'[Len(sf_instances) + 1] = f
          /\ \A i \in 1 .. Len(sf_instances) : sf_instances'[i] = sf_instances[i]
      <4>1. PICK S : S = NF_Loaded \cup {f}
        OBVIOUS
      <4>2. sf_instances \in Seq(S) /\ f \in S
        BY <3>4, <4>1
      <4> QED BY <3>3, <4>2, AppendProperties
    <3>6. \A i \in 1 .. Len(sf_instances) : sf_instances[i] = f
      BY <3>1, <3>f DEF NF_Agree
    <3>7. ASSUME NEW i \in 1 .. Len(sf_instances') PROVE sf_instances'[i] = f
      <4>1. i = Len(sf_instances) + 1 \/ i \in 1 .. Len(sf_instances)
        BY <3>4, <3>5
      <4> QED BY <3>5, <3>6, <4>1
    <3>8. \A a \in sf_answers' : NF_Reply(f, a)
      BY <2>2, <3>1, <3>f DEF NF_Agree
    <3> QED BY <3>3, <3>7, <3>8
  <2> QED BY <2>3 DEF NF_Agree, NF_Reply, SF!getEnableStatus, SF!getString, SF!getInteger
<1>3. ASSUME NEW t \in FeatureThreads, NEW tag, SF!Ask(t, tag) PROVE NF_Agree'
  <2>1. UNCHANGED <<sf_document, sf_instances, sf_cut>>
    BY <1>3 DEF SF!Ask
  <2>2. PICK default :
          sf_answers' = sf_answers \cup
            {[tag |-> tag, default |-> default, enabled |-> SF!getEnableStatus(sf_instances[sf_instance], tag, default),
              string |-> SF!getString(sf_instances[sf_instance], tag, default),
              integer |-> SF!getInteger(sf_instances[sf_instance], tag, default)]}
    BY <1>3, Zenon DEF SF!Ask
  <2>3. sf_instance \in 1 .. Len(sf_instances)
    <3>1. sf_thread[t].at = "use"
      BY <1>3 DEF SF!Ask
    <3>2. Len(sf_instances) \in Nat /\ sf_instance \in 0 .. Len(sf_instances) /\ sf_instance # 0
      BY <3>1 DEF NF_IInv
    <3> QED BY <3>2
  <2>f. PICK f : f = sf_instances[sf_instance]
    OBVIOUS
  <2>a. PICK b : b = [tag |-> tag, default |-> default, enabled |-> SF!getEnableStatus(f, tag, default),
                      string |-> SF!getString(f, tag, default), integer |-> SF!getInteger(f, tag, default)]
    OBVIOUS
  <2>4. NF_Reply(f, b)
    <3>1. /\ b.tag = tag /\ b.default = default /\ b.enabled = SF!getEnableStatus(f, tag, default)
          /\ b.string = SF!getString(f, tag, default) /\ b.integer = SF!getInteger(f, tag, default)
      BY <2>a
    <3> QED BY <3>1 DEF NF_Reply
  <2>5. sf_answers' = sf_answers \cup {b}
    BY <2>2, <2>f, <2>a
  <2>6. ASSUME ~sf_cut PROVE \A a \in sf_answers' : NF_Reply(NF_Whole, a)
    <3>1. f = NF_Whole /\ \A a \in sf_answers : NF_Reply(NF_Whole, a)
      BY <2>3, <2>6, <2>f DEF NF_Agree
    <3> QED BY <2>4, <2>5, <3>1
  <2>7. NF_Whole' = NF_Whole
    BY <2>1 DEF NF_Whole
  <2> QED BY <2>1, <2>6, <2>7 DEF NF_Agree, NF_Reply, SF!getEnableStatus, SF!getString, SF!getInteger
<1>4. ASSUME NEW t \in FeatureThreads, SF!getInstance(t) \/ SF!Assign(t) PROVE NF_Agree'
  BY <1>1, <1>4 DEF SF!getInstance, SF!Assign
<1>5. CASE UNCHANGED SF!vars
  BY <1>1, <1>5 DEF SF!vars
<1> QED BY <1>2, <1>3, <1>4, <1>5 DEF SF!Next

(* SecNativeFeature::getInstance, which takes no lock: however many threads find *)
(* _instance NULL and create one each, a thread that asks has an instance that   *)
(* is loaded, and as long as the file can be read all of them answer as one      *)
(* reading of it does, for any threads and files. *)
THEOREM Instances == SF!Spec => [](SF!InstanceThere /\ SF!AnswersAgree)
<1>1. SF!Init => NF_IInv
  BY NF_Init
<1>2. NF_IInv /\ [SF!Next]_SF!vars => NF_IInv'
  <2> SUFFICES ASSUME NF_IInv, [SF!Next]_SF!vars PROVE NF_IInv'
    OBVIOUS
  <2>1. CASE UNCHANGED SF!vars
    BY <2>1 DEF NF_IInv, SF!vars
  <2>2. CASE SF!Next
    BY <2>2, NF_getInstance, NF_New, NF_Assign, NF_Ask DEF SF!Next
  <2> QED BY <2>1, <2>2
<1>3. NF_IInv => SF!InstanceThere
  <2> SUFFICES ASSUME NF_IInv, NEW t \in FeatureThreads, sf_thread[t].at = "use" PROVE sf_instance \in DOMAIN sf_instances
    BY DEF SF!InstanceThere
  <2>1. sf_instance # 0 /\ sf_instance \in 0 .. Len(sf_instances) /\ DOMAIN sf_instances = 1 .. Len(sf_instances) /\ Len(sf_instances) \in Nat
    BY DEF NF_IInv
  <2> QED BY <2>1
<1>4. NF_Agree => SF!AnswersAgree
  BY DEF NF_Agree, NF_Reply, NF_Whole, SF!AnswersAgree
<1> QED BY <1>1, <1>2, <1>3, <1>4, NF_AgreeStarts, NF_AgreeKept, PTL DEF SF!Spec
=============================================================================
