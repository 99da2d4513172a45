----------------------------- MODULE GnssProofs -----------------------------
(***************************************************************************)
(* What Gnss promises, proved for any number of framework processes, any   *)
(* values the libraries report, any device and any number of calls and     *)
(* callbacks: the callback pointers (PointersInv), what a registered       *)
(* process knows and holds (ClientServed) and the end of the sessions when *)
(* the framework dies (QuietAfterDeath).  Then the conversions of the      *)
(* callbacks' arguments (GnssConvert), for every list, flag word, clock    *)
(* and batch: ConversionsKept.                                             *)
(***************************************************************************)
EXTENDS Gnss, Data, SequenceTheorems, FiniteSetTheorems, WellFoundedInduction, TLAPS

Values == Capabilities \cup Years \cup {0}
HalStates == {"closed", "open", "started"}
Waking == {"update", "acquire", "release"}
Kinds == {"none", "event", "caps", "year", "save"} \cup Waking
Stopped == {"gnss", "measurement", "navigation", "batching"}

(* The types of the threads, and what a callback carries. *)
Carried ==
    /\ binder \in [pc : {"idle", "resend", "init", "forget"}, who : Clients \cup {None}, info : [Infos -> Values]]
    /\ thread \in [Threads -> [kind : Kinds, of : Interfaces \cup Infos, value : Values]]
    /\ \A t \in Threads :
         /\ thread[t].kind \in {"caps", "year"} \cup Waking => thread[t].of = "gnss"
         /\ thread[t].kind = "event" => thread[t].of \in Interfaces
         /\ thread[t].kind = "save" => thread[t].of \in Infos
    /\ thread["flp"].kind \notin Infos \cup {"save"}

(* A thread that is about to use a pointer has seen it, or the pointer was   *)
(* changed under it. *)
Looked ==
    /\ \A t \in Threads :
         thread[t].kind \in {"event", "caps", "year", "acquire", "release"} /\ cb[thread[t].of] = None
           => thread[t].of \in late
    /\ NullOnlyIfLate

(* The pointer of the main interface is the one of the process that runs, or *)
(* of the one that has died and whose notice is not worked off. *)
Registration ==
    /\ linked = cb["gnss"]
    /\ linked # None => linked = client.id
    /\ client.alive => ~notice /\ binder.pc # "forget"
    /\ ~client.alive /\ linked # None => notice \/ binder.pc = "forget"
    /\ binder.pc = "resend" => cb["gnss"] = client.id
    /\ binder.pc \in {"resend", "init"} => device.iface

(* The library's side of a dead process is closed before it is forgotten. *)
Ended ==
    /\ ~device.iface => hal["gnss"] = "closed"
    /\ binder.pc = "forget" => \A i \in Stopped : hal[i] = "closed"

(* What the processes were told, against what is cached. *)
Info ==
    /\ \A c \in Clients : c > client.id => \A i \in Infos : told[c][i] = 0
    /\ client.alive /\ cb["gnss"] # client.id => \A i \in Infos : told[client.id][i] = 0
    /\ "info" \notin late /\ binder.pc = "resend" =>
         /\ thread["gps"].kind \notin Infos \cup {"save"}
         /\ \A i \in Infos : binder.info[i] = cached[i] /\ (cached[i] = 0 => told[client.id][i] = 0)
    /\ "info" \notin late /\ binder.pc # "resend" /\ cb["gnss"] = client.id =>
         \A i \in Infos : told[client.id][i] = IF thread["gps"].kind = "save" /\ thread["gps"].of = i
                                               THEN thread["gps"].value ELSE cached[i]

(* What the processes hold, against the flags of the libraries. *)
Wakelocks ==
    /\ \A c \in Clients : c > client.id => ~lock[c]
    /\ client.alive /\ cb["gnss"] # client.id => ~lock[client.id]
    /\ ~excused /\ ~crashed =>
         /\ \A t, u \in Threads : thread[t].kind \in Waking /\ thread[u].kind \in Waking => t = u
         /\ cb["gnss"] = client.id => (lock[client.id] <=> wl.held)
         /\ cb["gnss"] # client.id => ~wl.held
         /\ (\A t \in Threads : thread[t].kind \notin Waking) => (wl.held <=> wl.gnss \/ wl.fused)
         /\ \A t \in Threads : thread[t].kind = "acquire" => wl.gnss \/ wl.fused
         /\ \A t \in Threads : thread[t].kind = "release" => ~(wl.gnss \/ wl.fused)

IInv == TypeOK /\ Carried /\ Looked /\ Registration /\ Ended /\ Info /\ Wakelocks

-----------------------------------------------------------------------------
(* The steps, with what they do to the libraries summed up. *)

(* A call of the framework that neither opens an interface nor touches       *)
(* anything but the library's side. *)
HalMoved ==
    /\ Called
    /\ hal' \in [Interfaces -> HalStates]
    /\ \A i \in Interfaces : hal[i] = "closed" => hal'[i] = "closed"
    /\ UNCHANGED <<device, objects, cb, cached, told, wl, lock, supports, client, linked, notice, binder, thread,
                   crashed, excused, late>>

(* A step that leaves pointers, processes, threads and values alone. *)
Plain == UNCHANGED <<device, cb, cached, told, wl, lock, client, linked, notice, binder, thread, crashed, excused, late>>

(* Every function of the vendor libraries a method only forwards to leaves   *)
(* the session of its interface as it is. *)
LEMMA Forwarded ==
    ASSUME NEW i \in Extensions \cup {"gnss"}, NEW f \in Functions(i)
    PROVE  Library(i)[f] = Nothing
<1>1. CASE i = "gnss"
  <2>1. /\ GpsInterface["inject_location"] = Nothing /\ GpsInterface["inject_time"] = Nothing
        /\ GpsInterface["delete_aiding_data"] = Nothing /\ GpsInterface["set_position_mode"] = Nothing
    BY DEF GpsInterface
  <2>2. Library(i) = GpsInterface /\ f \in GnssCalls
    BY <1>1 DEF Library, Functions
  <2> QED BY <2>1, <2>2 DEF GnssCalls
<1>2. CASE i = "ril"
  <2>1. /\ AGpsRilInterface["set_ref_location"] = Nothing /\ AGpsRilInterface["set_set_id"] = Nothing
        /\ AGpsRilInterface["update_network_state"] = Nothing /\ AGpsRilInterface["update_network_availability"] = Nothing
    BY DEF AGpsRilInterface
  <2>2. Library(i) = AGpsRilInterface /\ f \in AGnssRilCalls
    BY <1>2 DEF Library, Functions
  <2> QED BY <2>1, <2>2 DEF AGnssRilCalls
<1>3. CASE i = "agnss"
  <2>1. /\ AGpsInterface["data_conn_closed"] = Nothing /\ AGpsInterface["data_conn_failed"] = Nothing
        /\ AGpsInterface["set_server"] = Nothing /\ AGpsInterface["data_conn_open_with_apn_ip_type"] = Nothing
    BY DEF AGpsInterface
  <2>2. Library(i) = AGpsInterface /\ f \in AGnssCalls
    BY <1>3 DEF Library, Functions
  <2> QED BY <2>1, <2>2 DEF AGnssCalls
<1>4. CASE i = "geofencing"
  <2>1. /\ GpsGeofencingInterface["add_geofence_area"] = Nothing /\ GpsGeofencingInterface["pause_geofence"] = Nothing
        /\ GpsGeofencingInterface["resume_geofence"] = Nothing /\ GpsGeofencingInterface["remove_geofence_area"] = Nothing
    BY DEF GpsGeofencingInterface
  <2>2. Library(i) = GpsGeofencingInterface /\ f \in GnssGeofencingCalls
    BY <1>4 DEF Library, Functions
  <2> QED BY <2>1, <2>2 DEF GnssGeofencingCalls
<1>5. CASE i = "ni"
  <2>1. GpsNiInterface["respond"] = Nothing
    BY DEF GpsNiInterface
  <2>2. Library(i) = GpsNiInterface /\ f \in GnssNiCalls
    BY <1>5 DEF Library, Functions
  <2> QED BY <2>1, <2>2 DEF GnssNiCalls
<1>6. CASE i = "xtra"
  <2>1. GpsXtraInterface["inject_xtra_data"] = Nothing
    BY DEF GpsXtraInterface
  <2>2. Library(i) = GpsXtraInterface /\ f \in GnssXtraCalls
    BY <1>6 DEF Library, Functions
  <2> QED BY <2>1, <2>2 DEF GnssXtraCalls
<1>7. CASE i = "configuration"
  <2>1. GnssConfigurationInterface["configuration_update"] = Nothing
    BY DEF GnssConfigurationInterface
  <2>2. Library(i) = GnssConfigurationInterface /\ f \in GnssConfigurationCalls
    BY <1>7 DEF Library, Functions
  <2> QED BY <2>1, <2>2 DEF GnssConfigurationCalls
<1>8. CASE i = "debug"
  <2>1. GpsDebugInterface["get_internal_state"] = Nothing
    BY DEF GpsDebugInterface
  <2>2. Library(i) = GpsDebugInterface /\ f \in GnssDebugCalls
    BY <1>8 DEF Library, Functions
  <2> QED BY <2>1, <2>2 DEF GnssDebugCalls
<1>9. CASE i = "batching"
  <2>1. FlpLocationInterface["get_batch_size"] = Nothing /\ FlpLocationInterface["flush_batched_locations"] = Nothing
    BY DEF FlpLocationInterface
  <2>2. Library(i) = FlpLocationInterface /\ f \in GnssBatchingCalls
    BY <1>9 DEF Library, Functions
  <2> QED BY <2>1, <2>2 DEF GnssBatchingCalls
<1>10. CASE i \in {"measurement", "navigation"}
  BY <1>10 DEF Functions
<1> QED BY <1>1, <1>2, <1>3, <1>4, <1>5, <1>6, <1>7, <1>8, <1>9, <1>10 DEF Extensions

(* No effect but init's opens a closed session. *)
LEMMA StaysClosed ==
    ASSUME NEW h \in HalStates, NEW e \in {Nothing, Starts, Stops, Closes}
    PROVE  After(h, e) \in HalStates /\ (h = "closed" => After(h, e) = "closed")
BY DEF HalStates, Nothing, Starts, Stops, Closes, After

LEMMA Opened ==
    ASSUME NEW h \in HalStates
    PROVE  After(h, Opens) \in HalStates
BY DEF HalStates, Opens, After

(* init() of every interface that has callbacks opens its session. *)
LEMMA InitOpens ==
    ASSUME NEW e \in Interfaces
    PROVE  Library(e).init = Opens
BY DEF Library, Interfaces, GpsInterface, AGpsRilInterface, AGpsInterface, GpsGeofencingInterface, GpsNiInterface,
       GpsXtraInterface, GpsMeasurementInterface, GpsNavigationMessageInterface, FlpLocationInterface

LEMMA HalCallMoves ==
    ASSUME TypeOK, NEW i, NEW f, HalCall(i, f), Library(i)[f] \in {Nothing, Starts, Stops, Closes}
    PROVE  HalMoved
<1>1. \A j \in Interfaces : hal[j] \in HalStates
  BY DEF TypeOK, HalStates
<1>2. CASE i \in Interfaces
  <2>1. hal' = [hal EXCEPT ![i] = After(hal[i], Library(i)[f])]
    BY <1>2 DEF HalCall
  <2>2. After(hal[i], Library(i)[f]) \in HalStates /\ (hal[i] = "closed" => After(hal[i], Library(i)[f]) = "closed")
    BY <1>1, <1>2, StaysClosed
  <2>3. hal \in [Interfaces -> HalStates]
    BY DEF TypeOK, HalStates
  <2>4. /\ hal' \in [Interfaces -> HalStates]
        /\ \A j \in Interfaces : hal[j] = "closed" => hal'[j] = "closed"
    BY <1>2, <2>1, <2>2, <2>3
  <2> QED BY <2>4 DEF HalCall, HalMoved
<1>3. CASE i \notin Interfaces
  <2>1. hal' = hal
    BY <1>3 DEF HalCall
  <2> QED BY <2>1 DEF HalCall, HalMoved, TypeOK, HalStates
<1> QED BY <1>2, <1>3

LEMMA HalCallsMove ==
    ASSUME TypeOK, HalCalls
    PROVE  HalMoved
<1>1. CASE \E i \in Extensions \cup {"gnss"} : Forward(i)
  <2>1. PICK i \in Extensions \cup {"gnss"} : \E f \in Functions(i) : HalCall(i, f)
    BY <1>1 DEF Forward
  <2>2. PICK f \in Functions(i) : HalCall(i, f)
    BY <2>1
  <2> QED BY <2>2, Forwarded, HalCallMoves
<1>2. /\ Library("gnss")["start"] = Starts /\ Library("gnss")["stop"] = Stops /\ Library("gnss")["cleanup"] = Closes
      /\ Library("measurement")["close"] = Closes /\ Library("navigation")["close"] = Closes
      /\ Library("batching")["start_batching"] = Starts /\ Library("batching")["stop_batching"] = Stops
      /\ Library("batching")["cleanup"] = Closes
  BY DEF Library, GpsInterface, GpsMeasurementInterface, GpsNavigationMessageInterface, FlpLocationInterface
<1>3. CASE start
  BY <1>2, <1>3, HalCallMoves DEF start
<1>4. CASE stop
  BY <1>2, <1>4, HalCallMoves DEF stop
<1>5. CASE cleanup
  BY <1>2, <1>5, HalCallMoves DEF cleanup
<1>6. CASE GnssMeasurement_close
  BY <1>2, <1>6, HalCallMoves DEF GnssMeasurement_close
<1>7. CASE GnssNavigationMessage_close
  BY <1>2, <1>7, HalCallMoves DEF GnssNavigationMessage_close
<1>8. CASE GnssBatching_start
  BY <1>2, <1>8, HalCallMoves DEF GnssBatching_start
<1>9. CASE GnssBatching_stop
  BY <1>2, <1>9, HalCallMoves DEF GnssBatching_stop
<1>10. CASE GnssBatching_cleanup
  BY <1>2, <1>10, HalCallMoves DEF GnssBatching_cleanup
<1> QED BY <1>1, <1>3, <1>4, <1>5, <1>6, <1>7, <1>8, <1>9, <1>10 DEF HalCalls

(* The steps of the service. *)
LEMMA Cases ==
    ASSUME TypeOK, Next
    PROVE  \/ \E e \in Extensions : getExtension(e)
           \/ \E e \in Interfaces \ {"gnss"} : setExtensionCallback(e)
           \/ HalMoved
           \/ setCallback
           \/ setCallbackResend
           \/ setCallbackInit
           \/ handleHidlDeath
           \/ handleHidlDeathForget
           \/ \E i \in Interfaces : EventBegin(i)
           \/ \E i \in Infos : InfoBegin(i)
           \/ flpCapabilitiesCb
           \/ \E t \in Threads : Use(t)
           \/ \E t \in Threads : Save(t)
           \/ \E t \in Threads : Wakelock(t)
           \/ \E t \in Threads : updateWakelock(t)
           \/ \E t \in Threads : tellWakelock(t)
           \/ ClientDies
           \/ ClientStarts
<1>1. CASE GetExtensions
  <2>1. \E e \in Extensions : getExtension(e)
    BY <1>1 DEF GetExtensions, Extensions, getExtensionAGnssRil, getExtensionGnssConfiguration, getExtensionGnssGeofencing,
                getExtensionAGnss, getExtensionGnssNi, getExtensionGnssMeasurement, getExtensionGnssNavigationMessage,
                getExtensionXtra, getExtensionGnssDebug, getExtensionGnssBatching
  <2> QED BY <2>1
<1>2. CASE SetCallbacks
  <2>1. \E e \in Interfaces \ {"gnss"} : setExtensionCallback(e)
    BY <1>2 DEF SetCallbacks, Interfaces, AGnssRil_setCallback, AGnss_setCallback, GnssGeofencing_setCallback,
                GnssNi_setCallback, GnssXtra_setCallback, GnssMeasurement_setCallback, GnssNavigationMessage_setCallback,
                GnssBatching_init
  <2> QED BY <2>1
<1>3. CASE HalCalls
  BY <1>3, HalCallsMove
<1>4. CASE Libraries
  BY <1>4 DEF Libraries
<1>5. CASE setCallback \/ Binder \/ ClientDies \/ ClientStarts
  BY <1>5 DEF Binder
<1> QED BY <1>1, <1>2, <1>3, <1>4, <1>5 DEF Next, Framework

(* What the three steps that only prepare or forward leave alone. *)
LEMMA PlainSteps ==
    /\ \A e \in Extensions : getExtension(e) => Plain
    /\ HalMoved => Plain
    /\ flpCapabilitiesCb => Plain
BY DEF getExtension, HalMoved, flpCapabilitiesCb, Plain

-----------------------------------------------------------------------------
(* The types. *)

(* The part of the type invariant about the libraries and the extensions. *)
LibraryOK ==
    /\ device \in Implementations /\ objects \subseteq device.implements
    /\ hal \in [Interfaces -> HalStates]
    /\ \A i \in Interfaces \ {"gnss"} : hal[i] # "closed" => i \in objects

(* The part about the pointers, the values and the processes. *)
ValuesOK ==
    /\ cb \in [Interfaces -> Clients \cup {None}] /\ late \subseteq Interfaces \cup {"info"}
    /\ cached \in [Infos -> Values] /\ told \in [Clients -> [Infos -> Values]]
    /\ client \in [id : Clients, alive : BOOLEAN] /\ linked \in Clients \cup {None}

(* The part about the wakelock. *)
LocksOK ==
    /\ wl \in [gnss : BOOLEAN, fused : BOOLEAN, held : BOOLEAN] /\ lock \in [Clients -> BOOLEAN]

(* The flags. *)
FlagsOK == supports \in BOOLEAN /\ notice \in BOOLEAN /\ crashed \in BOOLEAN /\ excused \in BOOLEAN

LEMMA TypeParts ==
    Carried => (TypeOK <=> LibraryOK /\ ValuesOK /\ LocksOK /\ FlagsOK)
<1>1. Carried => /\ binder.pc \in {"idle", "resend", "init", "forget"}
                 /\ \A t \in Threads : thread[t].kind \in Kinds
  BY DEF Carried
<1> QED BY <1>1 DEF TypeOK, LibraryOK, ValuesOK, LocksOK, FlagsOK, HalStates, Values, Kinds, Waking

LEMMA LibraryKeeps ==
    ASSUME TypeOK, Next
    PROVE  LibraryOK'
<1> USE DEF LibraryOK
<1>0. LibraryOK
  BY DEF TypeOK, HalStates
<1>h. \A i \in Interfaces : hal[i] \in HalStates
  BY <1>0
<1>1. CASE \E e \in Extensions : getExtension(e)
  BY <1>0, <1>1 DEF getExtension
<1>2. CASE \E e \in Interfaces \ {"gnss"} : setExtensionCallback(e)
  <2>1. PICK e \in Interfaces \ {"gnss"} : setExtensionCallback(e)
    BY <1>2
  <2>2. e \in objects /\ UNCHANGED <<device, objects>>
        /\ \E ok \in BOOLEAN : hal' = [hal EXCEPT ![e] = IF ok THEN After(hal[e], Library(e).init) ELSE hal[e]]
    BY <2>1 DEF setExtensionCallback
  <2>3. After(hal[e], Library(e).init) \in HalStates
    BY <1>h, InitOpens, Opened
  <2>4. PICK h \in HalStates : hal' = [hal EXCEPT ![e] = h]
    BY <1>h, <2>2, <2>3
  <2> QED BY <1>0, <2>2, <2>4
<1>3. CASE HalMoved
  BY <1>0, <1>3 DEF HalMoved
<1>4. CASE setCallbackInit
  <2>1. PICK ok \in BOOLEAN : hal' = [hal EXCEPT !["gnss"] = IF ok THEN After(hal["gnss"], GpsInterface.init) ELSE hal["gnss"]]
    BY <1>4 DEF setCallbackInit
  <2>2. GpsInterface.init = Opens /\ "gnss" \in Interfaces
    BY DEF GpsInterface, Interfaces
  <2>3. After(hal["gnss"], GpsInterface.init) \in HalStates
    BY <1>h, <2>2, Opened
  <2>4. PICK h \in HalStates : hal' = [hal EXCEPT !["gnss"] = h]
    BY <1>h, <2>1, <2>2, <2>3
  <2>5. UNCHANGED <<device, objects>>
    BY <1>4 DEF setCallbackInit
  <2> QED BY <1>0, <2>2, <2>4, <2>5
<1>5. CASE handleHidlDeath
  BY <1>0, <1>5 DEF handleHidlDeath, Closed, HalStates
<1>6. CASE UNCHANGED <<device, objects, hal>>
  BY <1>0, <1>6
<1>7. (setCallback \/ setCallbackResend \/ handleHidlDeathForget \/ flpCapabilitiesCb \/ ClientDies \/ ClientStarts)
        => UNCHANGED <<device, objects, hal>>
  BY DEF setCallback, setCallbackResend, handleHidlDeathForget, flpCapabilitiesCb, ClientDies, ClientStarts
<1>8. \A i : EventBegin(i) \/ InfoBegin(i) => UNCHANGED <<device, objects, hal>>
  BY DEF EventBegin, InfoBegin
<1>9. \A t : Use(t) \/ Save(t) \/ Wakelock(t) \/ updateWakelock(t) \/ tellWakelock(t) => UNCHANGED <<device, objects, hal>>
  BY DEF Use, Save, Wakelock, updateWakelock, tellWakelock
<1> QED BY <1>1, <1>2, <1>3, <1>4, <1>5, <1>6, <1>7, <1>8, <1>9, Cases

LEMMA FlagsKeep ==
    ASSUME TypeOK, Next
    PROVE  FlagsOK'
<1> USE DEF FlagsOK
<1>0. FlagsOK
  BY DEF TypeOK
<1>1. CASE Plain /\ UNCHANGED supports
  BY <1>0, <1>1 DEF Plain
<1>2. \A e \in Extensions : getExtension(e) => Plain /\ UNCHANGED supports
  BY PlainSteps DEF getExtension
<1>3. HalMoved => Plain /\ UNCHANGED supports
  BY PlainSteps DEF HalMoved
<1>4. CASE flpCapabilitiesCb
  BY <1>0, <1>4 DEF flpCapabilitiesCb
<1>5. CASE \E e \in Interfaces \ {"gnss"} : setExtensionCallback(e)
  BY <1>0, <1>5 DEF setExtensionCallback
<1>6. CASE setCallback \/ setCallbackResend \/ setCallbackInit \/ ClientStarts
  BY <1>0, <1>6 DEF setCallback, setCallbackResend, setCallbackInit, ClientStarts
<1>7. CASE handleHidlDeath
  BY <1>0, <1>7 DEF handleHidlDeath
<1>8. CASE handleHidlDeathForget
  BY <1>0, <1>8, Zenon DEF handleHidlDeathForget
<1>9. CASE ClientDies
  BY <1>0, <1>9, Zenon DEF ClientDies
<1>10. CASE \E i \in Interfaces : EventBegin(i)
  BY <1>0, <1>10 DEF EventBegin
<1>11. CASE \E i \in Infos : InfoBegin(i)
  BY <1>0, <1>11 DEF InfoBegin
<1>12. CASE \E t \in Threads : Use(t)
  BY <1>0, <1>12 DEF Use
<1>13. CASE \E t \in Threads : Save(t)
  BY <1>0, <1>13 DEF Save
<1>14. CASE \E t \in Threads : Wakelock(t)
  BY <1>0, <1>14 DEF Wakelock
<1>15. CASE \E t \in Threads : updateWakelock(t)
  BY <1>0, <1>15 DEF updateWakelock
<1>16. CASE \E t \in Threads : tellWakelock(t)
  BY <1>0, <1>16 DEF tellWakelock
<1> QED BY <1>1, <1>2, <1>3, <1>4, <1>5, <1>6, <1>7, <1>8, <1>9, <1>10, <1>11, <1>12, <1>13, <1>14, <1>15, <1>16, Cases

LEMMA LocksKeep ==
    ASSUME TypeOK, Next
    PROVE  LocksOK'
<1> USE DEF LocksOK
<1>0. LocksOK
  BY DEF TypeOK
<1>1. CASE UNCHANGED <<wl, lock>>
  BY <1>0, <1>1
<1>2. Plain \/ setCallback \/ setCallbackResend \/ setCallbackInit \/ handleHidlDeath \/ handleHidlDeathForget \/ ClientDies
        \/ ClientStarts => UNCHANGED <<wl, lock>>
  BY DEF Plain, setCallback, setCallbackResend, setCallbackInit, handleHidlDeath, handleHidlDeathForget, ClientDies, ClientStarts
<1>3. \A i : setExtensionCallback(i) \/ EventBegin(i) \/ InfoBegin(i) => UNCHANGED <<wl, lock>>
  BY DEF setExtensionCallback, EventBegin, InfoBegin
<1>4. \A t : Use(t) \/ Save(t) \/ updateWakelock(t) => UNCHANGED <<wl, lock>>
  BY DEF Use, Save, updateWakelock
<1>5. CASE \E t \in Threads : Wakelock(t)
  <2>1. PICK t \in Threads, on \in BOOLEAN : wl' = [wl EXCEPT ![Flag(t)] = on] /\ lock' = lock
    BY <1>5 DEF Wakelock
  <2>2. CASE t = "gps"
    BY <1>0, <2>1, <2>2 DEF Flag
  <2>3. CASE t = "flp"
    BY <1>0, <2>1, <2>3 DEF Flag
  <2> QED BY <2>2, <2>3 DEF Threads
<1>6. CASE \E t \in Threads : tellWakelock(t)
  <2>1. PICK t \in Threads : tellWakelock(t)
    BY <1>6
  <2>2. cb["gnss"] \in Clients \cup {None}
    BY DEF TypeOK, Interfaces
  <2>3. PICK on \in BOOLEAN : wl' = [wl EXCEPT !.held = on] /\ (lock' = lock \/ lock' = [lock EXCEPT ![cb["gnss"]] = on])
    BY <2>1 DEF tellWakelock
  <2> QED BY <1>0, <2>2, <2>3
<1> QED BY <1>1, <1>2, <1>3, <1>4, <1>5, <1>6, Cases, PlainSteps

(* A callback the framework is told of: what the thread carries. *)
LEMMA ThreadTypes ==
    ASSUME Carried, NEW t \in Threads
    PROVE  /\ thread[t].kind \in Kinds /\ thread[t].of \in Interfaces \cup Infos /\ thread[t].value \in Values
           /\ thread[t] \in [kind : Kinds, of : Interfaces \cup Infos, value : Values]
           /\ thread[t].kind \in Infos => thread[t].of = "gnss"
           /\ thread[t].kind \in Infos \cup {"save"} => t = "gps"
BY DEF Carried, Threads, Infos

LEMMA ValuesKeep ==
    ASSUME TypeOK, Carried, Next
    PROVE  ValuesOK'
<1>0. ValuesOK
  BY DEF TypeOK, ValuesOK, Values
<1>c. client.id \in Clients /\ "gnss" \in Interfaces /\ cb["gnss"] \in Clients \cup {None} /\ None \notin Clients
  BY <1>0, ClientAssumption DEF ValuesOK, Interfaces, None
<1> USE DEF ValuesOK
<1>1. CASE UNCHANGED <<cb, late, cached, told, client, linked>>
  BY <1>0, <1>1
<1>2. Plain \/ setCallbackInit \/ handleHidlDeath => UNCHANGED <<cb, late, cached, told, client, linked>>
  BY DEF Plain, setCallbackInit, handleHidlDeath
<1>3. \A i : EventBegin(i) => UNCHANGED <<cb, late, cached, told, client, linked>>
  BY DEF EventBegin
<1>4. \A t : Wakelock(t) \/ updateWakelock(t) \/ tellWakelock(t) => UNCHANGED <<cb, late, cached, told, client, linked>>
  BY DEF Wakelock, updateWakelock, tellWakelock
<1>5. CASE \E e \in Interfaces \ {"gnss"} : setExtensionCallback(e)
  BY <1>0, <1>5, <1>c DEF setExtensionCallback
<1>6. CASE setCallback
  BY <1>0, <1>6, <1>c DEF setCallback
<1>7. CASE setCallbackResend
  <2> DEFINE Renewed(f) == [i \in Infos |-> IF i \in {j \in Infos : binder.info[j] # 0} THEN binder.info[i] ELSE f[i]]
  <2>1. binder.info \in [Infos -> Values]
    BY DEF Carried
  <2>2. \A f \in [Infos -> Values] : Renewed(f) \in [Infos -> Values]
    BY <2>1
  <2>3. cached' = Renewed(cached) /\ told' = [told EXCEPT ![cb["gnss"]] = Renewed(told[cb["gnss"]])]
        /\ UNCHANGED <<cb, late, client, linked>>
    BY <1>7 DEF setCallbackResend
  <2> HIDE DEF Renewed
  <2>4. cached' \in [Infos -> Values]
    BY <1>0, <2>2, <2>3
  <2>5. told' \in [Clients -> [Infos -> Values]]
    <3>1. CASE cb["gnss"] \in Clients
      <4>1. Renewed(told[cb["gnss"]]) \in [Infos -> Values]
        BY <1>0, <2>2, <3>1
      <4> QED BY <1>0, <2>3, <3>1, <4>1
    <3>2. CASE cb["gnss"] \notin Clients
      BY <1>0, <2>3, <3>2
    <3> QED BY <3>1, <3>2
  <2> QED BY <1>0, <2>3, <2>4, <2>5
<1>8. CASE handleHidlDeathForget
  BY <1>0, <1>8, <1>c DEF handleHidlDeathForget
<1>9. CASE \E i \in Infos : InfoBegin(i)
  BY <1>0, <1>9 DEF InfoBegin
<1>10. CASE \E t \in Threads : Use(t)
  <2>1. PICK t \in Threads : Use(t)
    BY <1>10
  <2>2. UNCHANGED <<cb, late, cached, client, linked>>
    BY <2>1 DEF Use
  <2>3. told' \in [Clients -> [Infos -> Values]]
    <3>1. CASE told' = told
      BY <1>0, <3>1
    <3>2. CASE told' # told
      <4> DEFINE c == cb[thread[t].of]
                 i == thread[t].kind
      <4>1. c # None /\ told' = [told EXCEPT ![c][i] = thread[t].value] /\ i \in Infos
        BY <2>1, <3>2 DEF Use, Infos
      <4>2. c \in Clients /\ thread[t].value \in Values
        BY <1>c, <4>1, ThreadTypes
      <4> HIDE DEF c, i
      <4> QED BY <1>0, <4>1, <4>2
    <3> QED BY <3>1, <3>2
  <2> QED BY <1>0, <2>2, <2>3
<1>11. CASE \E t \in Threads : Save(t)
  <2>1. PICK t \in Threads : Save(t)
    BY <1>11
  <2>2. thread[t].of \in Infos /\ thread[t].value \in Values
    BY <2>1, ThreadTypes DEF Carried, Save
  <2> QED BY <1>0, <2>1, <2>2 DEF Save
<1>12. CASE ClientDies
  BY <1>0, <1>12 DEF ClientDies
<1>13. CASE ClientStarts
  BY <1>0, <1>13 DEF ClientStarts
<1> QED BY <1>1, <1>2, <1>3, <1>4, <1>5, <1>6, <1>7, <1>8, <1>9, <1>10, <1>11, <1>12, <1>13, Cases, PlainSteps

-----------------------------------------------------------------------------
(* What the threads carry. *)
LEMMA CarriedKeeps ==
    ASSUME TypeOK, Carried, Next
    PROVE  Carried'
<1>n. "gnss" \in Interfaces /\ 0 \in Values /\ None \in Clients \cup {None} /\ Infos = {"caps", "year"} /\ Threads = {"gps", "flp"}
  BY DEF Interfaces, Values, Infos, Threads
<1>i. \A i \in Infos : i \in {"caps", "year"} /\ i \in Kinds /\ i \notin Waking
  BY DEF Infos, Kinds, Waking
<1>1. CASE UNCHANGED <<binder, thread>>
  BY <1>1 DEF Carried
<1>2. Plain \/ ClientDies \/ ClientStarts => UNCHANGED <<binder, thread>>
  BY DEF Plain, ClientDies, ClientStarts
<1>3. \A e : setExtensionCallback(e) => UNCHANGED <<binder, thread>>
  BY DEF setExtensionCallback
<1>4. Idle \in [pc : {"idle", "resend", "init", "forget"}, who : Clients \cup {None}, info : [Infos -> Values]]
  BY <1>n DEF Idle
<1>5. CASE /\ binder' \in [pc : {"idle", "resend", "init", "forget"}, who : Clients \cup {None}, info : [Infos -> Values]]
           /\ UNCHANGED thread
  BY <1>5 DEF Carried
<1>6. CASE setCallback
  BY <1>5, <1>6 DEF setCallback, TypeOK, Values
<1>7. CASE setCallbackResend
  BY <1>5, <1>7 DEF setCallbackResend, Carried
<1>8. CASE setCallbackInit \/ handleHidlDeathForget
  BY <1>4, <1>5, <1>8 DEF setCallbackInit, handleHidlDeathForget
<1>9. CASE handleHidlDeath
  BY <1>4, <1>5, <1>9 DEF handleHidlDeath
<1>10. ASSUME NEW t \in Threads, NEW k \in [kind : Kinds, of : Interfaces \cup Infos, value : Values],
              UNCHANGED binder, thread' = [thread EXCEPT ![t] = k],
              k.kind \in Infos \cup Waking => k.of = "gnss",
              k.kind = "event" => k.of \in Interfaces,
              k.kind = "save" => k.of \in Infos,
              t = "flp" => k.kind \notin Infos \cup {"save"}
       PROVE  Carried'
  <2>1. thread' \in [Threads -> [kind : Kinds, of : Interfaces \cup Infos, value : Values]]
    BY <1>10 DEF Carried
  <2>2. \A u \in Threads : thread'[u] = IF u = t THEN k ELSE thread[u]
    BY <1>10 DEF Carried
  <2>3. \A u \in Threads :
          /\ thread'[u].kind \in {"caps", "year"} \cup Waking => thread'[u].of = "gnss"
          /\ thread'[u].kind = "event" => thread'[u].of \in Interfaces
          /\ thread'[u].kind = "save" => thread'[u].of \in Infos
    BY <1>10, <2>2, <1>n DEF Carried
  <2>4. thread'["flp"].kind \notin Infos \cup {"save"}
    BY <1>10, <2>2, <1>n DEF Carried
  <2> QED BY <1>10, <2>1, <2>3, <2>4 DEF Carried
<1>11. Quiet \in [kind : Kinds, of : Interfaces \cup Infos, value : Values]
       /\ Quiet.kind = "none" /\ "none" \notin Infos \cup Waking \cup {"save", "event"}
  BY <1>n DEF Quiet, Kinds, Waking
<1>12. ASSUME NEW t \in Threads, UNCHANGED binder, thread' = [thread EXCEPT ![t] = Quiet]
       PROVE  Carried'
  BY <1>10, <1>11, <1>12
<1>13. CASE \E i \in Interfaces : EventBegin(i)
  <2>1. PICK i \in Interfaces : EventBegin(i)
    BY <1>13
  <2>2. ThreadOf(i) \in Threads
    BY <1>n DEF ThreadOf
  <2>3. CASE thread' = [thread EXCEPT ![ThreadOf(i)] = Quiet]
    BY <1>12, <2>1, <2>2, <2>3 DEF EventBegin
  <2>4. CASE thread' = [thread EXCEPT ![ThreadOf(i)] = [kind |-> "event", of |-> i, value |-> 0]]
    <3> DEFINE k == [kind |-> "event", of |-> i, value |-> 0]
    <3>1. k \in [kind : Kinds, of : Interfaces \cup Infos, value : Values] /\ k.kind = "event" /\ k.of = i
      BY <1>n DEF Kinds
    <3>2. "event" \notin Infos \cup Waking \cup {"save"}
      BY <1>n DEF Waking
    <3>3. UNCHANGED binder
      BY <2>1 DEF EventBegin
    <3> HIDE DEF k
    <3> QED BY <1>10, <2>2, <2>4, <3>1, <3>2, <3>3 DEF k
  <2> QED BY <2>1, <2>3, <2>4 DEF EventBegin
<1>14. CASE \E i \in Infos : InfoBegin(i)
  <2>1. PICK i \in Infos : InfoBegin(i)
    BY <1>14
  <2>2. PICK v \in (IF i = "caps" THEN Capabilities ELSE Years) :
          thread' = [thread EXCEPT !["gps"] = IF cb["gnss"] = None THEN Quiet ELSE [kind |-> i, of |-> "gnss", value |-> v]]
    BY <2>1 DEF InfoBegin
  <2>3. UNCHANGED binder /\ v \in Values /\ "gps" \in Threads
    BY <1>n, <2>1, <2>2 DEF InfoBegin, Values
  <2>4. CASE thread' = [thread EXCEPT !["gps"] = Quiet]
    BY <1>12, <2>3, <2>4
  <2>5. CASE thread' = [thread EXCEPT !["gps"] = [kind |-> i, of |-> "gnss", value |-> v]]
    <3> DEFINE k == [kind |-> i, of |-> "gnss", value |-> v]
    <3>1. k \in [kind : Kinds, of : Interfaces \cup Infos, value : Values] /\ k.kind = i /\ k.of = "gnss"
      BY <1>n, <1>i, <2>3
    <3>2. i # "event" /\ i # "save"
      BY <1>i
    <3> HIDE DEF k
    <3> QED BY <1>10, <2>3, <2>5, <3>1, <3>2 DEF k
  <2> QED BY <2>2, <2>4, <2>5
<1>15. CASE \E t \in Threads : Use(t)
  <2>1. PICK t \in Threads : Use(t)
    BY <1>15
  <2>2. UNCHANGED binder
    BY <2>1 DEF Use
  <2>3. CASE thread[t].kind = "event"
    BY <1>12, <2>1, <2>2, <2>3 DEF Use
  <2>4. CASE thread[t].kind # "event"
    <3> DEFINE k == [thread[t] EXCEPT !.kind = "save", !.of = thread[t].kind]
    <3>1. thread' = [thread EXCEPT ![t] = k] /\ thread[t].kind \in Infos
      BY <1>n, <2>1, <2>4 DEF Use
    <3>2. k \in [kind : Kinds, of : Interfaces \cup Infos, value : Values] /\ k.kind = "save" /\ k.of \in Infos
      BY <3>1, ThreadTypes DEF Kinds
    <3>3. "save" \notin Infos \cup Waking \cup {"event"} /\ t = "gps"
      BY <1>n, <3>1, ThreadTypes DEF Waking
    <3> HIDE DEF k
    <3> QED BY <1>10, <2>2, <3>1, <3>2, <3>3
  <2> QED BY <2>3, <2>4
<1>16. CASE \E t \in Threads : Save(t)
  BY <1>12, <1>16 DEF Save
<1>17. ASSUME NEW t \in Threads, NEW w \in Waking, UNCHANGED binder,
              thread' = [thread EXCEPT ![t] = [kind |-> w, of |-> "gnss", value |-> 0]]
       PROVE  Carried'
  <2> DEFINE k == [kind |-> w, of |-> "gnss", value |-> 0]
  <2>1. k \in [kind : Kinds, of : Interfaces \cup Infos, value : Values] /\ k.kind = w /\ k.of = "gnss"
    BY <1>n DEF Kinds
  <2>2. w \notin Infos \cup {"save", "event"}
    BY <1>n DEF Waking
  <2> HIDE DEF k
  <2> QED BY <1>10, <1>17, <2>1, <2>2 DEF k
<1>18. CASE \E t \in Threads : Wakelock(t)
  BY <1>17, <1>18 DEF Wakelock, Waking
<1>19. CASE \E t \in Threads : updateWakelock(t)
  <2>1. PICK t \in Threads : updateWakelock(t)
    BY <1>19
  <2>2. Wanted(t) \in {"none", "acquire", "release"} /\ UNCHANGED binder
    BY <2>1 DEF Wanted, updateWakelock
  <2>3. CASE thread' = [thread EXCEPT ![t] = Quiet]
    BY <1>12, <2>2, <2>3
  <2>4. CASE Wanted(t) # "none" /\ thread' = [thread EXCEPT ![t] = [kind |-> Wanted(t), of |-> "gnss", value |-> 0]]
    BY <1>17, <2>2, <2>4 DEF Waking
  <2> QED BY <2>1, <2>3, <2>4 DEF updateWakelock
<1>20. CASE \E t \in Threads : tellWakelock(t)
  BY <1>12, <1>20 DEF tellWakelock
<1> QED BY <1>1, <1>2, <1>3, <1>6, <1>7, <1>8, <1>9, <1>13, <1>14, <1>15, <1>16, <1>18, <1>19, <1>20, Cases, PlainSteps

-----------------------------------------------------------------------------
(* The look at the pointer before its use. *)
Using == {"event", "caps", "year", "acquire", "release"}

LEMMA LookedKeeps ==
    ASSUME TypeOK, Carried, Looked, Next
    PROVE  Looked'
<1>0. /\ cb \in [Interfaces -> Clients \cup {None}] /\ client.id \in Clients /\ client.id # None /\ "gnss" \in Interfaces
      /\ "none" \notin Using /\ "save" \notin Using /\ "update" \notin Using /\ Quiet.kind = "none"
  BY ClientAssumption DEF TypeOK, None, Interfaces, Using, Quiet
<1>t. \A t \in Threads : thread[t].kind \in Using => thread[t].of \in Interfaces
  BY <1>0 DEF Carried, Using, Waking
<1>d. Looked <=> /\ \A t \in Threads : thread[t].kind \in Using /\ cb[thread[t].of] = None => thread[t].of \in late
                 /\ crashed => late \cap Interfaces # {}
  BY DEF Looked, NullOnlyIfLate, Using
<1>e. Looked' <=> /\ \A t \in Threads : thread'[t].kind \in Using /\ cb'[thread'[t].of] = None => thread'[t].of \in late'
                  /\ crashed' => late' \cap Interfaces # {}
  BY DEF Looked, NullOnlyIfLate, Using
<1>1. CASE UNCHANGED <<cb, thread, crashed, late>>
  BY <1>1, <1>d, <1>e
<1>2. Plain \/ setCallbackResend \/ setCallbackInit \/ handleHidlDeath \/ ClientDies \/ ClientStarts
        => UNCHANGED <<cb, thread, crashed, late>>
  BY DEF Plain, setCallbackResend, setCallbackInit, handleHidlDeath, ClientDies, ClientStarts
<1>3. CASE \E e \in Interfaces \ {"gnss"} : setExtensionCallback(e)
  <2>1. PICK e \in Interfaces \ {"gnss"}, c \in {None, client.id} :
          /\ cb' = [cb EXCEPT ![e] = c] /\ UNCHANGED <<thread, crashed>>
          /\ late' = (late \cup (IF Late(e) /\ c # cb[e] THEN {e} ELSE {}))
    BY <1>3 DEF setExtensionCallback
  <2>2. ASSUME NEW t \in Threads, thread'[t].kind \in Using, cb'[thread'[t].of] = None
        PROVE  thread'[t].of \in late'
    <3>1. CASE thread[t].of = e /\ c # cb[e]
      <4>1. Late(e)
        BY <1>0, <2>1, <2>2, <3>1 DEF Late
      <4> QED BY <2>1, <3>1, <4>1
    <3>2. CASE thread[t].of # e \/ c = cb[e]
      BY <1>0, <1>d, <1>t, <2>1, <2>2, <3>2
    <3> QED BY <3>1, <3>2
  <2> QED BY <1>d, <1>e, <2>1, <2>2
<1>4. CASE setCallback
  <2>1. /\ cb' = [cb EXCEPT !["gnss"] = client.id] /\ UNCHANGED <<thread, crashed>> /\ late \subseteq late'
    BY <1>4 DEF setCallback
  <2>2. \A i \in Interfaces : cb'[i] = None => cb[i] = None
    BY <1>0, <2>1
  <2> QED BY <1>d, <1>e, <1>t, <2>1, <2>2
<1>5. CASE handleHidlDeathForget
  <2>1. /\ cb' = [cb EXCEPT !["gnss"] = None] /\ UNCHANGED <<thread, crashed>>
        /\ late' = (late \cup (IF Late("gnss") THEN {"gnss"} ELSE {}))
    BY <1>5 DEF handleHidlDeathForget
  <2>2. ASSUME NEW t \in Threads, thread'[t].kind \in Using, cb'[thread'[t].of] = None
        PROVE  thread'[t].of \in late'
    <3>1. CASE thread[t].of = "gnss"
      <4>1. Late("gnss")
        BY <1>0, <2>1, <2>2, <3>1 DEF Late
      <4> QED BY <2>1, <3>1, <4>1
    <3>2. CASE thread[t].of # "gnss"
      BY <1>0, <1>d, <1>t, <2>1, <2>2, <3>2
    <3> QED BY <3>1, <3>2
  <2> QED BY <1>d, <1>e, <2>1, <2>2
(* A thread moves on to a kind that uses no pointer, or has just seen it. *)
<1>6. ASSUME NEW t \in Threads, NEW k, thread' = [thread EXCEPT ![t] = k], UNCHANGED cb, late \subseteq late',
             k.kind \in Using => cb[k.of] # None,
             crashed' => crashed \/ late \cap Interfaces # {}
      PROVE  Looked'
  <2>1. \A u \in Threads : thread'[u] = IF u = t THEN k ELSE thread[u]
    BY <1>6 DEF Carried
  <2> QED BY <1>6, <1>d, <1>e, <2>1
<1>7. CASE \E i \in Interfaces : EventBegin(i)
  <2>1. PICK i \in Interfaces : EventBegin(i)
    BY <1>7
  <2>2. ThreadOf(i) \in Threads /\ UNCHANGED <<cb, late, crashed>>
    BY <2>1 DEF ThreadOf, Threads, EventBegin
  <2>3. CASE cb[i] = None
    <3>1. thread' = [thread EXCEPT ![ThreadOf(i)] = Quiet]
      BY <2>1, <2>3 DEF EventBegin
    <3> QED BY <1>0, <1>6, <2>2, <3>1
  <2>4. CASE cb[i] # None
    <3>1. thread' = [thread EXCEPT ![ThreadOf(i)] = [kind |-> "event", of |-> i, value |-> 0]]
      BY <2>1, <2>4 DEF EventBegin
    <3> QED BY <1>6, <2>2, <2>4, <3>1
  <2> QED BY <2>3, <2>4
<1>8. CASE \E i \in Infos : InfoBegin(i)
  <2>1. PICK i \in Infos : InfoBegin(i)
    BY <1>8
  <2>2. "gps" \in Threads /\ UNCHANGED <<cb, crashed>> /\ late \subseteq late'
    BY <2>1 DEF Threads, InfoBegin
  <2>3. CASE cb["gnss"] = None
    BY <1>0, <1>6, <2>1, <2>2, <2>3 DEF InfoBegin
  <2>4. CASE cb["gnss"] # None
    <3>1. PICK v : thread' = [thread EXCEPT !["gps"] = [kind |-> i, of |-> "gnss", value |-> v]]
      BY <2>1, <2>4 DEF InfoBegin
    <3> QED BY <1>6, <2>2, <2>4, <3>1
  <2> QED BY <2>3, <2>4
<1>9. CASE \E t \in Threads : Use(t)
  <2>1. PICK t \in Threads : Use(t)
    BY <1>9
  <2>2. UNCHANGED <<cb, late>> /\ thread[t].kind \in Using /\ crashed' = (cb[thread[t].of] = None)
    BY <2>1 DEF Use, Using
  <2>3. crashed' => late \cap Interfaces # {}
    BY <1>d, <1>t, <2>2
  <2>4. PICK k : thread' = [thread EXCEPT ![t] = k] /\ k.kind \notin Using
    <3>1. CASE thread[t].kind = "event"
      BY <1>0, <2>1, <3>1 DEF Use
    <3>2. CASE thread[t].kind # "event"
      <4> DEFINE k == [thread[t] EXCEPT !.kind = "save", !.of = thread[t].kind]
      <4>1. thread' = [thread EXCEPT ![t] = k]
        BY <2>1, <3>2 DEF Use
      <4>2. k.kind = "save"
        BY ThreadTypes
      <4> HIDE DEF k
      <4> QED BY <1>0, <4>1, <4>2
    <3> QED BY <3>1, <3>2
  <2> QED BY <1>6, <2>2, <2>3, <2>4
<1>10. CASE \E t \in Threads : Save(t)
  <2>1. PICK t \in Threads : Save(t)
    BY <1>10
  <2>2. UNCHANGED <<cb, late, crashed>> /\ thread' = [thread EXCEPT ![t] = Quiet]
    BY <2>1 DEF Save
  <2> QED BY <1>0, <1>6, <2>2
<1>11. CASE \E t \in Threads : Wakelock(t)
  <2>1. PICK t \in Threads : Wakelock(t)
    BY <1>11
  <2>2. UNCHANGED <<cb, late, crashed>> /\ thread' = [thread EXCEPT ![t] = [kind |-> "update", of |-> "gnss", value |-> 0]]
    BY <2>1 DEF Wakelock
  <2> QED BY <1>0, <1>6, <2>2
<1>12. CASE \E t \in Threads : updateWakelock(t)
  <2>1. PICK t \in Threads : updateWakelock(t)
    BY <1>12
  <2>2. UNCHANGED <<cb, late, crashed>>
    BY <2>1 DEF updateWakelock
  <2>3. CASE thread' = [thread EXCEPT ![t] = Quiet]
    BY <1>0, <1>6, <2>2, <2>3
  <2>4. CASE cb["gnss"] # None /\ thread' = [thread EXCEPT ![t] = [kind |-> Wanted(t), of |-> "gnss", value |-> 0]]
    BY <1>6, <2>2, <2>4
  <2> QED BY <2>1, <2>3, <2>4 DEF updateWakelock
<1>13. CASE \E t \in Threads : tellWakelock(t)
  <2>1. PICK t \in Threads : tellWakelock(t)
    BY <1>13
  <2>2. UNCHANGED <<cb, late>> /\ thread[t].kind \in {"acquire", "release"} /\ crashed' = (cb["gnss"] = None)
        /\ thread' = [thread EXCEPT ![t] = Quiet]
    BY <2>1 DEF tellWakelock
  <2>3. thread[t].kind \in Using /\ thread[t].of = "gnss"
    BY <2>2 DEF Using, Carried, Waking
  <2>4. crashed' => late \cap Interfaces # {}
    BY <1>d, <1>0, <2>2, <2>3
  <2> QED BY <1>0, <1>6, <2>2, <2>4
<1> QED BY <1>1, <1>2, <1>3, <1>4, <1>5, <1>7, <1>8, <1>9, <1>10, <1>11, <1>12, <1>13, Cases, PlainSteps

-----------------------------------------------------------------------------
(* The registration of the framework and its death. *)
LEMMA RegistrationKeeps ==
    ASSUME TypeOK, Carried, Registration, Next
    PROVE  Registration'
<1>0. /\ cb \in [Interfaces -> Clients \cup {None}] /\ "gnss" \in Interfaces /\ client.id \in Clients /\ None \notin Clients
      /\ client \in [id : Clients, alive : BOOLEAN] /\ notice \in BOOLEAN
  BY ClientAssumption DEF TypeOK, None, Interfaces
<1> USE DEF Registration
<1>1. CASE UNCHANGED <<device, linked, cb, client, notice, binder>>
  BY <1>1
<1>2. Plain => UNCHANGED <<device, linked, cb, client, notice, binder>>
  BY DEF Plain
<1>3. \A i : EventBegin(i) \/ InfoBegin(i) => UNCHANGED <<device, linked, cb, client, notice, binder>>
  BY DEF EventBegin, InfoBegin
<1>4. \A t : Use(t) \/ Save(t) \/ Wakelock(t) \/ updateWakelock(t) \/ tellWakelock(t)
             => UNCHANGED <<device, linked, cb, client, notice, binder>>
  BY DEF Use, Save, Wakelock, updateWakelock, tellWakelock
<1>5. CASE \E e \in Interfaces \ {"gnss"} : setExtensionCallback(e)
  BY <1>0, <1>5 DEF setExtensionCallback
<1>6. CASE setCallback
  BY <1>0, <1>6 DEF setCallback, Called
<1>7. CASE setCallbackResend
  <2>1. binder'.pc = "init" /\ binder.pc = "resend"
    BY <1>7 DEF setCallbackResend, Carried
  <2> QED BY <1>7, <2>1 DEF setCallbackResend
<1>8. CASE setCallbackInit
  <2>1. binder'.pc = "idle" /\ binder.pc = "init"
    BY <1>8 DEF setCallbackInit, Idle
  <2> QED BY <1>8, <2>1 DEF setCallbackInit
<1>9. CASE handleHidlDeath
  <2>1. binder'.pc = "forget" /\ binder.pc = "idle"
    BY <1>9 DEF handleHidlDeath, Idle
  <2> QED BY <1>9, <2>1 DEF handleHidlDeath
<1>10. CASE handleHidlDeathForget
  <2>1. binder'.pc = "idle" /\ binder.pc = "forget"
    BY <1>10 DEF handleHidlDeathForget, Idle
  <2> QED BY <1>0, <1>10, <2>1 DEF handleHidlDeathForget
<1>11. CASE ClientDies
  <2>1. client'.alive = FALSE /\ client'.id = client.id /\ binder.pc = "idle"
    BY <1>0, <1>11 DEF ClientDies
  <2> QED BY <1>11, <2>1 DEF ClientDies
<1>12. CASE ClientStarts
  <2>1. client'.alive /\ binder.pc = "idle" /\ ~notice /\ ~client.alive
    BY <1>12 DEF ClientStarts
  <2>2. linked = None
    BY <2>1
  <2> QED BY <1>12, <2>1, <2>2 DEF ClientStarts
<1> QED BY <1>1, <1>2, <1>3, <1>4, <1>5, <1>6, <1>7, <1>8, <1>9, <1>10, <1>11, <1>12, Cases, PlainSteps

-----------------------------------------------------------------------------
(* The end of the sessions of a dead process. *)
LEMMA EndedKeeps ==
    ASSUME TypeOK, Carried, Registration, Ended, Next
    PROVE  Ended'
<1>0. /\ hal \in [Interfaces -> HalStates] /\ "gnss" \in Interfaces /\ Stopped \subseteq Interfaces
      /\ \A i \in Interfaces \ {"gnss"} : hal[i] # "closed" => i \in objects
  BY DEF TypeOK, HalStates, Interfaces, Stopped
<1> USE DEF Ended
<1>1. CASE UNCHANGED <<device, hal, binder>>
  BY <1>1
<1>2. \A e : getExtension(e) => UNCHANGED <<device, hal, binder>>
  BY DEF getExtension
<1>3. flpCapabilitiesCb \/ ClientDies \/ ClientStarts => UNCHANGED <<device, hal, binder>>
  BY DEF flpCapabilitiesCb, ClientDies, ClientStarts
<1>4. \A i : EventBegin(i) \/ InfoBegin(i) => UNCHANGED <<device, hal, binder>>
  BY DEF EventBegin, InfoBegin
<1>5. \A t : Use(t) \/ Save(t) \/ Wakelock(t) \/ updateWakelock(t) \/ tellWakelock(t) => UNCHANGED <<device, hal, binder>>
  BY DEF Use, Save, Wakelock, updateWakelock, tellWakelock
<1>6. CASE HalMoved
  BY <1>0, <1>6 DEF HalMoved, Called
<1>7. CASE \E e \in Interfaces \ {"gnss"} : setExtensionCallback(e)
  <2>1. PICK e \in Interfaces \ {"gnss"} : setExtensionCallback(e)
    BY <1>7
  <2>2. binder.pc = "idle" /\ UNCHANGED <<device, binder>>
    BY <2>1 DEF setExtensionCallback, Called
  <2>3. \E h : hal' = [hal EXCEPT ![e] = h]
    BY <2>1 DEF setExtensionCallback
  <2> QED BY <1>0, <2>2, <2>3
<1>8. CASE setCallback
  BY <1>8 DEF setCallback
<1>9. CASE setCallbackResend
  <2>1. binder'.pc = "init" /\ UNCHANGED <<device, hal>>
    BY <1>9 DEF setCallbackResend, Carried
  <2> QED BY <2>1
<1>10. CASE setCallbackInit
  <2>1. binder'.pc = "idle" /\ binder.pc = "init" /\ UNCHANGED device
    BY <1>10 DEF setCallbackInit, Idle
  <2> QED BY <2>1 DEF Registration
<1>11. CASE handleHidlDeath
  <2>1. binder'.pc = "forget" /\ UNCHANGED device
    BY <1>11 DEF handleHidlDeath, Idle
  <2>2. \A i \in Interfaces :
          hal'[i] = IF i \in {"measurement", "navigation", "batching"} \cup (IF device.iface THEN {"gnss"} ELSE {})
                       /\ (i = "gnss" \/ i \in objects)
                    THEN "closed" ELSE hal[i]
    BY <1>11 DEF handleHidlDeath, Closed
  <2>3. \A i \in Stopped : hal'[i] = "closed"
    BY <1>0, <2>2 DEF Stopped
  <2> QED BY <2>1, <2>3 DEF Stopped
<1>12. CASE handleHidlDeathForget
  <2>1. binder'.pc = "idle" /\ UNCHANGED <<device, hal>>
    BY <1>12 DEF handleHidlDeathForget, Idle
  <2> QED BY <2>1
<1> QED BY <1>1, <1>2, <1>3, <1>4, <1>5, <1>6, <1>7, <1>8, <1>9, <1>10, <1>11, <1>12, Cases

-----------------------------------------------------------------------------
(* What the framework knows. *)
LEMMA InfoKeeps ==
    ASSUME TypeOK, Carried, Registration, Info, Next
    PROVE  Info'
<1>0. /\ told \in [Clients -> [Infos -> Values]] /\ cached \in [Infos -> Values]
      /\ cb \in [Interfaces -> Clients \cup {None}] /\ "gnss" \in Interfaces
      /\ client.id \in Clients /\ client \in [id : Clients, alive : BOOLEAN]
  BY DEF TypeOK, Interfaces, Values
<1>c. Clients \subseteq Nat /\ None \notin Clients /\ None = 0
  BY ClientAssumption DEF None
<1>k. \A t \in Threads : \A k : thread' = [thread EXCEPT ![t] = k] => thread'["gps"] = IF t = "gps" THEN k ELSE thread["gps"]
  BY DEF Carried, Threads
<1>q. /\ Quiet.kind \notin Infos \cup {"save"} /\ "none" \notin Infos \cup {"save"} /\ "event" \notin Infos \cup {"save"}
      /\ Waking \cap (Infos \cup {"save"}) = {} /\ "gps" \in Threads
  BY DEF Quiet, Infos, Waking, Threads
(* Nothing but the thread moves, and neither before nor after it has a value to save. *)
<1>1. ASSUME UNCHANGED <<cb, cached, told, client, binder>>, late \subseteq late',
             \/ thread'["gps"] = thread["gps"]
             \/ /\ thread["gps"].kind # "save" /\ thread'["gps"].kind # "save"
                /\ binder.pc = "resend" /\ "info" \notin late' => thread'["gps"].kind \notin Infos \cup {"save"}
      PROVE  Info'
  BY <1>1 DEF Info
<1>2. CASE Plain
  BY <1>1, <1>2 DEF Plain
<1>3. CASE \E e \in Interfaces \ {"gnss"} : setExtensionCallback(e)
  <2>1. PICK e \in Interfaces \ {"gnss"} : setExtensionCallback(e)
    BY <1>3
  <2>2. UNCHANGED <<cached, told, client, binder, thread>> /\ late \subseteq late' /\ cb'["gnss"] = cb["gnss"]
    BY <1>0, <2>1 DEF setExtensionCallback
  <2> QED BY <2>2 DEF Info
<1>4. CASE setCallback
  <2>1. /\ cb'["gnss"] = client.id /\ binder'.pc = "resend" /\ binder'.info = cached
        /\ UNCHANGED <<cached, told, client, thread>> /\ late \subseteq late' /\ client.alive /\ binder.pc = "idle"
        /\ "info" \notin late' => thread["gps"].kind \notin Infos \cup {"save"}
    BY <1>0, <1>4 DEF setCallback, Called
  <2>2. ASSUME "info" \notin late', NEW i \in Infos, cached[i] = 0
        PROVE  told[client.id][i] = 0
    <3>1. CASE cb["gnss"] # client.id
      BY <2>1, <3>1 DEF Info
    <3>2. CASE cb["gnss"] = client.id
      BY <2>1, <2>2, <3>2 DEF Info
    <3> QED BY <3>1, <3>2
  <2> QED BY <2>1, <2>2 DEF Info
<1>5. CASE setCallbackResend
  <2> DEFINE Renewed(f) == [i \in Infos |-> IF i \in {j \in Infos : binder.info[j] # 0} THEN binder.info[i] ELSE f[i]]
  <2>1. binder.pc = "resend" /\ cb["gnss"] = client.id
    BY <1>5 DEF setCallbackResend, Registration
  <2>2. /\ cached' = Renewed(cached) /\ told' = [told EXCEPT ![client.id] = Renewed(told[client.id])]
        /\ UNCHANGED <<cb, late, client, thread>>
    BY <1>5, <2>1 DEF setCallbackResend
  <2>3. binder'.pc = "init"
    BY <1>5 DEF setCallbackResend, Carried
  <2>4. \A c \in Clients : told'[c] = IF c = client.id THEN Renewed(told[client.id]) ELSE told[c]
    BY <1>0, <2>2
  <2>5. \A i \in Infos : /\ cached'[i] = IF binder.info[i] # 0 THEN binder.info[i] ELSE cached[i]
                         /\ told'[client.id][i] = IF binder.info[i] # 0 THEN binder.info[i] ELSE told[client.id][i]
    BY <1>0, <2>2, <2>4
  <2> HIDE DEF Renewed
  <2>6. \A c \in Clients : c > client.id => \A i \in Infos : told'[c][i] = 0
    BY <1>0, <1>c, <2>4 DEF Info
  <2>7. "info" \notin late => \A i \in Infos : told'[client.id][i] = cached'[i]
    BY <2>1, <2>5 DEF Info
  <2>8. "info" \notin late => thread["gps"].kind # "save"
    BY <2>1 DEF Info
  <2> QED BY <2>1, <2>2, <2>3, <2>6, <2>7, <2>8 DEF Info
<1>6. CASE setCallbackInit
  <2>1. binder'.pc = "idle" /\ binder.pc = "init" /\ UNCHANGED <<cb, cached, told, client, late, thread>>
    BY <1>6 DEF setCallbackInit, Idle
  <2> QED BY <2>1 DEF Info
<1>7. CASE handleHidlDeath
  <2>1. binder'.pc = "forget" /\ binder.pc = "idle" /\ UNCHANGED <<cb, cached, told, client, late, thread>>
    BY <1>7 DEF handleHidlDeath, Idle
  <2> QED BY <2>1 DEF Info
<1>8. CASE handleHidlDeathForget
  <2>1. /\ binder'.pc = "idle" /\ binder.pc = "forget" /\ UNCHANGED <<cached, told, client, thread>>
        /\ cb'["gnss"] = None
    BY <1>0, <1>8 DEF handleHidlDeathForget, Idle
  <2>2. ~client.alive /\ None # client.id
    BY <1>0, <1>c, <2>1 DEF Registration
  <2> QED BY <2>1, <2>2 DEF Info
<1>9. CASE \E i \in Interfaces : EventBegin(i)
  <2>1. PICK i \in Interfaces : EventBegin(i)
    BY <1>9
  <2>2. UNCHANGED <<cb, cached, told, client, binder, late>> /\ thread[ThreadOf(i)].kind = "none" /\ ThreadOf(i) \in Threads
    BY <2>1 DEF EventBegin, Calls, ThreadOf, Threads
  <2>3. PICK k : thread' = [thread EXCEPT ![ThreadOf(i)] = k] /\ k.kind \notin Infos \cup {"save"}
    <3>1. CASE cb[i] = None
      BY <1>q, <2>1, <3>1 DEF EventBegin
    <3>2. CASE cb[i] # None
      <4> DEFINE r == [kind |-> "event", of |-> i, value |-> 0]
      <4>1. thread' = [thread EXCEPT ![ThreadOf(i)] = r] /\ r.kind = "event"
        BY <2>1, <3>2 DEF EventBegin
      <4> HIDE DEF r
      <4> QED BY <1>q, <4>1
    <3> QED BY <3>1, <3>2
  <2>4. thread'["gps"] = IF ThreadOf(i) = "gps" THEN k ELSE thread["gps"]
    BY <1>k, <2>2, <2>3
  <2> QED BY <1>1, <1>q, <2>2, <2>3, <2>4
<1>10. CASE \E i \in Infos : InfoBegin(i)
  <2>1. PICK i \in Infos : InfoBegin(i)
    BY <1>10
  <2>2. /\ UNCHANGED <<cb, cached, told, client, binder>> /\ late \subseteq late' /\ thread["gps"].kind = "none"
        /\ binder.pc = "resend" => "info" \in late'
    BY <2>1 DEF InfoBegin, Calls
  <2>3. PICK k : thread' = [thread EXCEPT !["gps"] = k] /\ k.kind # "save"
    <3>1. CASE cb["gnss"] = None
      BY <1>q, <2>1, <3>1 DEF InfoBegin
    <3>2. CASE cb["gnss"] # None
      <4>1. PICK v : thread' = [thread EXCEPT !["gps"] = [kind |-> i, of |-> "gnss", value |-> v]]
        BY <2>1, <3>2 DEF InfoBegin
      <4> DEFINE r == [kind |-> i, of |-> "gnss", value |-> v]
      <4>2. thread' = [thread EXCEPT !["gps"] = r] /\ r.kind = i /\ i # "save"
        BY <4>1 DEF Infos
      <4> HIDE DEF r
      <4> QED BY <4>2
    <3> QED BY <3>1, <3>2
  <2>4. thread'["gps"] = k
    BY <1>k, <1>q, <2>3
  <2> QED BY <1>1, <2>2, <2>3, <2>4, <1>q
<1>11. CASE \E t \in Threads : Use(t)
  <2>1. PICK t \in Threads : Use(t)
    BY <1>11
  <2>2. UNCHANGED <<cb, cached, client, binder, late>> /\ thread[t].kind # "save"
    BY <2>1 DEF Use
  <2>3. CASE thread[t].kind = "event"
    <3>1. told' = told /\ thread' = [thread EXCEPT ![t] = Quiet]
      BY <2>1, <2>3 DEF Use
    <3>2. thread'["gps"] = IF t = "gps" THEN Quiet ELSE thread["gps"]
      BY <1>k, <3>1
    <3> QED BY <1>1, <1>q, <2>2, <3>1, <3>2
  <2>4. CASE thread[t].kind # "event"
    <3> DEFINE i == thread[t].kind
               k == [thread[t] EXCEPT !.kind = "save", !.of = i]
    <3>1. i \in Infos /\ thread' = [thread EXCEPT ![t] = k]
      BY <2>1, <2>4 DEF Use, Infos
    <3>2. t = "gps" /\ thread[t].of = "gnss"
      BY <3>1, ThreadTypes
    <3>3. k.kind = "save" /\ k.of = i /\ k.value = thread[t].value
      BY ThreadTypes
    <3>4. told' = IF cb["gnss"] # None THEN [told EXCEPT ![cb["gnss"]][i] = thread[t].value] ELSE told
      BY <2>1, <2>4, <3>2 DEF Use
    <3>5. thread'["gps"] = k
      BY <1>k, <3>1, <3>2
    <3>6. ~(binder.pc = "resend" /\ "info" \notin late)
      BY <3>1, <3>2 DEF Info
    <3> HIDE DEF i, k
    <3>7. CASE cb["gnss"] = None
      <4>1. told' = told /\ cb["gnss"] # client.id
        BY <1>0, <1>c, <3>4, <3>7
      <4> QED BY <2>2, <3>6, <4>1 DEF Info
    <3>8. CASE cb["gnss"] # None
      <4>1. cb["gnss"] = client.id
        BY <3>8 DEF Registration
      <4>2. told' = [told EXCEPT ![client.id][i] = thread[t].value]
        BY <3>4, <3>8, <4>1
      <4>3. \A c \in Clients : c # client.id => told'[c] = told[c]
        BY <1>0, <4>2
      <4>4. \A j \in Infos : told'[client.id][j] = IF j = i THEN thread[t].value ELSE told[client.id][j]
        BY <1>0, <3>1, <4>2
      <4>5. \A c \in Clients : c > client.id => \A j \in Infos : told'[c][j] = 0
        BY <1>0, <1>c, <4>3 DEF Info
      <4>6. "info" \notin late => \A j \in Infos : told[client.id][j] = cached[j]
        BY <2>2, <3>2, <3>6, <4>1 DEF Info
      <4> QED BY <2>2, <3>3, <3>5, <3>6, <4>1, <4>4, <4>5, <4>6 DEF Info
    <3> QED BY <3>7, <3>8
  <2> QED BY <2>3, <2>4
<1>12. CASE \E t \in Threads : Save(t)
  <2>1. PICK t \in Threads : Save(t)
    BY <1>12
  <2>2. /\ t = "gps" /\ thread["gps"].kind = "save" /\ thread["gps"].of \in Infos
        /\ cached' = [cached EXCEPT ![thread["gps"].of] = thread["gps"].value]
        /\ thread' = [thread EXCEPT !["gps"] = Quiet] /\ UNCHANGED <<cb, told, client, binder, late>>
    <3>1. t = "gps" /\ thread[t].of \in Infos
      BY <2>1, ThreadTypes DEF Save, Carried
    <3> QED BY <2>1, <3>1 DEF Save
  <2>3. thread'["gps"] = Quiet
    BY <1>k, <1>q, <2>2
  <2>4. ~(binder.pc = "resend" /\ "info" \notin late)
    BY <2>2 DEF Info
  <2>5. \A j \in Infos : cached'[j] = IF thread["gps"].of = j THEN thread["gps"].value ELSE cached[j]
    BY <1>0, <2>2
  <2> QED BY <1>q, <2>2, <2>3, <2>4, <2>5 DEF Info
<1>13. CASE \E t \in Threads : Wakelock(t) \/ updateWakelock(t) \/ tellWakelock(t)
  <2>1. PICK t \in Threads : Wakelock(t) \/ updateWakelock(t) \/ tellWakelock(t)
    BY <1>13
  <2>2. UNCHANGED <<cb, cached, told, client, binder, late>>
    BY <2>1 DEF Wakelock, updateWakelock, tellWakelock
  <2>3. thread[t].kind \notin Infos \cup {"save"}
    BY <2>1, <1>q DEF Wakelock, updateWakelock, tellWakelock, Calls, Waking
  <2>4. PICK k : thread' = [thread EXCEPT ![t] = k] /\ k.kind \notin Infos \cup {"save"}
    <3>1. CASE Wakelock(t)
      <4> DEFINE r == [kind |-> "update", of |-> "gnss", value |-> 0]
      <4>1. thread' = [thread EXCEPT ![t] = r] /\ r.kind = "update"
        BY <3>1 DEF Wakelock
      <4> HIDE DEF r
      <4> QED BY <1>q, <4>1 DEF Waking
    <3>2. CASE updateWakelock(t)
      <4>1. Wanted(t) \notin Infos \cup {"save"}
        BY <1>q DEF Wanted, Waking
      <4>2. CASE thread' = [thread EXCEPT ![t] = Quiet]
        BY <1>q, <4>2
      <4>3. CASE thread' = [thread EXCEPT ![t] = [kind |-> Wanted(t), of |-> "gnss", value |-> 0]]
        <5> DEFINE r == [kind |-> Wanted(t), of |-> "gnss", value |-> 0]
        <5>1. thread' = [thread EXCEPT ![t] = r] /\ r.kind = Wanted(t)
          BY <4>3
        <5> HIDE DEF r
        <5> QED BY <4>1, <5>1
      <4> QED BY <3>2, <4>2, <4>3 DEF updateWakelock
    <3>3. CASE tellWakelock(t)
      BY <3>3, <1>q DEF tellWakelock
    <3> QED BY <2>1, <3>1, <3>2, <3>3
  <2>5. thread'["gps"] = IF t = "gps" THEN k ELSE thread["gps"]
    BY <1>k, <2>4
  <2> QED BY <1>1, <2>2, <2>3, <2>4, <2>5
<1>14. CASE ClientDies
  <2>1. client'.id = client.id /\ ~client'.alive /\ UNCHANGED <<cb, cached, told, binder, late, thread>>
    BY <1>0, <1>14 DEF ClientDies
  <2> QED BY <2>1 DEF Info
<1>15. CASE ClientStarts
  <2>1. /\ client'.id = client.id + 1 /\ client.id + 1 \in Clients /\ binder.pc = "idle"
        /\ UNCHANGED <<cb, cached, told, binder, late, thread>> /\ ~client.alive /\ ~notice
    BY <1>15 DEF ClientStarts
  <2>2. cb["gnss"] = None /\ client.id + 1 # None
    BY <1>0, <1>c, <2>1 DEF Registration
  <2>n. client.id \in Nat /\ \A c \in Clients : c \in Nat
    BY <1>0, <1>c
  <2>3. \A c \in Clients : c >= client.id + 1 => c > client.id
    BY <2>n
  <2>4. \A c \in Clients : c >= client.id + 1 => \A i \in Infos : told[c][i] = 0
    BY <2>3 DEF Info
  <2>5. /\ \A c \in Clients : c > client'.id => \A i \in Infos : told'[c][i] = 0
        /\ \A i \in Infos : told'[client'.id][i] = 0
    <3>1. \A c \in Clients : c > client.id + 1 => c >= client.id + 1
      BY <2>n
    <3>2. client.id + 1 >= client.id + 1
      BY <2>n
    <3> QED BY <2>1, <2>4, <3>1, <3>2
  <2> QED BY <2>1, <2>2, <2>5 DEF Info
<1> QED BY <1>2, <1>3, <1>4, <1>5, <1>6, <1>7, <1>8, <1>9, <1>10, <1>11, <1>12, <1>13, <1>14, <1>15, Cases, PlainSteps

-----------------------------------------------------------------------------
(* What the framework holds. *)
LEMMA WakelocksKeep ==
    ASSUME TypeOK, Carried, Registration, Wakelocks, Next
    PROVE  Wakelocks'
<1>0. /\ lock \in [Clients -> BOOLEAN] /\ wl \in [gnss : BOOLEAN, fused : BOOLEAN, held : BOOLEAN]
      /\ cb \in [Interfaces -> Clients \cup {None}] /\ "gnss" \in Interfaces
      /\ client.id \in Clients /\ client \in [id : Clients, alive : BOOLEAN]
  BY DEF TypeOK, Interfaces
<1>c. Clients \subseteq Nat /\ None \notin Clients
  BY ClientAssumption DEF None
<1>n. client.id \in Nat /\ \A c \in Clients : c \in Nat
  BY <1>0, <1>c
<1>k. \A t \in Threads : \A k : thread' = [thread EXCEPT ![t] = k] => \A u \in Threads : thread'[u] = IF u = t THEN k ELSE thread[u]
  BY DEF Carried
<1>q. Quiet.kind \notin Waking /\ {"none", "event", "caps", "year", "save"} \cap Waking = {}
  BY DEF Quiet, Waking
(* Nothing but a thread moves, and neither before nor after it is at a wakelock. *)
<1>1. ASSUME UNCHANGED <<cb, client, lock, wl>>, excused => excused', crashed => crashed',
             \A t \in Threads : thread'[t] = thread[t] \/ (thread[t].kind \notin Waking /\ thread'[t].kind \notin Waking)
      PROVE  Wakelocks'
  <2>1. \A t \in Threads : /\ thread'[t].kind \in Waking <=> thread[t].kind \in Waking
                           /\ thread'[t].kind = "acquire" <=> thread[t].kind = "acquire"
                           /\ thread'[t].kind = "release" <=> thread[t].kind = "release"
    BY <1>1 DEF Waking
  <2> QED BY <1>1, <2>1 DEF Wakelocks
<1>2. CASE Plain
  BY <1>1, <1>2 DEF Plain
<1>3. CASE \E e \in Interfaces \ {"gnss"} : setExtensionCallback(e)
  <2>1. PICK e \in Interfaces \ {"gnss"} : setExtensionCallback(e)
    BY <1>3
  <2>2. UNCHANGED <<client, lock, wl, thread, excused, crashed>> /\ cb'["gnss"] = cb["gnss"]
    BY <1>0, <2>1 DEF setExtensionCallback
  <2> QED BY <2>2 DEF Wakelocks
<1>4. CASE setCallback
  <2>1. UNCHANGED <<client, lock, wl, thread, excused, crashed>> /\ cb'["gnss"] = client.id /\ client.alive
    BY <1>0, <1>4 DEF setCallback, Called
  <2>2. ~excused /\ ~crashed => (lock[client.id] <=> wl.held)
    <3>1. CASE cb["gnss"] = client.id
      BY <3>1 DEF Wakelocks
    <3>2. CASE cb["gnss"] # client.id
      BY <2>1, <3>2 DEF Wakelocks
    <3> QED BY <3>1, <3>2
  <2> QED BY <2>1, <2>2 DEF Wakelocks
<1>5. CASE setCallbackResend \/ setCallbackInit \/ handleHidlDeath
  <2>1. UNCHANGED <<cb, client, lock, wl, thread, excused, crashed>>
    BY <1>5 DEF setCallbackResend, setCallbackInit, handleHidlDeath
  <2> QED BY <1>1, <2>1
<1>6. CASE handleHidlDeathForget
  <2>1. /\ UNCHANGED <<client, lock, wl, thread, crashed>> /\ cb'["gnss"] = None /\ binder.pc = "forget"
        /\ ~excused' => ~excused /\ ~wl.held
    BY <1>0, <1>6 DEF handleHidlDeathForget
  <2>2. ~client.alive /\ None # client.id
    BY <1>0, <1>c, <2>1 DEF Registration
  <2> QED BY <2>1, <2>2 DEF Wakelocks
<1>7. CASE \E i \in Interfaces : EventBegin(i)
  <2>1. PICK i \in Interfaces : EventBegin(i)
    BY <1>7
  <2>2. UNCHANGED <<cb, client, lock, wl, excused, crashed>> /\ thread[ThreadOf(i)].kind = "none" /\ ThreadOf(i) \in Threads
    BY <2>1 DEF EventBegin, Calls, ThreadOf, Threads
  <2>3. PICK k : thread' = [thread EXCEPT ![ThreadOf(i)] = k] /\ k.kind \notin Waking
    <3>1. CASE cb[i] = None
      BY <1>q, <2>1, <3>1 DEF EventBegin
    <3>2. CASE cb[i] # None
      <4> DEFINE r == [kind |-> "event", of |-> i, value |-> 0]
      <4>1. thread' = [thread EXCEPT ![ThreadOf(i)] = r] /\ r.kind = "event"
        BY <2>1, <3>2 DEF EventBegin
      <4> HIDE DEF r
      <4> QED BY <1>q, <4>1
    <3> QED BY <3>1, <3>2
  <2>4. \A u \in Threads : thread'[u] = IF u = ThreadOf(i) THEN k ELSE thread[u]
    BY <1>k, <2>2, <2>3
  <2> QED BY <1>1, <1>q, <2>2, <2>3, <2>4
<1>8. CASE \E i \in Infos : InfoBegin(i)
  <2>1. PICK i \in Infos : InfoBegin(i)
    BY <1>8
  <2>2. UNCHANGED <<cb, client, lock, wl, excused, crashed>> /\ thread["gps"].kind = "none" /\ "gps" \in Threads
    BY <2>1 DEF InfoBegin, Calls, Threads
  <2>3. PICK k : thread' = [thread EXCEPT !["gps"] = k] /\ k.kind \notin Waking
    <3>1. CASE cb["gnss"] = None
      BY <1>q, <2>1, <3>1 DEF InfoBegin
    <3>2. CASE cb["gnss"] # None
      <4>1. PICK v : thread' = [thread EXCEPT !["gps"] = [kind |-> i, of |-> "gnss", value |-> v]]
        BY <2>1, <3>2 DEF InfoBegin
      <4> DEFINE r == [kind |-> i, of |-> "gnss", value |-> v]
      <4>2. thread' = [thread EXCEPT !["gps"] = r] /\ r.kind = i /\ i \in {"caps", "year"}
        BY <4>1 DEF Infos
      <4> HIDE DEF r
      <4> QED BY <1>q, <4>2
    <3> QED BY <3>1, <3>2
  <2>4. \A u \in Threads : thread'[u] = IF u = "gps" THEN k ELSE thread[u]
    BY <1>k, <2>2, <2>3
  <2> QED BY <1>1, <1>q, <2>2, <2>3, <2>4
<1>9. CASE \E t \in Threads : Use(t)
  <2>1. PICK t \in Threads : Use(t)
    BY <1>9
  <2>2. UNCHANGED <<cb, client, lock, wl, excused>> /\ ~crashed /\ thread[t].kind \in {"event", "caps", "year"}
    BY <2>1 DEF Use
  <2>3. PICK k : thread' = [thread EXCEPT ![t] = k] /\ k.kind \notin Waking
    <3>1. CASE thread[t].kind = "event"
      BY <1>q, <2>1, <3>1 DEF Use
    <3>2. CASE thread[t].kind # "event"
      <4> DEFINE r == [thread[t] EXCEPT !.kind = "save", !.of = thread[t].kind]
      <4>1. thread' = [thread EXCEPT ![t] = r]
        BY <2>1, <3>2 DEF Use
      <4>2. r.kind = "save"
        BY ThreadTypes
      <4> HIDE DEF r
      <4> QED BY <1>q, <4>1, <4>2
    <3> QED BY <3>1, <3>2
  <2>4. \A u \in Threads : thread'[u] = IF u = t THEN k ELSE thread[u]
    BY <1>k, <2>3
  <2> QED BY <1>1, <1>q, <2>2, <2>3, <2>4
<1>10. CASE \E t \in Threads : Save(t)
  <2>1. PICK t \in Threads : Save(t)
    BY <1>10
  <2>2. UNCHANGED <<cb, client, lock, wl, excused, crashed>> /\ thread[t].kind = "save" /\ thread' = [thread EXCEPT ![t] = Quiet]
    BY <2>1 DEF Save
  <2>3. \A u \in Threads : thread'[u] = IF u = t THEN Quiet ELSE thread[u]
    BY <1>k, <2>2
  <2> QED BY <1>1, <1>q, <2>2, <2>3
<1>11. CASE \E t \in Threads : Wakelock(t)
  <2>1. PICK t \in Threads : Wakelock(t)
    BY <1>11
  <2> DEFINE r == [kind |-> "update", of |-> "gnss", value |-> 0]
  <2>2. /\ UNCHANGED <<cb, client, lock, crashed>> /\ thread[t].kind = "none" /\ thread' = [thread EXCEPT ![t] = r]
        /\ ~excused' => ~excused /\ \A u \in Threads \ {t} : thread[u].kind \notin Waking
    BY <2>1 DEF Wakelock, Calls, Waking
  <2>3. r.kind = "update" /\ "update" \in Waking
    BY DEF Waking
  <2>4. wl'.held = wl.held
    <3>1. \E on \in BOOLEAN : wl' = [wl EXCEPT ![Flag(t)] = on]
      BY <2>1 DEF Wakelock
    <3>2. CASE t = "gps"
      BY <1>0, <3>1, <3>2 DEF Flag
    <3>3. CASE t # "gps"
      BY <1>0, <3>1, <3>3 DEF Flag
    <3> QED BY <3>2, <3>3
  <2> HIDE DEF r
  <2>5. \A u \in Threads : thread'[u] = IF u = t THEN r ELSE thread[u]
    BY <1>k, <2>2
  <2>6. ~excused' => \A u \in Threads : /\ thread'[u].kind \in Waking => u = t
                                        /\ thread'[u].kind \notin {"acquire", "release"}
    BY <2>2, <2>3, <2>5 DEF Waking
  <2> QED BY <2>2, <2>3, <2>4, <2>5, <2>6 DEF Wakelocks
<1>12. CASE \E t \in Threads : updateWakelock(t)
  <2>1. PICK t \in Threads : updateWakelock(t)
    BY <1>12
  <2>2. /\ UNCHANGED <<cb, client, lock, wl, crashed>> /\ thread[t].kind = "update" /\ "update" \in Waking /\ ~crashed
        /\ ~excused' => ~excused /\ cb["gnss"] # None
    BY <2>1 DEF updateWakelock, Waking
  <2>3. CASE excused'
    BY <2>2, <2>3 DEF Wakelocks
  <2>4. CASE ~excused' /\ Wanted(t) = "none"
    <3>1. thread' = [thread EXCEPT ![t] = Quiet]
      BY <2>1, <2>4 DEF updateWakelock
    <3>2. \A u \in Threads : thread'[u] = IF u = t THEN Quiet ELSE thread[u]
      BY <1>k, <3>1
    <3>3. wl.held /\ (wl.gnss \/ wl.fused)
      BY <2>4 DEF Wanted
    <3>4. \A u \in Threads : thread'[u].kind \notin Waking
      BY <1>q, <2>2, <2>4, <3>2 DEF Wakelocks
    <3> QED BY <2>2, <2>4, <3>3, <3>4 DEF Wakelocks, Waking
  <2>5. CASE ~excused' /\ Wanted(t) # "none"
    <3> DEFINE r == [kind |-> Wanted(t), of |-> "gnss", value |-> 0]
    <3>1. thread' = [thread EXCEPT ![t] = r] /\ r.kind = Wanted(t)
      BY <2>1, <2>2, <2>5 DEF updateWakelock
    <3> HIDE DEF r
    <3>2. \A u \in Threads : thread'[u] = IF u = t THEN r ELSE thread[u]
      BY <1>k, <3>1
    <3>3. /\ Wanted(t) \in {"acquire", "release"} /\ Wanted(t) \in Waking
          /\ Wanted(t) = "acquire" => wl.gnss \/ wl.fused
          /\ Wanted(t) = "release" => ~(wl.gnss \/ wl.fused)
      BY <2>5 DEF Wanted, Waking
    <3>4. \A u \in Threads : thread'[u].kind \in Waking <=> u = t
      BY <2>2, <2>5, <3>1, <3>2, <3>3 DEF Wakelocks
    <3>5. \A u \in Threads : thread'[u].kind \in {"acquire", "release"} => u = t
      BY <3>4 DEF Waking
    <3> QED BY <2>2, <2>5, <3>1, <3>2, <3>3, <3>4, <3>5 DEF Wakelocks
  <2> QED BY <2>3, <2>4, <2>5
<1>13. CASE \E t \in Threads : tellWakelock(t)
  <2>1. PICK t \in Threads : tellWakelock(t)
    BY <1>13
  <2>2. /\ UNCHANGED <<cb, client, excused>> /\ ~crashed /\ thread' = [thread EXCEPT ![t] = Quiet]
        /\ crashed' = (cb["gnss"] = None) /\ thread[t].kind \in {"acquire", "release"} /\ thread[t].kind \in Waking
        /\ wl' = [wl EXCEPT !.held = (thread[t].kind = "acquire")]
        /\ lock' = IF cb["gnss"] = None THEN lock ELSE [lock EXCEPT ![cb["gnss"]] = (thread[t].kind = "acquire")]
    BY <2>1 DEF tellWakelock, Waking
  <2>3. /\ wl'.held <=> thread[t].kind = "acquire"
        /\ wl'.gnss = wl.gnss /\ wl'.fused = wl.fused
    BY <1>0, <2>2
  <2>4. \A u \in Threads : thread'[u] = IF u = t THEN Quiet ELSE thread[u]
    BY <1>k, <2>2
  <2>5. CASE cb["gnss"] = None
    <3>1. crashed' /\ lock' = lock
      BY <2>2, <2>5
    <3> QED BY <2>2, <2>5, <3>1 DEF Wakelocks
  <2>6. CASE cb["gnss"] # None
    <3>1. cb["gnss"] = client.id
      BY <2>6 DEF Registration
    <3>2. lock' = [lock EXCEPT ![client.id] = (thread[t].kind = "acquire")]
      BY <2>2, <2>6, <3>1
    <3>3. (lock'[client.id] <=> thread[t].kind = "acquire") /\ \A c \in Clients : c # client.id => lock'[c] = lock[c]
      BY <1>0, <3>2
    <3>4. \A c \in Clients : c > client.id => ~lock'[c]
      BY <1>n, <3>3 DEF Wakelocks
    <3>5. ~excused => \A u \in Threads : thread'[u].kind \notin Waking
      BY <1>q, <2>2, <2>4 DEF Wakelocks
    <3>6. ~excused => (wl'.held <=> wl'.gnss \/ wl'.fused)
      BY <2>2, <2>3 DEF Wakelocks
    <3>7. ~excused => \A u \in Threads : thread'[u].kind \notin {"acquire", "release"}
      BY <3>5 DEF Waking
    <3> QED BY <2>2, <2>3, <3>1, <3>3, <3>4, <3>5, <3>6, <3>7 DEF Wakelocks
  <2> QED BY <2>5, <2>6
<1>14. CASE ClientDies
  <2>1. client'.id = client.id /\ ~client'.alive /\ UNCHANGED <<cb, lock, wl, thread, excused, crashed>>
    BY <1>0, <1>14 DEF ClientDies
  <2> QED BY <2>1 DEF Wakelocks
<1>15. CASE ClientStarts
  <2>1. /\ client'.id = client.id + 1 /\ client.id + 1 \in Clients /\ binder.pc = "idle"
        /\ UNCHANGED <<cb, lock, wl, thread, excused, crashed>> /\ ~client.alive /\ ~notice
    BY <1>15 DEF ClientStarts
  <2>2. cb["gnss"] = None /\ client.id + 1 # None /\ client.id # None
    BY <1>0, <1>c, <2>1 DEF Registration
  <2>3. /\ \A c \in Clients : c > client.id + 1 => c > client.id
        /\ client.id + 1 > client.id
    BY <1>n
  <2>4. /\ \A c \in Clients : c > client'.id => ~lock'[c]
        /\ ~lock'[client'.id]
    BY <2>1, <2>3 DEF Wakelocks
  <2> QED BY <2>1, <2>2, <2>4 DEF Wakelocks
<1> QED BY <1>2, <1>3, <1>4, <1>5, <1>6, <1>7, <1>8, <1>9, <1>10, <1>11, <1>12, <1>13, <1>14, <1>15, Cases, PlainSteps

-----------------------------------------------------------------------------
(* The inductive invariant and the theorems. *)
LEMMA InitIInv == Init => IInv
<1> SUFFICES ASSUME Init
             PROVE  IInv
  OBVIOUS
<1>0. /\ 1 \in Clients /\ Clients \subseteq Nat /\ None = 0 /\ None \notin Clients /\ 0 \in Values /\ "gnss" \in Interfaces
      /\ device \in [iface : BOOLEAN, implements : SUBSET Extensions] /\ Threads = {"gps", "flp"}
  BY ClientAssumption, DeviceAssumption DEF None, Values, Interfaces, Init, Threads
<1>q. /\ Quiet \in [kind : Kinds, of : Interfaces \cup Infos, value : Values] /\ Quiet.kind = "none"
      /\ "none" \notin Waking \cup Infos \cup {"save", "event"}
  BY <1>0 DEF Quiet, Kinds, Waking, Infos
<1>t. \A t \in Threads : thread[t] = Quiet
  BY DEF Init
<1>b. binder.pc = "idle"
  BY DEF Init, Idle
<1>1. Carried
  <2>1. Idle \in [pc : {"idle", "resend", "init", "forget"}, who : Clients \cup {None}, info : [Infos -> Values]]
    BY <1>0 DEF Idle
  <2>2. thread["flp"].kind = "none"
    BY <1>0, <1>q, <1>t
  <2>3. \A t \in Threads : thread[t].kind = "none"
    BY <1>q, <1>t
  <2>4. thread \in [Threads -> [kind : Kinds, of : Interfaces \cup Infos, value : Values]]
    BY <1>q DEF Init
  <2>5. "none" \notin {"caps", "year"} \cup Waking
    BY <1>q DEF Infos
  <2> QED BY <1>q, <2>1, <2>2, <2>3, <2>4, <2>5 DEF Carried, Init
<1>2. LibraryOK /\ ValuesOK /\ LocksOK /\ FlagsOK
  <2>1. LibraryOK
    BY DEF Init, LibraryOK, HalStates
  <2>2. ValuesOK
    BY <1>0 DEF Init, ValuesOK
  <2>3. LocksOK /\ FlagsOK
    BY DEF Init, LocksOK, FlagsOK
  <2> QED BY <2>1, <2>2, <2>3
<1>3. TypeOK
  BY <1>1, <1>2, TypeParts
<1>4. Looked
  BY <1>q, <1>t DEF Looked, NullOnlyIfLate, Init, Waking
<1>5. Registration
  BY <1>0, <1>b DEF Init, Registration
<1>6. Ended
  BY <1>0, <1>b DEF Init, Ended
<1>7. Info
  BY <1>0, <1>b DEF Init, Info
<1>8. Wakelocks
  <2>1. \A t \in Threads : thread[t].kind \notin Waking /\ thread[t].kind \notin {"acquire", "release"}
    BY <1>q, <1>t DEF Waking
  <2> QED BY <1>0, <2>1 DEF Init, Wakelocks
<1> QED BY <1>1, <1>3, <1>4, <1>5, <1>6, <1>7, <1>8 DEF IInv

LEMMA StepIInv == IInv /\ [Next]_vars => IInv'
<1> SUFFICES ASSUME IInv, [Next]_vars
             PROVE  IInv'
  OBVIOUS
<1>1. CASE Next
  <2>1. Carried'
    BY <1>1, CarriedKeeps DEF IInv
  <2>2. LibraryOK' /\ ValuesOK' /\ LocksOK' /\ FlagsOK'
    BY <1>1, LibraryKeeps, ValuesKeep, LocksKeep, FlagsKeep DEF IInv
  <2>3. (Carried => (TypeOK <=> LibraryOK /\ ValuesOK /\ LocksOK /\ FlagsOK))'
    BY TypeParts, PTL
  <2>4. TypeOK'
    BY <2>1, <2>2, <2>3
  <2>5. Looked' /\ Registration' /\ Ended' /\ Info' /\ Wakelocks'
    BY <1>1, LookedKeeps, RegistrationKeeps, EndedKeeps, InfoKeeps, WakelocksKeep DEF IInv
  <2> QED BY <2>1, <2>4, <2>5 DEF IInv
<1>2. CASE UNCHANGED vars
  BY <1>2 DEF vars, IInv, TypeOK, Carried, Looked, NullOnlyIfLate, Registration, Ended, Info, Wakelocks
<1> QED BY <1>1, <1>2

LEMMA Invariant == Spec => []IInv
BY InitIInv, StepIInv, PTL DEF Spec

(* Every variable keeps its type, and a callback uses a null pointer only if *)
(* setCallback() of an extension or handleHidlDeath() cleared the pointer    *)
(* after the callback had looked at it: for any number of framework          *)
(* processes, any device and any number of calls and callbacks. *)
THEOREM Pointers == Spec => []PointersInv
<1>1. IInv => PointersInv
  BY DEF IInv, PointersInv, Looked
<1> QED BY <1>1, Invariant, PTL

(* A registered framework process, the first or a later one, knows the       *)
(* capabilities and the year of hardware the library reported last and holds *)
(* the wakelock exactly if one of the libraries wants it, but for the named  *)
(* races of setCallback() and updateWakelock(). *)
THEOREM Served == Spec => []ClientServed
<1>1. IInv => ClientServed
  <2> SUFFICES ASSUME IInv
               PROVE  ClientServed
    OBVIOUS
  <2>0. /\ told \in [Clients -> [Infos -> Values]] /\ cached \in [Infos -> Values] /\ client.id \in Clients
        /\ lock \in [Clients -> BOOLEAN] /\ wl \in [gnss : BOOLEAN, fused : BOOLEAN, held : BOOLEAN] /\ "gps" \in Threads
    BY DEF IInv, TypeOK, Values, Threads
  <2>1. InfoReachesClient
    <3> SUFFICES ASSUME binder.pc = "idle", cb["gnss"] = client.id, "info" \notin late,
                        \A t \in Threads : thread[t].kind # "save"
                 PROVE  told[client.id] = cached
      BY DEF InfoReachesClient
    <3>1. \A i \in Infos : told[client.id][i] = cached[i]
      BY <2>0 DEF IInv, Info
    <3>2. told[client.id] \in [Infos -> Values]
      BY <2>0
    <3> QED BY <2>0, <3>1, <3>2
  <2>2. WakelockFollows
    <3> SUFFICES ASSUME ~excused, WakelockQuiet, cb["gnss"] = client.id
                 PROVE  lock[client.id] = (wl.gnss \/ wl.fused)
      BY DEF WakelockFollows, WakelockConsolidated
    <3>1. ~crashed /\ \A t \in Threads : thread[t].kind \notin Waking
      BY DEF WakelockQuiet, Waking
    <3>2. lock[client.id] <=> wl.gnss \/ wl.fused
      BY <3>1 DEF IInv, Wakelocks
    <3>3. lock[client.id] \in BOOLEAN
      BY <2>0
    <3> QED BY <3>2, <3>3
  <2> QED BY <2>1, <2>2 DEF ClientServed
<1> QED BY <1>1, Invariant, PTL

(* handleHidlDeath(): when the callback pointer of a dead process is         *)
(* cleared, the library neither tracks nor measures nor batches for it. *)
THEOREM Silent == Spec => QuietAfterDeath
<1>1. IInv /\ [Next]_vars
        => [handleHidlDeathForget => \A i \in {"gnss", "measurement", "navigation", "batching"} : hal'[i] = "closed"]_vars
  BY DEF IInv, Ended, Stopped, handleHidlDeathForget
<1> QED BY <1>1, Invariant, PTL DEF Spec, QuietAfterDeath

-----------------------------------------------------------------------------
(* GnssConvert: what the framework is told means what the library said. *)

LEMMA GC_Least ==
    ASSUME NEW W \in SUBSET Nat, W # {}
    PROVE  \E j \in W : \A k \in W : j <= k
<1>1. PICK j \in W : \A k \in W : ~(<<k, j>> \in OpToRel(<, Nat))
  BY NatLessThanWellFounded, WFMin
<1>2. OpToRel(<, Nat) = {ss \in Nat \X Nat : ss[1] < ss[2]}
  BY Zenon DEF OpToRel
<1>3. PICK R : R = OpToRel(<, Nat)
  BY Zenon
<1>4. \A k \in W : ~(<<k, j>> \in R)
  BY <1>1, <1>3, Zenon
<1>5. R = {ss \in Nat \X Nat : ss[1] < ss[2]}
  BY <1>2, <1>3, Zenon
<1>6. ASSUME NEW k \in W PROVE j <= k
  <2>1. j \in Nat /\ k \in Nat /\ ~(<<k, j>> \in R)
    BY <1>4
  <2>2. <<k, j>> \in Nat \X Nat /\ <<k, j>>[1] = k /\ <<k, j>>[2] = j
    BY <2>1
  <2>3. ~(k < j)
    BY <1>5, <2>1, <2>2, Zenon
  <2> QED BY <2>1, <2>3
<1> QED BY <1>6

(* How many of a set of slots there are up to slot j. *)
GC_Upto(good, j) == {k \in good : k <= j}

LEMMA GC_In ==
    ASSUME NEW m \in Nat, NEW good \in SUBSET (1 .. m), NEW j
    PROVE  /\ \A k : k \in GC_Upto(good, j) <=> k \in good /\ k <= j
           /\ \A k \in good : k \in Nat /\ k >= 1 /\ k <= m
<1>1. \A k \in good : k \in 1 .. m
  OBVIOUS
<1> QED BY <1>1 DEF GC_Upto

LEMMA GC_Count ==
    ASSUME NEW m \in Nat, NEW good \in SUBSET (1 .. m), NEW j \in Nat
    PROVE  /\ IsFiniteSet(good) /\ Cardinality(good) \in Nat /\ Cardinality(good) <= m
           /\ IsFiniteSet(GC_Upto(good, j)) /\ Cardinality(GC_Upto(good, j)) \in Nat
           /\ Cardinality(GC_Upto(good, j)) <= j /\ Cardinality(GC_Upto(good, j)) <= Cardinality(good)
<1>1. IsFiniteSet(1 .. m) /\ Cardinality(1 .. m) = m /\ IsFiniteSet(1 .. j) /\ Cardinality(1 .. j) = j
  BY FS_Interval
<1>2. IsFiniteSet(good) /\ Cardinality(good) <= m
  BY <1>1, FS_Subset
<1>3. GC_Upto(good, j) \in SUBSET good /\ GC_Upto(good, j) \in SUBSET (1 .. j)
  <2>1. \A k \in GC_Upto(good, j) : k \in good /\ k <= j
    BY DEF GC_Upto
  <2>2. \A k \in good : k \in Nat /\ k >= 1
    BY GC_In
  <2>3. ASSUME NEW k \in GC_Upto(good, j) PROVE k \in good /\ k \in 1 .. j
    <3>1. k \in good /\ k \in Nat /\ k >= 1 /\ k <= j
      BY <2>1, <2>2
    <3> QED BY <3>1
  <2> QED BY <2>3
<1>4. IsFiniteSet(GC_Upto(good, j)) /\ Cardinality(GC_Upto(good, j)) <= j
  BY <1>1, <1>3, FS_Subset
<1>5. Cardinality(GC_Upto(good, j)) <= Cardinality(good)
  BY <1>2, <1>3, FS_Subset
<1> QED BY <1>2, <1>4, <1>5, FS_CardinalityType

(* The slots of a batch can be told by their count. *)
LEMMA GC_Slot ==
    ASSUME NEW m \in Nat, NEW good \in SUBSET (1 .. m), NEW i \in 1 .. Cardinality(good)
    PROVE  \E j \in good : Cardinality(GC_Upto(good, j)) = i
<1> DEFINE W == {j \in Nat : Cardinality(GC_Upto(good, j)) >= i}
<1>0. Cardinality(good) \in Nat /\ i \in Nat /\ i >= 1 /\ i <= Cardinality(good)
  BY GC_Count
<1>1. GC_Upto(good, m) = good
  BY GC_In
<1>2. m \in W /\ W \in SUBSET Nat
  BY <1>0, <1>1
<1>3. PICK j \in W : \A k \in W : j <= k
  <2> HIDE DEF W
  <2> QED BY <1>2, GC_Least
<1>4. j \in Nat /\ Cardinality(GC_Upto(good, j)) >= i
  OBVIOUS
<1>5. j # 0
  <2>1. GC_Upto(good, 0) = {}
    <3>1. \A k \in GC_Upto(good, 0) : k \in good /\ k <= 0
      BY DEF GC_Upto
    <3>2. \A k \in good : k \in Nat /\ k >= 1
      BY GC_In
    <3>3. ASSUME NEW k \in GC_Upto(good, 0) PROVE FALSE
      <4>1. k \in Nat /\ k >= 1 /\ k <= 0
        BY <3>1, <3>2
      <4> QED BY <4>1
    <3> QED BY <3>3
  <2> QED BY <1>0, <1>4, <2>1, FS_EmptySet
<1>6. j - 1 \in Nat /\ j - 1 \notin W
  BY <1>3, <1>4, <1>5
<1>p. PICK P : P = GC_Upto(good, j - 1)
  OBVIOUS
<1>7. Cardinality(P) \in Nat /\ IsFiniteSet(P) /\ Cardinality(P) < i
  <2>1. Cardinality(P) \in Nat /\ IsFiniteSet(P)
    BY <1>6, <1>p, GC_Count
  <2>2. ~(Cardinality(P) >= i)
    BY <1>6, <1>p
  <2> QED BY <1>0, <2>1, <2>2
<1>8. j \in good
  <2> SUFFICES ASSUME j \notin good PROVE FALSE
    OBVIOUS
  <2>1. GC_Upto(good, j) = P
    <3>0. \A k \in good : k \in Nat /\ k # j
      BY GC_In
    <3>1. \A k \in good : k <= j <=> k <= j - 1
      BY <1>4, <3>0
    <3>2. P = {k \in good : k <= j - 1}
      BY <1>p DEF GC_Upto
    <3> QED BY <3>1, <3>2 DEF GC_Upto
  <2> QED BY <1>0, <1>4, <1>7, <2>1
<1>9. GC_Upto(good, j) = P \cup {j} /\ j \notin P
  <2>0. \A k \in good : k \in Nat
    BY GC_In
  <2>1. \A k \in good : k <= j <=> k <= j - 1 \/ k = j
    BY <1>4, <2>0
  <2>2. ~(j <= j - 1)
    BY <1>4
  <2>3. P = {k \in good : k <= j - 1}
    BY <1>p DEF GC_Upto
  <2> QED BY <1>8, <2>1, <2>2, <2>3 DEF GC_Upto
<1>10. Cardinality(GC_Upto(good, j)) = Cardinality(P) + 1
  BY <1>7, <1>9, FS_AddElement
<1>11. Cardinality(GC_Upto(good, j)) = i
  BY <1>0, <1>4, <1>7, <1>10
<1> QED BY <1>8, <1>11

LEMMA GC_OneSlot ==
    ASSUME NEW m \in Nat, NEW good \in SUBSET (1 .. m), NEW j \in good, NEW l \in good,
           Cardinality(GC_Upto(good, j)) = Cardinality(GC_Upto(good, l))
    PROVE  j = l
<1>1. ASSUME NEW a \in good, NEW b \in good, a < b
      PROVE  Cardinality(GC_Upto(good, a)) # Cardinality(GC_Upto(good, b))
  <2>1. a \in Nat /\ b \in Nat
    BY GC_In
  <2>2. GC_Upto(good, a) \in SUBSET GC_Upto(good, b) /\ b \in GC_Upto(good, b) /\ b \notin GC_Upto(good, a)
    <3>1. \A k \in good : k <= a => k <= b
      BY <1>1, GC_In
    <3>2. ~(b <= a) /\ b <= b
      BY <1>1, <2>1
    <3> QED BY <3>1, <3>2, GC_In
  <2>3. IsFiniteSet(GC_Upto(good, b))
    BY <2>1, GC_Count
  <2> QED BY <2>2, <2>3, FS_Subset
<1>2. j \in Nat /\ l \in Nat
  OBVIOUS
<1>3. ~(j < l) /\ ~(l < j)
  BY <1>1
<1> QED BY <1>2, <1>3

LEMMA GC_Held ==
    ASSUME NEW m \in Nat, NEW good \in SUBSET (1 .. m), NEW j \in good
    PROVE  Cardinality(GC_Upto(good, j)) \in 1 .. Cardinality(good)
<1>1. j \in Nat /\ j \in GC_Upto(good, j)
  BY DEF GC_Upto
<1>2. /\ IsFiniteSet(GC_Upto(good, j)) /\ Cardinality(GC_Upto(good, j)) \in Nat /\ Cardinality(good) \in Nat
      /\ Cardinality(GC_Upto(good, j)) <= Cardinality(good)
  BY <1>1, GC_Count
<1>3. Cardinality(GC_Upto(good, j)) # 0
  BY <1>1, <1>2, FS_EmptySet
<1> QED BY <1>2, <1>3

LEMMA GC_Cardinality == \A S : GC!Cardinality(S) = Cardinality(S)
BY DEF GC!Cardinality, Cardinality

-----------------------------------------------------------------------------
(* The conversions. *)
LEMMA GC_Flp == ASSUME NEW flags \in SUBSET Nat PROVE GC!convertFlpLocation(flags) = flags \cap (0 .. 4)
<1>1. DOMAIN GC!FlpLocationFlags = {"LAT_LONG", "ALTITUDE", "SPEED", "BEARING", "HORIZONTAL_ACCURACY"}
  BY DEF GC!FlpLocationFlags
<1>2. /\ GC!FlpLocationFlags["LAT_LONG"] = 0 /\ GC!FlpLocationFlags["ALTITUDE"] = 1 /\ GC!FlpLocationFlags["SPEED"] = 2
      /\ GC!FlpLocationFlags["BEARING"] = 3 /\ GC!FlpLocationFlags["HORIZONTAL_ACCURACY"] = 4
  BY DEF GC!FlpLocationFlags
<1>3. /\ GC!GpsLocationFlags["LAT_LONG"] = 0 /\ GC!GpsLocationFlags["ALTITUDE"] = 1 /\ GC!GpsLocationFlags["SPEED"] = 2
      /\ GC!GpsLocationFlags["BEARING"] = 3 /\ GC!GpsLocationFlags["HORIZONTAL_ACCURACY"] = 4
  BY DEF GC!GpsLocationFlags
<1> QED BY <1>1, <1>2, <1>3 DEF GC!convertFlpLocation

LEMMA GC_Identities ==
    ASSUME NEW p \in Int
    PROVE  \/ p \in 1 .. 32 /\ GC!Identity(p) = [constellation |-> "GPS", svid |-> p]
           \/ p \in 65 .. 88 /\ GC!Identity(p) = [constellation |-> "GLONASS", svid |-> p - 64]
           \/ p \in 201 .. 235 /\ GC!Identity(p) = [constellation |-> "BEIDOU", svid |-> p - 200]
           \/ p \in 33 .. 64 /\ GC!Identity(p) = [constellation |-> "SBAS", svid |-> p + 87]
           \/ p \in 193 .. 200 /\ GC!Identity(p) = [constellation |-> "QZSS", svid |-> p]
           \/ GC!Identity(p) = [constellation |-> "UNKNOWN", svid |-> p]
BY DEF GC!Identity, GC!GLONASS, GC!BEIDOU, GC!SBAS, GC!QZSS

LEMMA GC_Unique ==
    ASSUME NEW p \in SatelliteNumbers
    PROVE  /\ GC!Identity(p).svid \in GC!SvidRange(GC!Identity(p).constellation)
           /\ \A q \in SatelliteNumbers \ {p} : GC!Identity(q) # GC!Identity(p)
<1> USE ConvertAssumption
<1>1. GC!Identity(p).svid \in GC!SvidRange(GC!Identity(p).constellation)
  <2>i. p \in Int
    OBVIOUS
  <2>2. CASE p \in 1 .. 32 /\ GC!Identity(p) = [constellation |-> "GPS", svid |-> p]
    <3>1. GC!SvidRange("GPS") = 1 .. 32
      BY DEF GC!SvidRange
    <3>2. p \in 1 .. 32
      BY <2>2
    <3>3. GC!Identity(p).svid = p /\ GC!Identity(p).constellation = "GPS"
      BY <2>2
    <3> QED BY <3>1, <3>2, <3>3, Zenon
  <2>3. CASE p \in 65 .. 88 /\ GC!Identity(p) = [constellation |-> "GLONASS", svid |-> p - 64]
    <3>1. GC!SvidRange("GLONASS") = 1 .. 24 \cup 93 .. 106
      BY DEF GC!SvidRange
    <3>2. p - 64 \in 1 .. 24 \cup 93 .. 106
      BY <2>3
    <3>3. GC!Identity(p).svid = p - 64 /\ GC!Identity(p).constellation = "GLONASS"
      BY <2>3
    <3> QED BY <3>1, <3>2, <3>3, Zenon
  <2>4. CASE p \in 201 .. 235 /\ GC!Identity(p) = [constellation |-> "BEIDOU", svid |-> p - 200]
    <3>1. GC!SvidRange("BEIDOU") = 1 .. 37
      BY DEF GC!SvidRange
    <3>2. p - 200 \in 1 .. 37
      BY <2>4
    <3>3. GC!Identity(p).svid = p - 200 /\ GC!Identity(p).constellation = "BEIDOU"
      BY <2>4
    <3> QED BY <3>1, <3>2, <3>3, Zenon
  <2>5. CASE p \in 33 .. 64 /\ GC!Identity(p) = [constellation |-> "SBAS", svid |-> p + 87]
    <3>1. GC!SvidRange("SBAS") = 120 .. 151 \cup 183 .. 192
      BY DEF GC!SvidRange
    <3>2. p + 87 \in 120 .. 151 \cup 183 .. 192
      BY <2>5
    <3>3. GC!Identity(p).svid = p + 87 /\ GC!Identity(p).constellation = "SBAS"
      BY <2>5
    <3> QED BY <3>1, <3>2, <3>3, Zenon
  <2>6. CASE p \in 193 .. 200 /\ GC!Identity(p) = [constellation |-> "QZSS", svid |-> p]
    <3>1. GC!SvidRange("QZSS") = 193 .. 200
      BY DEF GC!SvidRange
    <3>2. p \in 193 .. 200
      BY <2>6
    <3>3. GC!Identity(p).svid = p /\ GC!Identity(p).constellation = "QZSS"
      BY <2>6
    <3> QED BY <3>1, <3>2, <3>3, Zenon
  <2>7. CASE GC!Identity(p) = [constellation |-> "UNKNOWN", svid |-> p]
    <3>1. GC!SvidRange("UNKNOWN") = SatelliteNumbers
      BY DEF GC!SvidRange
    <3>2. p \in SatelliteNumbers
      BY <2>7
    <3>3. GC!Identity(p).svid = p /\ GC!Identity(p).constellation = "UNKNOWN"
      BY <2>7
    <3> QED BY <3>1, <3>2, <3>3, Zenon
  <2> QED BY <2>i, <2>2, <2>3, <2>4, <2>5, <2>6, <2>7, GC_Identities
<1>2. ASSUME NEW q \in SatelliteNumbers, GC!Identity(q) = GC!Identity(p)
      PROVE  q = p
  BY <1>2, GC_Identities
<1> QED BY <1>1, <1>2

LEMMA GC_Modulo == ASSUME NEW n \in 0 .. CountLimit - 1 PROVE GC!NextCount(n) \in 0 .. CountLimit - 1 /\ GC!NextCount(n) # n
<1> USE ConvertAssumption
<1>1. CASE n + 1 < CountLimit
  <2>1. (n + 1) % CountLimit = n + 1
    BY <1>1
  <2> QED BY <1>1, <2>1 DEF GC!NextCount
<1>2. CASE n + 1 = CountLimit
  <2>1. CountLimit % CountLimit = 0
    OBVIOUS
  <2> QED BY <1>2, <2>1 DEF GC!NextCount
<1> QED BY <1>1, <1>2

-----------------------------------------------------------------------------
(* A batch: what was asked for, in its order. *)
GC_Asked(n, b, fixes) ==
    /\ Len(fixes) <= BatchLimit
    /\ \A i \in DOMAIN fixes : \E j \in {k \in DOMAIN b : b[k].kind = "gnss"} : i <= j /\ fixes[i] = b[j].flags \cap (0 .. 4)
    /\ n >= 0 /\ Len(b) <= BatchLimit =>
         \A j \in {k \in DOMAIN b : b[k].kind = "gnss"} : \E i \in DOMAIN fixes : fixes[i] = b[j].flags \cap (0 .. 4)

LEMMA GC_Clip ==
    ASSUME NEW length \in Nat, NEW limit \in Nat, NEW n \in Int, n = -1 \/ n = length,
           NEW m, m = IF n < 0 THEN 0 ELSE IF n > limit THEN limit ELSE n
    PROVE  /\ m \in Nat /\ m <= length /\ m <= limit /\ (n >= 0 /\ length <= limit => m = length)
           /\ \A k \in 1 .. m : k \in 1 .. length
OBVIOUS

LEMMA GC_Batch ==
    ASSUME NEW b \in Seq([kind : {"null", "gnss", "flp"}, flags : SUBSET Nat]), NEW n \in {-1, Len(b)}, NEW fixes,
           fixes = [i \in 1 .. Len(GC!Batch(n, b)) |-> GC!convertFlpLocation(GC!Batch(n, b)[i].flags)]
    PROVE  GC_Asked(n, b, fixes)
<1> USE ConvertAssumption
<1>m. PICK m : m = IF n < 0 THEN 0 ELSE IF n > BatchLimit THEN BatchLimit ELSE n
  OBVIOUS
<1>0. Len(b) \in Nat /\ DOMAIN b = 1 .. Len(b)
  OBVIOUS
<1>1. /\ m \in Nat /\ m <= Len(b) /\ m <= BatchLimit /\ (n >= 0 /\ Len(b) <= BatchLimit => m = Len(b))
      /\ \A k \in 1 .. m : k \in 1 .. Len(b)
  <2>1. PICK length : length = Len(b)
    OBVIOUS
  <2>2. length \in Nat /\ BatchLimit \in Nat /\ n \in Int /\ (n = -1 \/ n = length)
    <3>1. n = -1 \/ n = length
      BY <2>1, Zenon
    <3>2. length \in Nat
      BY <1>0, <2>1
    <3>3. BatchLimit \in Nat
      OBVIOUS
    <3>4. n \in Int
      BY <3>1, <3>2
    <3> QED BY <3>1, <3>2, <3>3, <3>4
  <2>3. /\ m \in Nat /\ m <= length /\ m <= BatchLimit /\ (n >= 0 /\ length <= BatchLimit => m = length)
        /\ \A k \in 1 .. m : k \in 1 .. length
    BY <1>m, <2>2, GC_Clip
  <2> QED BY <2>1, <2>3
<1>g. PICK good : good = {j \in 1 .. m : b[j].kind = "gnss"}
  OBVIOUS
<1>2. good \in SUBSET (1 .. m) /\ good \subseteq DOMAIN b
  <2>1. \A k \in good : k \in 1 .. m
    BY <1>g
  <2>2. \A k \in 1 .. m : k \in DOMAIN b
    BY <1>0, <1>1
  <2> QED BY <2>1, <2>2
<1>c. PICK c : c = Cardinality(good)
  OBVIOUS
<1>3. c \in Nat /\ c <= m
  BY <1>1, <1>2, <1>c, GC_Count
<1>s. PICK slot : slot = [i \in 1 .. c |-> CHOOSE j \in good : Cardinality(GC_Upto(good, j)) = i]
  OBVIOUS
<1>4. ASSUME NEW i \in 1 .. c
      PROVE  slot[i] \in good /\ Cardinality(GC_Upto(good, slot[i])) = i
  <2>1. \E j \in good : Cardinality(GC_Upto(good, j)) = i
    <3>1. m \in Nat
      BY <1>1
    <3>2. good \in SUBSET (1 .. m)
      BY <1>2
    <3>3. i \in 1 .. Cardinality(good)
      BY <1>c
    <3> HIDE ConvertAssumption
    <3> QED BY <3>1, <3>2, <3>3, GC_Slot
  <2>2. slot[i] = CHOOSE j \in good : Cardinality(GC_Upto(good, j)) = i
    BY <1>s
  <2> QED BY <2>1, <2>2
<1>5. GC!Batch(n, b) = [i \in 1 .. c |-> b[slot[i]]]
  <2>1. good = {j \in 1 .. m : GC!Requested(b[j])}
    BY <1>g DEF GC!Requested
  <2>2. \A i \in 1 .. c : slot[i] = CHOOSE j \in good : GC!Cardinality({k \in good : k <= j}) = i
    BY <1>s, GC_Cardinality, Zenon DEF GC_Upto
  <2>3. GC!Batch(n, b) = [i \in 1 .. GC!Cardinality(good) |-> b[CHOOSE j \in good : GC!Cardinality({k \in good : k <= j}) = i]]
    BY <1>m, <2>1 DEF GC!Batch
  <2>4. GC!Cardinality(good) = c
    BY <1>c, GC_Cardinality
  <2> QED BY <2>2, <2>3, <2>4
<1>6. /\ DOMAIN fixes = 1 .. c /\ Len(fixes) = c
      /\ \A i \in 1 .. c : fixes[i] = GC!convertFlpLocation(b[slot[i]].flags)
  <2>1. PICK q : q = [i \in 1 .. c |-> b[slot[i]]]
    OBVIOUS
  <2>2. Len(q) = c /\ \A i \in 1 .. c : q[i] = b[slot[i]]
    BY <1>3, <2>1
  <2>3. fixes = [i \in 1 .. Len(q) |-> GC!convertFlpLocation(q[i].flags)]
    BY <1>5, <2>1
  <2>4. fixes = [i \in 1 .. c |-> GC!convertFlpLocation(q[i].flags)]
    BY <2>2, <2>3
  <2>5. DOMAIN fixes = 1 .. c /\ Len(fixes) = c /\ \A i \in 1 .. c : fixes[i] = GC!convertFlpLocation(q[i].flags)
    <3>1. \A i \in 1 .. c : fixes[i] = GC!convertFlpLocation(q[i].flags)
      BY <2>4
    <3>2. PICK value : value = [i \in 1 .. c |-> fixes[i]]
      OBVIOUS
    <3>3. fixes = value
      BY <2>4, <3>1, <3>2
    <3>4. DOMAIN value = 1 .. c /\ Len(value) = c
      BY <1>3, <3>2
    <3> QED BY <3>1, <3>3, <3>4
  <2> QED BY <2>2, <2>5
<1>7. \A j \in good : b[j].flags \in SUBSET Nat /\ b[j].kind = "gnss" /\ j \in DOMAIN b
  <2>1. \A j \in good : b[j] \in [kind : {"null", "gnss", "flp"}, flags : SUBSET Nat]
    BY <1>0, <1>2, ElementOfSeq
  <2> QED BY <1>2, <1>g, <2>1
<1>8. \A i \in 1 .. c : fixes[i] = b[slot[i]].flags \cap (0 .. 4)
  BY <1>4, <1>6, <1>7, GC_Flp
<1>9. ASSUME NEW i \in 1 .. c
      PROVE  i <= slot[i]
  <2>1. slot[i] \in Nat /\ slot[i] \in good
    <3>1. slot[i] \in good
      BY <1>4
    <3>2. \A k \in good : k \in Nat
      BY <1>1, <1>2, GC_In
    <3> QED BY <3>1, <3>2
  <2>2. Cardinality(GC_Upto(good, slot[i])) <= slot[i]
    BY <1>1, <1>2, <2>1, GC_Count
  <2> QED BY <1>4, <2>2
<1>10. \A i \in DOMAIN fixes : \E j \in {k \in DOMAIN b : b[k].kind = "gnss"} : i <= j /\ fixes[i] = b[j].flags \cap (0 .. 4)
  <2>1. ASSUME NEW i \in DOMAIN fixes
        PROVE  \E j \in {k \in DOMAIN b : b[k].kind = "gnss"} : i <= j /\ fixes[i] = b[j].flags \cap (0 .. 4)
    <3>1. i \in 1 .. c
      BY <1>6
    <3>2. slot[i] \in good /\ i <= slot[i] /\ fixes[i] = b[slot[i]].flags \cap (0 .. 4)
      BY <1>4, <1>8, <1>9, <3>1
    <3>3. slot[i] \in {k \in DOMAIN b : b[k].kind = "gnss"}
      BY <1>7, <3>2
    <3> QED BY <3>2, <3>3
  <2> QED BY <2>1
<1>11. ASSUME n >= 0 /\ Len(b) <= BatchLimit, NEW j \in DOMAIN b, b[j].kind = "gnss"
       PROVE  \E i \in DOMAIN fixes : fixes[i] = b[j].flags \cap (0 .. 4)
  <2>1. j \in good
    BY <1>0, <1>1, <1>g, <1>11
  <2>i. PICK i : i = Cardinality(GC_Upto(good, j))
    OBVIOUS
  <2>2. i \in 1 .. c
    BY <1>1, <1>2, <1>c, <2>1, <2>i, GC_Held
  <2>3. slot[i] = j
    <3>1. slot[i] \in good /\ Cardinality(GC_Upto(good, slot[i])) = Cardinality(GC_Upto(good, j))
      BY <1>4, <2>2, <2>i
    <3>2. m \in Nat /\ good \in SUBSET (1 .. m)
      BY <1>1, <1>2
    <3>3. PICK l : l = slot[i]
      OBVIOUS
    <3>4. l \in good /\ Cardinality(GC_Upto(good, l)) = Cardinality(GC_Upto(good, j))
      BY <3>1, <3>3
    <3>5. l = j
      BY <2>1, <3>2, <3>4, GC_OneSlot
    <3> QED BY <3>3, <3>5
  <2> QED BY <1>6, <1>8, <2>2, <2>3
<1>12. Len(fixes) <= BatchLimit
  BY <1>1, <1>3, <1>6
<1> QED BY <1>10, <1>11, <1>12 DEF GC_Asked

-----------------------------------------------------------------------------
(* The count of the clocks of GPS time is one ahead of the one that was told last. *)
GC_Counts ==
    /\ gc_discontinuity_count_to_handle_old_clock_type \in 0 .. CountLimit - 1
    /\ IF gc_arg.cb = "clock" /\ gc_arg.clock.type = "gps"
         THEN /\ gc_sent.clock.count \in 0 .. CountLimit - 1
              /\ gc_discontinuity_count_to_handle_old_clock_type = GC!NextCount(gc_sent.clock.count)
         ELSE \/ gc_before = -1
              \/ /\ gc_before \in 0 .. CountLimit - 1
                 /\ gc_discontinuity_count_to_handle_old_clock_type = GC!NextCount(gc_before)

GC_IInv == GC_Counts /\ GC!ConversionsKept

LEMMA GC_Others ==
    ASSUME gc_arg'.cb \notin {"gpsSvStatus", "location", "batch", "clock", "agps"}
    PROVE  GC!ConversionsKept'
BY DEF GC!ConversionsKept, GC!SvIdentityUnique, GC!LocationClaims, GC!BatchAsRequested, GC!GpsTimeKept,
       GC!DiscontinuityTold, GC!AgnssStatusAsIs

LEMMA GC_NoClock ==
    ASSUME GC_Counts, gc_arg = GC!NotSent, gc_arg'.cb # "clock", UNCHANGED GC!Clocks
    PROVE  GC_Counts'
<1>1. gc_arg.cb = "none"
  BY DEF GC!NotSent
<1> QED BY <1>1 DEF GC_Counts, GC!Clocks, GC!NextCount

LEMMA GC_SvStatus == ASSUME GC_IInv, GC!gpsSvStatusCb PROVE GC_IInv'
<1>1. PICK p \in SatelliteNumbers, n \in ListLengths, mask \in FlagWords :
        /\ gc_arg = GC!NotSent /\ gc_arg' = [cb |-> "gpsSvStatus", prn |-> p, num_svs |-> n, mask |-> mask]
        /\ gc_sent' = [cb |-> "gnssSvStatus", id |-> GC!Identity(p), svFlag |-> GC!SvFlags(GC!Identity(p), mask), numSvs |-> GC!numSvs(n)]
        /\ UNCHANGED GC!Clocks
  BY DEF GC!gpsSvStatusCb, GC!Send
<1>2. gc_arg'.cb = "gpsSvStatus" /\ gc_arg'.prn = p /\ gc_sent'.id = GC!Identity(p)
  BY <1>1
<1>3. GC!SvIdentityUnique'
  BY <1>2, GC_Unique DEF GC!SvIdentityUnique
<1>4. GC!ConversionsKept'
  BY <1>2, <1>3 DEF GC!ConversionsKept, GC!LocationClaims, GC!BatchAsRequested, GC!GpsTimeKept,
       GC!DiscontinuityTold, GC!AgnssStatusAsIs
<1>5. GC_Counts'
  BY <1>1, <1>2, GC_NoClock DEF GC_IInv
<1> QED BY <1>4, <1>5 DEF GC_IInv

LEMMA GC_Location == ASSUME GC_IInv, GC!locationCb PROVE GC_IInv'
<1> USE ConvertAssumption
<1>1. PICK flags \in FlagWords :
        /\ gc_arg = GC!NotSent /\ gc_arg' = [cb |-> "location", flags |-> flags]
        /\ gc_sent' = [cb |-> "location", flags |-> GC!convertToGnssLocation(flags)] /\ UNCHANGED GC!Clocks
  BY DEF GC!locationCb, GC!Send
<1>2. gc_arg'.cb = "location" /\ gc_arg'.flags = flags /\ gc_sent'.flags = flags \cap (0 .. 4) /\ flags \in SUBSET Nat
  BY <1>1 DEF GC!convertToGnssLocation
<1>3. GC!LocationClaims'
  <2>1. GC!GpsLocationFlags.HORIZONTAL_ACCURACY = 4
    BY DEF GC!GpsLocationFlags
  <2>2. flags \cap (0 .. 4) = {x \in flags : x <= 4}
    <3>1. ASSUME NEW x \in flags PROVE x \in 0 .. 4 <=> x <= 4
      <4>1. x \in Nat
        BY <1>2
      <4> QED BY <4>1
    <3> QED BY <3>1
  <2> QED BY <1>2, <2>1, <2>2 DEF GC!LocationClaims
<1>4. GC!ConversionsKept'
  BY <1>2, <1>3 DEF GC!ConversionsKept, GC!SvIdentityUnique, GC!BatchAsRequested, GC!GpsTimeKept,
       GC!DiscontinuityTold, GC!AgnssStatusAsIs
<1>5. GC_Counts'
  BY <1>1, <1>2, GC_NoClock DEF GC_IInv
<1> QED BY <1>4, <1>5 DEF GC_IInv

LEMMA GC_Batches == ASSUME GC_IInv, GC!batchLocationCb PROVE GC_IInv'
<1> USE ConvertAssumption
<1>1. PICK b \in LocationBatches : \E n \in {-1, Len(b)} :
        /\ gc_arg = GC!NotSent /\ gc_arg' = [cb |-> "batch", count |-> n, locations |-> b]
        /\ gc_sent' = [cb |-> "batch", fixes |-> [i \in 1 .. Len(GC!Batch(n, b)) |-> GC!convertFlpLocation(GC!Batch(n, b)[i].flags)]]
        /\ UNCHANGED GC!Clocks
  BY DEF GC!batchLocationCb, GC!Send
<1>2. PICK n \in {-1, Len(b)} :
        /\ gc_arg = GC!NotSent /\ gc_arg' = [cb |-> "batch", count |-> n, locations |-> b]
        /\ gc_sent' = [cb |-> "batch", fixes |-> [i \in 1 .. Len(GC!Batch(n, b)) |-> GC!convertFlpLocation(GC!Batch(n, b)[i].flags)]]
        /\ UNCHANGED GC!Clocks
  BY <1>1
<1>f. PICK fixes : fixes = [i \in 1 .. Len(GC!Batch(n, b)) |-> GC!convertFlpLocation(GC!Batch(n, b)[i].flags)]
  OBVIOUS
<1>3. gc_arg'.cb = "batch" /\ gc_arg'.count = n /\ gc_arg'.locations = b /\ gc_sent'.fixes = fixes
  BY <1>2, <1>f
<1>4. b \in Seq([kind : {"null", "gnss", "flp"}, flags : SUBSET Nat])
  OBVIOUS
<1>5. GC_Asked(n, b, fixes)
  BY <1>4, <1>f, GC_Batch
<1>6. GC!BatchAsRequested'
  <2>1. gc_arg'.count = n /\ gc_arg'.locations = b /\ gc_sent'.fixes = fixes
    BY <1>3
  <2>2. GC_Asked(gc_arg'.count, gc_arg'.locations, gc_sent'.fixes)
    BY <1>5, <2>1
  <2> QED BY <2>2, Zenon DEF GC!BatchAsRequested, GC_Asked
<1>7. GC!ConversionsKept'
  BY <1>3, <1>6 DEF GC!ConversionsKept, GC!SvIdentityUnique, GC!LocationClaims, GC!GpsTimeKept,
       GC!DiscontinuityTold, GC!AgnssStatusAsIs
<1>8. GC_Counts'
  BY <1>2, <1>3, GC_NoClock DEF GC_IInv
<1> QED BY <1>7, <1>8 DEF GC_IInv

LEMMA GC_Clock == ASSUME GC_IInv, GC!gpsMeasurementClock PROVE GC_IInv'
<1> USE ConvertAssumption
<1>n. PICK n : n = gc_discontinuity_count_to_handle_old_clock_type
  OBVIOUS
<1>1. PICK c \in GC!GpsClock, junk \in {0, 1} :
        /\ gc_arg = GC!NotSent /\ gc_arg' = [cb |-> "clock", clock |-> c]
        /\ gc_sent' = [cb |-> "clock", clock |-> GC!gnssClock(c, IF c.type = "gps" THEN n ELSE junk)]
        /\ UNCHANGED gc_before
        /\ gc_discontinuity_count_to_handle_old_clock_type' = IF c.type = "gps" THEN GC!NextCount(n) ELSE n
  BY <1>n DEF GC!gpsMeasurementClock, GC!Send
<1>2. c.type \in {"unknown", "local", "gps"} /\ c.time \in Int /\ c.full_bias \in Int /\ c.bias \in Int
  BY DEF GC!GpsClock
<1>o. PICK out : out = GC!gnssClock(c, IF c.type = "gps" THEN n ELSE junk)
  OBVIOUS
<1>3. /\ out.timeNs = (IF c.type = "gps" THEN 0 ELSE c.time) /\ out.biasNs = -c.bias
      /\ out.fullBiasNs = (IF c.type = "gps" THEN -c.time ELSE -c.full_bias)
      /\ c.type = "gps" => out.count = n
  BY <1>o DEF GC!gnssClock
<1>4. gc_arg'.cb = "clock" /\ gc_arg'.clock = c /\ gc_sent'.clock = out
  BY <1>1, <1>o
<1>5. n \in 0 .. CountLimit - 1 /\ (gc_before = -1 \/ (gc_before \in 0 .. CountLimit - 1 /\ n = GC!NextCount(gc_before)))
  <2>1. gc_arg.cb = "none"
    BY <1>1 DEF GC!NotSent
  <2> QED BY <1>n, <2>1 DEF GC_IInv, GC_Counts
<1>6. GC!GpsTimeKept'
  <2>1. c.type # "unknown" => out.timeNs - (out.fullBiasNs + out.biasNs) = c.time + c.bias + (IF c.type = "local" THEN c.full_bias ELSE 0)
    <3>1. CASE c.type = "gps"
      <4>1. out.timeNs = 0 /\ out.fullBiasNs = -c.time /\ out.biasNs = -c.bias
        BY <1>3, <3>1
      <4> QED BY <1>2, <3>1, <4>1
    <3>2. CASE c.type = "local"
      <4>1. out.timeNs = c.time /\ out.fullBiasNs = -c.full_bias /\ out.biasNs = -c.bias
        BY <1>3, <3>2
      <4> QED BY <1>2, <3>2, <4>1
    <3> QED BY <1>2, <3>1, <3>2
  <2> QED BY <1>4, <2>1 DEF GC!GpsTimeKept
<1>7. GC!DiscontinuityTold'
  <2>1. n # gc_before
    <3>1. CASE gc_before = -1
      BY <1>5, <3>1
    <3>2. CASE gc_before # -1
      BY <1>5, <3>2, GC_Modulo
    <3> QED BY <3>1, <3>2
  <2> QED BY <1>1, <1>3, <1>4, <2>1 DEF GC!DiscontinuityTold
<1>8. GC!ConversionsKept'
  BY <1>4, <1>6, <1>7 DEF GC!ConversionsKept, GC!SvIdentityUnique, GC!LocationClaims, GC!BatchAsRequested, GC!AgnssStatusAsIs
<1>9. GC_Counts'
  <2>1. CASE c.type = "gps"
    <3>1. gc_discontinuity_count_to_handle_old_clock_type' = GC!NextCount(n) /\ gc_sent'.clock.count = n
      BY <1>1, <1>3, <1>4, <2>1
    <3>2. GC!NextCount(n) \in 0 .. CountLimit - 1
      BY <1>5, GC_Modulo
    <3> QED BY <1>4, <1>5, <2>1, <3>1, <3>2 DEF GC_Counts, GC!NextCount
  <2>2. CASE c.type # "gps"
    <3>1. gc_discontinuity_count_to_handle_old_clock_type' = n /\ gc_before' = gc_before
      BY <1>1, <2>2
    <3> QED BY <1>4, <1>5, <2>2, <3>1 DEF GC_Counts, GC!NextCount
  <2> QED BY <2>1, <2>2
<1> QED BY <1>8, <1>9 DEF GC_IInv

LEMMA GC_Agps == ASSUME GC_IInv, GC!agpsStatusCb PROVE GC_IInv'
<1>1. PICK s \in GC!AGpsStatus : gc_arg = GC!NotSent /\ gc_arg' = s /\ gc_sent' = GC!statusCb(s) /\ UNCHANGED GC!Clocks
  BY DEF GC!agpsStatusCb, GC!Send
<1>2. s.cb = "agps" /\ s.family \in {"AF_INET", "AF_INET6", "AF_UNIX"}
  BY DEF GC!AGpsStatus
<1>3. GC!AgnssStatusAsIs'
  <2> SUFFICES ASSUME s.size = GC!SizeOfAGpsStatus
               PROVE  CASE s.family = "AF_UNIX" -> GC!statusCb(s) = GC!NotSent
                        [] OTHER -> GC!statusCb(s).cb = (IF s.family = "AF_INET" THEN "IpV4" ELSE "IpV6") /\ GC!statusCb(s).type = s.type
    BY <1>1, <1>2 DEF GC!AgnssStatusAsIs
  <2>1. CASE s.family = "AF_INET"
    <3>1. GC!statusCb(s) = [cb |-> "IpV4", type |-> s.type, addr |-> "sin_addr"]
      BY <2>1 DEF GC!statusCb
    <3> QED BY <2>1, <3>1
  <2>2. CASE s.family = "AF_INET6"
    <3>1. GC!statusCb(s) = [cb |-> "IpV6", type |-> s.type, addr |-> "sin6_addr"]
      BY <2>2 DEF GC!statusCb
    <3> QED BY <2>2, <3>1
  <2>3. CASE s.family = "AF_UNIX"
    <3>1. GC!statusCb(s) = GC!NotSent
      BY <2>3 DEF GC!statusCb
    <3> QED BY <2>3, <3>1
  <2> QED BY <1>2, <2>1, <2>2, <2>3
<1>4. GC!ConversionsKept'
  BY <1>1, <1>2, <1>3 DEF GC!ConversionsKept, GC!SvIdentityUnique, GC!LocationClaims, GC!BatchAsRequested, GC!GpsTimeKept,
       GC!DiscontinuityTold
<1>5. GC_Counts'
  BY <1>1, <1>2, GC_NoClock DEF GC_IInv
<1> QED BY <1>4, <1>5 DEF GC_IInv

LEMMA GC_Return == ASSUME GC_IInv, GC!Return PROVE GC_IInv'
<1>1. gc_arg'.cb = "none"
  BY DEF GC!Return, GC!NotSent
<1>2. GC!ConversionsKept'
  BY <1>1, GC_Others
<1>3. GC_Counts'
  <2>1. gc_discontinuity_count_to_handle_old_clock_type' = gc_discontinuity_count_to_handle_old_clock_type
    BY DEF GC!Return
  <2>2. gc_before' = IF gc_arg.cb # "clock" THEN gc_before ELSE IF gc_arg.clock.type = "gps" THEN gc_sent.clock.count ELSE -1
    BY DEF GC!Return
  <2> QED BY <1>1, <2>1, <2>2 DEF GC_IInv, GC_Counts, GC!NextCount
<1> QED BY <1>2, <1>3 DEF GC_IInv

(* The callbacks no property speaks of. *)
LEMMA GC_Plain ==
    ASSUME GC_IInv, GC!gnssSvStatusCb \/ GC!gnssMeasurementCb \/ GC!gpsMeasurementCb
    PROVE  GC_IInv'
<1>1. /\ gc_arg = GC!NotSent /\ UNCHANGED GC!Clocks
      /\ gc_arg'.cb \in {"gnssSvStatus", "gnssMeasurement", "gpsMeasurement"}
  BY DEF GC!gnssSvStatusCb, GC!gnssMeasurementCb, GC!gpsMeasurementCb, GC!Send
<1>2. gc_arg'.cb \notin {"gpsSvStatus", "location", "batch", "clock", "agps"}
  BY <1>1
<1> QED BY <1>1, <1>2, GC_Others, GC_NoClock DEF GC_IInv

(* GnssConvert: the callbacks of the service convert satellite numbers without   *)
(* mixing them up, claim no accuracy that was not measured, hand on the batches  *)
(* and the GPS time unchanged, and tell every jump of the old clocks, for any    *)
(* satellites, counts, flags, times and batches the library may report.          *)
THEOREM Conversions == GC!Spec => []ConversionsKept
<1>1. GC!Init => GC_IInv
  <2> SUFFICES ASSUME GC!Init PROVE GC_IInv
    OBVIOUS
  <2>1. gc_arg.cb = "none"
    BY DEF GC!Init, GC!NotSent
  <2>2. GC_Counts
    BY <2>1, ConvertAssumption DEF GC!Init, GC_Counts
  <2>3. GC!ConversionsKept
    BY <2>1 DEF GC!ConversionsKept, GC!SvIdentityUnique, GC!LocationClaims, GC!BatchAsRequested, GC!GpsTimeKept,
         GC!DiscontinuityTold, GC!AgnssStatusAsIs
  <2> QED BY <2>2, <2>3 DEF GC_IInv
<1>2. GC_IInv /\ [GC!Next]_GC!cvars => GC_IInv'
  <2>1. GC_IInv /\ UNCHANGED GC!cvars => GC_IInv'
    <3> SUFFICES ASSUME GC_IInv, UNCHANGED GC!cvars PROVE GC_IInv'
      OBVIOUS
    <3>1. /\ gc_arg' = gc_arg /\ gc_sent' = gc_sent /\ gc_before' = gc_before
          /\ gc_discontinuity_count_to_handle_old_clock_type' = gc_discontinuity_count_to_handle_old_clock_type
      BY DEF GC!cvars
    <3>2. GC_Counts'
      BY <3>1 DEF GC_IInv, GC_Counts, GC!NextCount
    <3>3. GC!SvIdentityUnique'
      BY <3>1 DEF GC_IInv, GC!ConversionsKept, GC!SvIdentityUnique
    <3>4. GC!LocationClaims' /\ GC!GpsTimeKept' /\ GC!DiscontinuityTold'
      BY <3>1 DEF GC_IInv, GC!ConversionsKept, GC!LocationClaims, GC!GpsTimeKept, GC!DiscontinuityTold
    <3>5. GC!BatchAsRequested'
      BY <3>1, Zenon DEF GC_IInv, GC!ConversionsKept, GC!BatchAsRequested
    <3>6. GC!AgnssStatusAsIs'
      BY <3>1 DEF GC_IInv, GC!ConversionsKept, GC!AgnssStatusAsIs, GC!NotSent
    <3> QED BY <3>2, <3>3, <3>4, <3>5, <3>6 DEF GC_IInv, GC!ConversionsKept
  <2> QED BY <2>1, GC_SvStatus, GC_Location, GC_Batches, GC_Clock, GC_Agps, GC_Return, GC_Plain DEF GC!Next
<1>3. GC_IInv => ConversionsKept
  BY DEF GC_IInv, ConversionsKept
<1> QED BY <1>1, <1>2, <1>3, PTL DEF GC!Spec
=============================================================================
