-------------------------------- MODULE Gnss --------------------------------
(* The GNSS service (src/hardware/gnss): a HIDL front of the vendor's gps.h  *)
(* library and, for batching, of its fused_location.h library.               *)
(*                                                                           *)
(* One binder thread (the passthrough service has one) runs the calls of the *)
(* framework and the notice of its death; the two vendor libraries, which    *)
(* are external, call back on threads of their own.  The callback pointers   *)
(* are static variables without a lock: a callback looks whether the pointer *)
(* is null in one step and uses it in a later one.                           *)
EXTENDS Naturals, FiniteSets

CONSTANTS
    Clients,      \* framework processes, 1 .. N, one after the other
    Capabilities, \* capability masks the library reports; 0 is "none yet"
    Years,        \* years of hardware it reports; 0 is "none yet"
    Implementations, \* what the device may offer: records of an interface flag and a set of extensions
    MaxCalls(_),  \* bound on the calls of the framework, by device
    MaxCallbacks(_) \* bound on the callbacks of the libraries, by device

VARIABLES
    device,     \* mGnssIface # nullptr, and the extensions get_extension() knows
    objects,    \* the extension objects created so far
    cb,         \* the static callback pointer of each interface
    hal,        \* the library's side of each interface
    cached,     \* sCapabilitiesCached and sYearOfHwCached
    told,       \* what each framework process was told of both
    wl,         \* sWakelockHeldGnss, sWakelockHeldFused and sWakelockHeld
    lock,       \* whether each framework process holds the wakelock
    supports,   \* sFlpSupportsBatching
    client,     \* the framework process that runs, and whether it lives
    linked,     \* the process whose death mDeathRecipient hears of
    notice,     \* the notice of its death is waiting
    binder,     \* the binder thread
    thread,     \* the threads of the libraries
    crashed,    \* a null pointer was used
    excused,    \* ghost: a wakelock request was lost, raced, or left over from a dead process
    late,       \* ghost: the pointers that changed, or "info" that was sent again, with a callback in flight
    budget      \* calls and callbacks so far

vars == <<device, objects, cb, hal, cached, told, wl, lock, supports, client, linked, notice, binder, thread,
          crashed, excused, late, budget>>

None == 0
Extensions == {"ril", "configuration", "geofencing", "agnss", "ni", "measurement", "navigation", "xtra", "debug", "batching"}
Interfaces == {"gnss", "ril", "geofencing", "agnss", "ni", "measurement", "navigation", "xtra", "batching"}

ASSUME ClientAssumption == Clients \subseteq Nat \ {0} /\ 1 \in Clients
ASSUME DeviceAssumption == Implementations \subseteq [iface : BOOLEAN, implements : SUBSET Extensions]

Threads == {"gps", "flp"}
Infos == {"caps", "year"}
Quiet == [kind |-> "none", of |-> "gnss", value |-> 0]
Idle == [pc |-> "idle", who |-> None, info |-> [i \in Infos |-> 0]]

-----------------------------------------------------------------------------
(* What the functions of the libraries do to a session: gps.h for the GNSS   *)
(* library, fused_location.h for the batching library.                       *)
Nothing == [from |-> {}, to |-> "closed"]
Opens == [from |-> {"closed"}, to |-> "open"]
Starts == [from |-> {"open"}, to |-> "started"]
Stops == [from |-> {"started"}, to |-> "open"]
Closes == [from |-> {"open", "started"}, to |-> "closed"]
GpsInterface == [init |-> Opens, start |-> Starts, stop |-> Stops, cleanup |-> Closes, inject_time |-> Nothing,
                 inject_location |-> Nothing, delete_aiding_data |-> Nothing, set_position_mode |-> Nothing]
GpsXtraInterface == [init |-> Opens, inject_xtra_data |-> Nothing]
GpsDebugInterface == [get_internal_state |-> Nothing]
AGpsInterface == [init |-> Opens, data_conn_open |-> Nothing, data_conn_closed |-> Nothing, data_conn_failed |-> Nothing,
                  set_server |-> Nothing, data_conn_open_with_apn_ip_type |-> Nothing]
GpsNiInterface == [init |-> Opens, respond |-> Nothing]
AGpsRilInterface == [init |-> Opens, set_ref_location |-> Nothing, set_set_id |-> Nothing, ni_message |-> Nothing,
                     update_network_state |-> Nothing, update_network_availability |-> Nothing]
GpsGeofencingInterface == [init |-> Opens, add_geofence_area |-> Nothing, pause_geofence |-> Nothing, resume_geofence |-> Nothing,
                           remove_geofence_area |-> Nothing]
GpsMeasurementInterface == [init |-> Opens, close |-> Closes]
GpsNavigationMessageInterface == [init |-> Opens, close |-> Closes]
GnssConfigurationInterface == [configuration_update |-> Nothing]
FlpLocationInterface == [init |-> Opens, start_batching |-> Starts, stop_batching |-> Stops, cleanup |-> Closes,
                         get_batch_size |-> Nothing, flush_batched_locations |-> Nothing]
Library(i) == CASE i = "gnss" -> GpsInterface [] i = "ril" -> AGpsRilInterface [] i = "agnss" -> AGpsInterface
                [] i = "geofencing" -> GpsGeofencingInterface [] i = "ni" -> GpsNiInterface [] i = "xtra" -> GpsXtraInterface
                [] i = "measurement" -> GpsMeasurementInterface [] i = "navigation" -> GpsNavigationMessageInterface
                [] i = "configuration" -> GnssConfigurationInterface [] i = "debug" -> GpsDebugInterface
                [] OTHER -> FlpLocationInterface
After(h, effect) == IF h \in effect.from THEN effect.to ELSE h

(* The functions of the libraries the methods hand their arguments to and    *)
(* that change nothing here.  A method whose interface pointer is null       *)
(* returns at once.                                                          *)
GnssCalls == {"inject_location", "inject_time", "delete_aiding_data", "set_position_mode"}
AGnssRilCalls == {"set_ref_location", "set_set_id", "update_network_state", "update_network_availability"}
AGnssCalls == {"data_conn_closed", "data_conn_failed", "set_server", "data_conn_open_with_apn_ip_type"}
GnssGeofencingCalls == {"add_geofence_area", "pause_geofence", "resume_geofence", "remove_geofence_area"}
GnssNiCalls == {"respond"}
GnssXtraCalls == {"inject_xtra_data"}
GnssDebugCalls == {"get_internal_state"}
GnssBatchingCalls == {"get_batch_size", "flush_batched_locations"}
GnssConfigurationCalls == {"configuration_update"}

Functions(i) == CASE i = "gnss" -> GnssCalls [] i = "ril" -> AGnssRilCalls [] i = "agnss" -> AGnssCalls
                  [] i = "geofencing" -> GnssGeofencingCalls [] i = "ni" -> GnssNiCalls [] i = "xtra" -> GnssXtraCalls
                  [] i = "configuration" -> GnssConfigurationCalls [] i = "batching" -> GnssBatchingCalls
                  [] i = "debug" -> GnssDebugCalls [] OTHER -> {}

(* The callbacks that hand data up; each returns early without a callback    *)
(* pointer, and those that take a pointer without an argument.               *)
NmeaEvents == {"nmea"}
TimeEvents == {"request_utc_time"}
GnssEvents == {"location", "status", "sv_status", "gnss_sv_status"} \cup NmeaEvents \cup TimeEvents
AGnssRilEvents == {"request_setid", "request_refloc"}
AGnssEvents == {"status"}
GnssGeofencingEvents == {"transition", "status", "add", "remove", "pause", "resume"}
GnssNiEvents == {"notify"}
GnssXtraEvents == {"download_request"}
GnssMeasurementEvents == {"measurement", "gnss_measurement"}
GnssNavigationMessageEvents == {"gnss_navigation_message"}
GnssBatchingEvents == {"location"}

Events(i) == CASE i = "gnss" -> GnssEvents [] i = "ril" -> AGnssRilEvents [] i = "agnss" -> AGnssEvents
               [] i = "geofencing" -> GnssGeofencingEvents [] i = "ni" -> GnssNiEvents [] i = "xtra" -> GnssXtraEvents
               [] i = "measurement" -> GnssMeasurementEvents [] i = "navigation" -> GnssNavigationMessageEvents
               [] OTHER -> GnssBatchingEvents

(* A call of the living framework process, on an idle binder thread. *)
Called == /\ binder.pc = "idle" /\ client.alive /\ ~crashed /\ budget.calls < MaxCalls(device)
          /\ budget' = [budget EXCEPT !.calls = @ + 1]

(* A changed pointer while a library thread is between look and use. *)
Late(i) == \E t \in Threads : thread[t].kind # "none" /\ thread[t].of = i

-----------------------------------------------------------------------------
(* getExtension...(): the object is made on first use, if there is a library *)
(* function table for it.  Its constructor aborts the process if there is    *)
(* another object of its class.                                              *)
getExtension(e) ==
    /\ Called /\ device.iface /\ e \in device.implements
    /\ objects' = objects \cup {e}
    /\ UNCHANGED <<device, cb, hal, cached, told, wl, lock, supports, client, linked, notice, binder, thread, crashed, excused, late>>
getExtensionAGnssRil == getExtension("ril")
getExtensionGnssConfiguration == getExtension("configuration")
getExtensionGnssGeofencing == getExtension("geofencing")
getExtensionAGnss == getExtension("agnss")
getExtensionGnssNi == getExtension("ni")
getExtensionGnssMeasurement == getExtension("measurement")
getExtensionGnssNavigationMessage == getExtension("navigation")
getExtensionXtra == getExtension("xtra")
getExtensionGnssDebug == getExtension("debug")
getExtensionGnssBatching == getExtension("batching")
GetExtensions ==
    \/ getExtensionAGnssRil \/ getExtensionGnssConfiguration \/ getExtensionGnssGeofencing \/ getExtensionAGnss
    \/ getExtensionGnssNi \/ getExtensionGnssMeasurement \/ getExtensionGnssNavigationMessage \/ getExtensionXtra
    \/ getExtensionGnssDebug \/ getExtensionGnssBatching

(* setCallback() of an extension: the pointer, null or not, is stored, then  *)
(* the library is initialised.                                               *)
setExtensionCallback(e) == \E c \in {None, client.id}, ok \in BOOLEAN :
    /\ Called /\ e \in objects
    /\ cb' = [cb EXCEPT ![e] = c]
    /\ late' = (late \cup (IF Late(e) /\ c # cb[e] THEN {e} ELSE {}))
    /\ hal' = [hal EXCEPT ![e] = IF ok THEN After(@, Library(e).init) ELSE @]
    /\ UNCHANGED <<device, objects, cached, told, wl, lock, supports, client, linked, notice, binder, thread, crashed, excused>>
AGnssRil_setCallback == setExtensionCallback("ril")
AGnss_setCallback == setExtensionCallback("agnss")
GnssGeofencing_setCallback == setExtensionCallback("geofencing")
GnssNi_setCallback == setExtensionCallback("ni")
GnssXtra_setCallback == setExtensionCallback("xtra")
GnssMeasurement_setCallback == setExtensionCallback("measurement")
GnssNavigationMessage_setCallback == setExtensionCallback("navigation")
GnssBatching_init == setExtensionCallback("batching")
SetCallbacks ==
    \/ AGnssRil_setCallback \/ AGnss_setCallback \/ GnssGeofencing_setCallback \/ GnssNi_setCallback \/ GnssXtra_setCallback
    \/ GnssMeasurement_setCallback \/ GnssNavigationMessage_setCallback \/ GnssBatching_init

(* A method that calls function f of library i, if it has the interface. *)
HalCall(i, f) ==
    /\ Called /\ (IF i = "gnss" THEN device.iface ELSE i \in objects)
    /\ hal' = IF i \in Interfaces THEN [hal EXCEPT ![i] = After(@, Library(i)[f])] ELSE hal
    /\ UNCHANGED <<device, objects, cb, cached, told, wl, lock, supports, client, linked, notice, binder, thread, crashed, excused, late>>
start == HalCall("gnss", "start")
stop == HalCall("gnss", "stop")
cleanup == HalCall("gnss", "cleanup")
GnssMeasurement_close == HalCall("measurement", "close")
GnssNavigationMessage_close == HalCall("navigation", "close")
GnssBatching_start == supports /\ HalCall("batching", "start_batching")
GnssBatching_stop == HalCall("batching", "stop_batching")
GnssBatching_cleanup == HalCall("batching", "cleanup")
Forward(i) == \E f \in Functions(i) : HalCall(i, f)
HalCalls == \/ \E i \in Extensions \cup {"gnss"} : Forward(i)
            \/ start \/ stop \/ cleanup \/ GnssMeasurement_close \/ GnssNavigationMessage_close
            \/ GnssBatching_start \/ GnssBatching_stop \/ GnssBatching_cleanup

-----------------------------------------------------------------------------
(* Gnss::setCallback(): a null callback is refused; the new pointer is       *)
(* linked to the death recipient in place of the old one; what the library   *)
(* said before is said again, and the library is initialised.                *)
setCallback ==
    /\ Called /\ device.iface
    /\ cb' = [cb EXCEPT !["gnss"] = client.id]
    /\ late' = (late \cup (IF Late("gnss") /\ cb["gnss"] # client.id THEN {"gnss"} ELSE {})
                      \cup (IF thread["gps"].kind \in Infos \cup {"save"} THEN {"info"} ELSE {}))
    /\ linked' = client.id
    /\ binder' = [pc |-> "resend", who |-> client.id, info |-> cached]
    /\ UNCHANGED <<device, objects, hal, cached, told, wl, lock, supports, client, notice, thread, crashed, excused>>

(* Fault: the values are only kept for the next process, not sent again. *)
setCallbackResend_Skipped ==
    /\ binder.pc = "resend" /\ ~crashed
    /\ binder' = [binder EXCEPT !.pc = "init"]
    /\ UNCHANGED <<device, objects, cb, hal, cached, told, wl, lock, supports, client, linked, notice, thread, crashed, excused, late, budget>>

setCallbackResend ==
    LET known == {i \in Infos : binder.info[i] # 0}
        Renewed(f) == [i \in Infos |-> IF i \in known THEN binder.info[i] ELSE f[i]]
    IN /\ binder.pc = "resend" /\ ~crashed
       /\ told' = [told EXCEPT ![cb["gnss"]] = Renewed(@)]
       /\ cached' = Renewed(cached)
       /\ binder' = [binder EXCEPT !.pc = "init"]
       /\ UNCHANGED <<device, objects, cb, hal, wl, lock, supports, client, linked, notice, thread, crashed, excused, late, budget>>

setCallbackInit == \E ok \in BOOLEAN :
    /\ binder.pc = "init" /\ ~crashed
    /\ hal' = [hal EXCEPT !["gnss"] = IF ok THEN After(@, GpsInterface.init) ELSE @]
    /\ binder' = Idle
    /\ UNCHANGED <<device, objects, cb, cached, told, wl, lock, supports, client, linked, notice, thread, crashed, excused, late, budget>>

-----------------------------------------------------------------------------
(* The framework process dies between two calls of its own; init starts the  *)
(* next one later.                                                           *)
ClientDies ==
    /\ binder.pc = "idle" /\ client.alive /\ ~crashed
    /\ client' = [client EXCEPT !.alive = FALSE]
    /\ notice' = (linked = client.id)
    /\ UNCHANGED <<device, objects, cb, hal, cached, told, wl, lock, supports, linked, binder, thread, crashed, excused, late, budget>>

ClientStarts ==
    /\ ~client.alive /\ ~notice /\ binder.pc = "idle" /\ ~crashed
    /\ client.id + 1 \in Clients
    /\ client' = [id |-> client.id + 1, alive |-> TRUE]
    /\ UNCHANGED <<device, objects, cb, hal, cached, told, wl, lock, supports, linked, notice, binder, thread, crashed, excused, late, budget>>

Closed(h, is) == [i \in Interfaces |-> IF i \in is /\ (i = "gnss" \/ i \in objects) THEN "closed" ELSE h[i]]

(* Fault: only the tracking of the main interface is stopped. *)
handleHidlDeath_MainOnly ==
    /\ notice /\ binder.pc = "idle" /\ ~crashed
    /\ hal' = IF device.iface THEN Closed(hal, {"gnss"}) ELSE hal
    /\ notice' = FALSE /\ binder' = [Idle EXCEPT !.pc = "forget"]
    /\ UNCHANGED <<device, objects, cb, cached, told, wl, lock, supports, client, linked, thread, crashed, excused, late, budget>>

(* handleHidlDeath(): everything that may run for the dead process is        *)
(* stopped in the library, then the callback pointer is cleared.             *)
handleHidlDeath ==
    /\ notice /\ binder.pc = "idle" /\ ~crashed
    /\ hal' = Closed(hal, {"measurement", "navigation", "batching"} \cup (IF device.iface THEN {"gnss"} ELSE {}))
    /\ notice' = FALSE /\ binder' = [Idle EXCEPT !.pc = "forget"]
    /\ UNCHANGED <<device, objects, cb, cached, told, wl, lock, supports, client, linked, thread, crashed, excused, late, budget>>

handleHidlDeathForget ==
    /\ binder.pc = "forget" /\ ~crashed
    /\ cb' = [cb EXCEPT !["gnss"] = None]
    /\ late' = (late \cup (IF Late("gnss") THEN {"gnss"} ELSE {}))
    /\ excused' = (excused \/ wl.held)
    /\ linked' = None
    /\ binder' = Idle
    /\ UNCHANGED <<device, objects, hal, cached, told, wl, lock, supports, client, notice, thread, crashed, budget>>

-----------------------------------------------------------------------------
(* A callback of a library thread starts while the library's interface is    *)
(* open.                                                                     *)
Calls(t, i) ==
    /\ thread[t].kind = "none" /\ ~crashed /\ hal[i] # "closed" /\ budget.callbacks < MaxCallbacks(device)
    /\ budget' = [budget EXCEPT !.callbacks = @ + 1]

ThreadOf(i) == IF i = "batching" THEN "flp" ELSE "gps"

(* Fault: the pointer is taken for set, as setCallback() was called once. *)
EventBegin_NoLook(i) ==
    LET t == ThreadOf(i)
    IN /\ Calls(t, i) /\ Events(i) # {}
       /\ thread' = [thread EXCEPT ![t] = [kind |-> "event", of |-> i, value |-> 0]]
       /\ UNCHANGED <<device, objects, cb, hal, cached, told, wl, lock, supports, client, linked, notice, binder, crashed, excused, late>>

(* Data for the framework, or setCapabilitiesCb() and setSystemInfoCb(): the *)
(* look at the pointer.  Without one nothing is sent and nothing is cached.  *)
EventBegin(i) ==
    LET t == ThreadOf(i)
    IN /\ Calls(t, i) /\ Events(i) # {}
       /\ thread' = [thread EXCEPT ![t] = IF cb[i] = None THEN Quiet ELSE [kind |-> "event", of |-> i, value |-> 0]]
       /\ UNCHANGED <<device, objects, cb, hal, cached, told, wl, lock, supports, client, linked, notice, binder, crashed, excused, late>>

InfoBegin(i) == \E v \in (IF i = "caps" THEN Capabilities ELSE Years) :
    /\ Calls("gps", "gnss")
    /\ thread' = [thread EXCEPT !["gps"] = IF cb["gnss"] = None THEN Quiet ELSE [kind |-> i, of |-> "gnss", value |-> v]]
    /\ late' = (late \cup (IF binder.pc = "resend" THEN {"info"} ELSE {}))
    /\ UNCHANGED <<device, objects, cb, hal, cached, told, wl, lock, supports, client, linked, notice, binder, crashed, excused>>

(* The use of the pointer: the framework is told, or does not answer any     *)
(* more, or the pointer has become null.                                     *)
Use(t) ==
    LET k == thread[t]
        c == cb[k.of]
    IN /\ k.kind \in {"event", "caps", "year"} /\ ~crashed
       /\ crashed' = (c = None)
       /\ told' = IF c # None /\ k.kind # "event" THEN [told EXCEPT ![c][k.kind] = k.value] ELSE told
       /\ thread' = [thread EXCEPT ![t] = IF k.kind = "event" THEN Quiet ELSE [k EXCEPT !.kind = "save", !.of = k.kind]]
       /\ UNCHANGED <<device, objects, cb, hal, cached, wl, lock, supports, client, linked, notice, binder, excused, late, budget>>

(* The value is kept for the next process. *)
Save(t) ==
    /\ thread[t].kind = "save" /\ ~crashed
    /\ cached' = [cached EXCEPT ![thread[t].of] = thread[t].value]
    /\ thread' = [thread EXCEPT ![t] = Quiet]
    /\ UNCHANGED <<device, objects, cb, hal, told, wl, lock, supports, client, linked, notice, binder, crashed, excused, late, budget>>

(* flpCapabilitiesCb(): no pointer is needed. *)
flpCapabilitiesCb ==
    /\ Calls("flp", "batching")
    /\ supports' = TRUE
    /\ UNCHANGED <<device, objects, cb, hal, cached, told, wl, lock, client, linked, notice, binder, thread, crashed, excused, late>>

-----------------------------------------------------------------------------
(* acquireWakelockCb() and releaseWakelockCb() of both libraries: the flag   *)
(* of the library, then updateWakelock() in two steps.                       *)
Flag(t) == IF t = "gps" THEN "gnss" ELSE "fused"
Wakelock(t) == \E on \in BOOLEAN :
    /\ Calls(t, IF t = "gps" THEN "gnss" ELSE "batching")
    /\ wl' = [wl EXCEPT ![Flag(t)] = on]
    /\ thread' = [thread EXCEPT ![t] = [kind |-> "update", of |-> "gnss", value |-> 0]]
    /\ excused' = (excused \/ \E u \in Threads \ {t} : thread[u].kind \in {"update", "acquire", "release"})
    /\ UNCHANGED <<device, objects, cb, hal, cached, told, lock, supports, client, linked, notice, binder, crashed, late>>

Wanted(t) == IF wl.gnss \/ wl.fused THEN IF wl.held THEN "none" ELSE "acquire" ELSE "release"

updateWakelock(t) ==
    /\ thread[t].kind = "update" /\ ~crashed
    /\ thread' = [thread EXCEPT ![t] = IF cb["gnss"] = None \/ Wanted(t) = "none" THEN Quiet
                                       ELSE [kind |-> Wanted(t), of |-> "gnss", value |-> 0]]
    /\ excused' = (excused \/ cb["gnss"] = None)
    /\ UNCHANGED <<device, objects, cb, hal, cached, told, wl, lock, supports, client, linked, notice, binder, crashed, late, budget>>

tellWakelock(t) ==
    LET on == thread[t].kind = "acquire"
        c == cb["gnss"]
    IN /\ thread[t].kind \in {"acquire", "release"} /\ ~crashed
       /\ wl' = [wl EXCEPT !.held = on]
       /\ crashed' = (c = None)
       /\ lock' = IF c = None THEN lock ELSE [lock EXCEPT ![c] = on]
       /\ thread' = [thread EXCEPT ![t] = Quiet]
       /\ UNCHANGED <<device, objects, cb, hal, cached, told, supports, client, linked, notice, binder, excused, late, budget>>

-----------------------------------------------------------------------------
(* HIDL_FETCH_IGnss() has opened the device and made the Gnss object. *)
Init ==
    /\ device \in Implementations
    /\ objects = {} /\ cb = [i \in Interfaces |-> None] /\ hal = [i \in Interfaces |-> "closed"]
    /\ cached = [i \in Infos |-> 0] /\ told = [c \in Clients |-> [i \in Infos |-> 0]]
    /\ wl = [gnss |-> FALSE, fused |-> FALSE, held |-> FALSE] /\ lock = [c \in Clients |-> FALSE]
    /\ supports = FALSE /\ client = [id |-> 1, alive |-> TRUE] /\ linked = None /\ notice = FALSE
    /\ binder = Idle /\ thread = [t \in Threads |-> Quiet]
    /\ crashed = FALSE /\ excused = FALSE /\ late = {} /\ budget = [calls |-> 0, callbacks |-> 0]

Framework == GetExtensions \/ SetCallbacks \/ HalCalls \/ setCallback
Binder == setCallbackResend \/ setCallbackInit \/ handleHidlDeath \/ handleHidlDeathForget
Libraries ==
    \/ \E i \in Interfaces : EventBegin(i)
    \/ \E i \in Infos : InfoBegin(i)
    \/ flpCapabilitiesCb
    \/ \E t \in Threads : Use(t) \/ Save(t) \/ Wakelock(t) \/ updateWakelock(t) \/ tellWakelock(t)

Next == Framework \/ Binder \/ Libraries \/ ClientDies \/ ClientStarts
Spec == Init /\ [][Next]_vars
FairSpec == Spec /\ WF_vars(Binder)

-----------------------------------------------------------------------------
(* Every variable keeps its type; an interface the library implements is     *)
(* open only with its object.                                                *)
TypeOK ==
    /\ device \in Implementations /\ objects \subseteq device.implements
    /\ cb \in [Interfaces -> Clients \cup {None}] /\ hal \in [Interfaces -> {"closed", "open", "started"}]
    /\ \A i \in Interfaces \ {"gnss"} : hal[i] # "closed" => i \in objects
    /\ cached \in [Infos -> Capabilities \cup Years \cup {0}]
    /\ told \in [Clients -> [Infos -> Capabilities \cup Years \cup {0}]]
    /\ wl \in [gnss : BOOLEAN, fused : BOOLEAN, held : BOOLEAN] /\ lock \in [Clients -> BOOLEAN]
    /\ supports \in BOOLEAN /\ client \in [id : Clients, alive : BOOLEAN] /\ linked \in Clients \cup {None}
    /\ notice \in BOOLEAN /\ crashed \in BOOLEAN /\ excused \in BOOLEAN /\ late \subseteq Interfaces \cup {"info"}
    /\ binder.pc \in {"idle", "resend", "init", "forget"}
    /\ \A t \in Threads : thread[t].kind \in {"none", "event", "caps", "year", "save", "update", "acquire", "release"}

WakelockQuiet == ~crashed /\ \A t \in Threads : thread[t].kind \notin {"update", "acquire", "release"}

(* Gnss.h: "Ensures that if the last call from either legacy .h was to       *)
(* acquire a wakelock, that a wakelock is held.  Otherwise releases it."     *)
WakelockConsolidated ==
    WakelockQuiet /\ client.alive /\ cb["gnss"] = client.id => lock[client.id] = (wl.gnss \/ wl.fused)

(* updateWakelock() keeps that promise to the framework process it serves,   *)
(* unless two libraries called at once, no callback was set, or a lock was   *)
(* held when the process before died.                                        *)
WakelockFollows == ~excused => WakelockConsolidated

(* setCallback(): a process that has registered knows the capabilities and   *)
(* the year the library reported to the processes before it, unless a        *)
(* report of them was in flight while it registered.                         *)
InfoReachesClient ==
    ~crashed /\ binder.pc = "idle" /\ client.alive /\ cb["gnss"] = client.id /\ "info" \notin late
        /\ (\A t \in Threads : thread[t].kind # "save")
        => told[client.id] = cached

(* handleHidlDeath(): once the notice has been worked off and no new process *)
(* runs, the library neither tracks nor measures nor batches for the dead    *)
(* process, provided that the process was linked.                            *)
QuietAfterDeath ==
    [][handleHidlDeathForget => \A i \in {"gnss", "measurement", "navigation", "batching"} : hal'[i] = "closed"]_vars

(* A callback uses a null pointer only if the pointer was cleared while it   *)
(* was in flight: by the death of the framework, or by a null setCallback()  *)
(* of an extension.  The look at the pointer covers every other case.        *)
NullOnlyIfLate == crashed => late \cap Interfaces # {}

(* The death of a linked process is worked off: its pointer does not stay.   *)
DeathHandled == notice ~> (cb["gnss"] = None \/ crashed)

(* No callback of a library meets a pointer that was not there when it came. *)
PointersInv == TypeOK /\ NullOnlyIfLate

(* The framework process that is registered gets what it is due from both    *)
(* libraries, also if it is not the first: setCallback() and updateWakelock(). *)
ClientServed == InfoReachesClient /\ WakelockFollows

(* The death of the framework: handleHidlDeath() comes to its end and leaves *)
(* nothing running for the dead process.                                     *)
DeathCleared == QuietAfterDeath /\ DeathHandled
=============================================================================
