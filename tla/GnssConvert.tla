----------------------------- MODULE GnssConvert -----------------------------
(* What the callbacks of the GNSS service make of the structures of gps.h    *)
(* and fused_location.h before they hand them to the framework               *)
(* (src/hardware/gnss).  A flag word is the set of its bits; one entry       *)
(* stands for every entry of a list, as the lists are converted entry by     *)
(* entry.                                                                    *)
EXTENDS Integers, Sequences, FiniteSets

CONSTANTS
    Prns,       \* satellite numbers
    Counts,     \* lengths of lists the library reports
    Masks,      \* flag words
    Times,      \* nanoseconds
    Batches,    \* batches of locations: sequences of slots
    MAX_LOCATIONS_PER_BATCH,
    CountRange  \* range of the 32-bit discontinuity count

VARIABLES
    arg,        \* the argument of the last callback
    sent,       \* what the framework got for it
    before,     \* the count of the clock report before, or -1 if that was no clock of GPS time
    discontinuity_count_to_handle_old_clock_type

cvars == <<arg, sent, before, discontinuity_count_to_handle_old_clock_type>>

NotSent == [cb |-> "none"]
Send(a, s) == arg = NotSent /\ arg' = a /\ sent' = s
Clocks == <<before, discontinuity_count_to_handle_old_clock_type>>

-----------------------------------------------------------------------------
(* Satellites. *)
GLONASS == [offset |-> 64, count |-> 24]
BEIDOU == [offset |-> 200, count |-> 35]
SBAS == [min |-> 33, max |-> 64, add |-> 87]
QZSS == [min |-> 193, max |-> 200]
SVS_COUNT == 64

(* What gps.h says of the numbers of the satellites of each constellation. *)
SvidRange(c) == CASE c = "GPS" -> 1 .. 32 [] c = "SBAS" -> 120 .. 151 \cup 183 .. 192 [] c = "GLONASS" -> 1 .. 24 \cup 93 .. 106
                  [] c = "QZSS" -> 193 .. 200 [] c = "BEIDOU" -> 1 .. 37 [] OTHER -> Prns

Identity(prn) ==
    CASE prn \in 1 .. 32 -> [constellation |-> "GPS", svid |-> prn]
      [] prn > GLONASS.offset /\ prn <= GLONASS.offset + GLONASS.count -> [constellation |-> "GLONASS", svid |-> prn - GLONASS.offset]
      [] prn > BEIDOU.offset /\ prn <= BEIDOU.offset + BEIDOU.count -> [constellation |-> "BEIDOU", svid |-> prn - BEIDOU.offset]
      [] prn \in SBAS.min .. SBAS.max -> [constellation |-> "SBAS", svid |-> prn + SBAS.add]
      [] prn \in QZSS.min .. QZSS.max -> [constellation |-> "QZSS", svid |-> prn]
      [] OTHER -> [constellation |-> "UNKNOWN", svid |-> prn]

(* The count is an int stored as a uint32_t: a negative one is very large. *)
numSvs(n) == IF n < 0 \/ n > SVS_COUNT THEN SVS_COUNT ELSE n

(* The masks say something of GPS satellites only, by bit svid - 1. *)
SvFlags(id, mask) == IF id.constellation = "GPS" /\ id.svid - 1 \in mask THEN {"USED_IN_FIX"} ELSE {}

gpsSvStatusCb == \E prn \in Prns, n \in Counts, mask \in Masks :
    /\ Send([cb |-> "gpsSvStatus", prn |-> prn, num_svs |-> n, mask |-> mask],
            [cb |-> "gnssSvStatus", id |-> Identity(prn), svFlag |-> SvFlags(Identity(prn), mask), numSvs |-> numSvs(n)])
    /\ UNCHANGED Clocks

(* Bit 3 is HAS_CARRIER_FREQUENCY. *)
gnssSvStatusCb == \E n \in Counts, flags \in Masks :
    /\ Send([cb |-> "gnssSvStatus", num_svs |-> n, flags |-> flags],
            [cb |-> "gnssSvStatus", svFlag |-> flags \ {3}, numSvs |-> numSvs(n), carrierFrequencyHz |-> 0])
    /\ UNCHANGED Clocks

-----------------------------------------------------------------------------
(* Locations.  The bits of GPS_LOCATION_HAS_... and FLP_LOCATION_HAS_...     *)
GpsLocationFlags == [LAT_LONG |-> 0, ALTITUDE |-> 1, SPEED |-> 2, BEARING |-> 3, HORIZONTAL_ACCURACY |-> 4,
                     VERTICAL_ACCURACY |-> 5, SPEED_ACCURACY |-> 6, BEARING_ACCURACY |-> 7]
FlpLocationFlags == [LAT_LONG |-> 0, ALTITUDE |-> 1, SPEED |-> 2, BEARING |-> 3, HORIZONTAL_ACCURACY |-> 4]

(* & 0x1f *)
convertToGnssLocation(flags) == flags \cap (0 .. 4)
convertFlpLocation(flags) == {GpsLocationFlags[f] : f \in {g \in DOMAIN FlpLocationFlags : FlpLocationFlags[g] \in flags}}

(* locationCb(), and the transition and status callbacks of a geofence. *)
locationCb == \E flags \in Masks :
    Send([cb |-> "location", flags |-> flags], [cb |-> "location", flags |-> convertToGnssLocation(flags)]) /\ UNCHANGED Clocks

(* A slot of a batch is null, a location of the GNSS and sensors that were   *)
(* asked for, or one that other sources had a part in.                       *)
(* What was asked for is handed on in the order of the slots.                *)
Requested(l) == l.kind = "gnss"
Batch(n, locations) ==
    LET m == IF n < 0 THEN 0 ELSE IF n > MAX_LOCATIONS_PER_BATCH THEN MAX_LOCATIONS_PER_BATCH ELSE n
        good == {j \in 1 .. m : Requested(locations[j])}
        slot(i) == CHOOSE j \in good : Cardinality({k \in good : k <= j}) = i
    IN [i \in 1 .. Cardinality(good) |-> locations[slot(i)]]

batchLocationCb == \E b \in Batches : \E n \in {-1, Len(b)} :
    /\ Send([cb |-> "batch", count |-> n, locations |-> b],
            [cb |-> "batch", fixes |-> [i \in 1 .. Len(Batch(n, b)) |-> convertFlpLocation(Batch(n, b)[i].flags)]])
    /\ UNCHANGED Clocks

-----------------------------------------------------------------------------
(* Measurements. *)
OptionalFields == [snrDb |-> 0, carrierFrequencyHz |-> 9, carrierPhase |-> 11, carrierPhaseUncertainty |-> 12]
TOW_DECODED == 3
GLO_TOD_DECODED == 7
TOW_KNOWN == 14
GLO_TOD_KNOWN == 15

gnssState(state) == state \cup (IF TOW_DECODED \in state THEN {TOW_KNOWN} ELSE {})
                          \cup (IF GLO_TOD_DECODED \in state THEN {GLO_TOD_KNOWN} ELSE {})

(* GnssClock: a clock of GPS time becomes a hardware clock that stands at    *)
(* zero and jumps with every report; the signs of the biases are turned.     *)
(* The count of the other clocks is not set: the framework reads what the    *)
(* stack held.                                                               *)
GpsClock == [type : {"unknown", "local", "gps"}, time : Times, full_bias : Times, bias : Times]

(* Fault: the GPS time is put into the bias, and left in the time as well. *)
gnssClock_TimeKept(c, n) == [type |-> c.type, timeNs |-> c.time, fullBiasNs |-> IF c.type = "gps" THEN -c.time ELSE -c.full_bias,
                             biasNs |-> -c.bias, count |-> n]

gnssClock(c, n) == [type |-> c.type, timeNs |-> IF c.type = "gps" THEN 0 ELSE c.time,
                    fullBiasNs |-> IF c.type = "gps" THEN -c.time ELSE -c.full_bias, biasNs |-> -c.bias, count |-> n]

NextCount(n) == (n + 1) % CountRange

gnssMeasurementCb == \E n \in Counts, state \in Masks :
    /\ n >= 0
    /\ Send([cb |-> "gnssMeasurement", count |-> n, state |-> state],
            [cb |-> "measurement", count |-> numSvs(n), state |-> gnssState(state)])
    /\ UNCHANGED Clocks

gpsMeasurementCb == \E n \in Counts, prn \in Prns, flags \in Masks :
    /\ n >= 0
    /\ Send([cb |-> "gpsMeasurement", count |-> n, prn |-> prn, flags |-> flags],
            [cb |-> "measurement", count |-> numSvs(n), constellation |-> IF prn \in 1 .. 32 THEN "GPS" ELSE "UNKNOWN", svid |-> prn,
             flags |-> flags, set |-> {f \in DOMAIN OptionalFields : OptionalFields[f] \in flags}])
    /\ UNCHANGED Clocks

gpsMeasurementClock == \E c \in GpsClock, junk \in {0, 1} :
    LET n == discontinuity_count_to_handle_old_clock_type
        out == gnssClock(c, IF c.type = "gps" THEN n ELSE junk)
    IN /\ Send([cb |-> "clock", clock |-> c], [cb |-> "clock", clock |-> out])
       /\ UNCHANGED before
       /\ discontinuity_count_to_handle_old_clock_type' = IF c.type = "gps" THEN NextCount(n) ELSE n

-----------------------------------------------------------------------------
(* AGnss::statusCb(): the size says which structure it is. *)
SizeOfAGpsStatus == 144
SizeOfAGpsStatus_v2 == 16

statusCb(s) ==
    CASE s.size = SizeOfAGpsStatus /\ s.family = "AF_INET" -> [cb |-> "IpV4", type |-> s.type, addr |-> "sin_addr"]
      [] s.size = SizeOfAGpsStatus /\ s.family = "AF_INET6" -> [cb |-> "IpV6", type |-> s.type, addr |-> "sin6_addr"]
      [] s.size = SizeOfAGpsStatus /\ s.family \notin {"AF_INET", "AF_INET6"} -> NotSent
      [] s.size # SizeOfAGpsStatus /\ s.size >= SizeOfAGpsStatus_v2 ->
             [cb |-> "IpV4", type |-> 2, addr |-> "ipaddr in net order"]  \* the type is AF_INET
      [] OTHER -> NotSent

AGpsStatus == [cb : {"agps"}, size : {12, 16, 144, 152}, type : {1, 2}, family : {"AF_INET", "AF_INET6", "AF_UNIX"}]
agpsStatusCb == \E s \in AGpsStatus : Send(s, statusCb(s)) /\ UNCHANGED Clocks

(* The callback returns to the library. *)
Return ==
    /\ arg # NotSent /\ arg' = NotSent /\ sent' = NotSent
    /\ before' = IF arg.cb # "clock" THEN before ELSE IF arg.clock.type = "gps" THEN sent.clock.count ELSE -1
    /\ UNCHANGED discontinuity_count_to_handle_old_clock_type

-----------------------------------------------------------------------------
Init == /\ arg = NotSent /\ sent = NotSent /\ before = -1
        /\ discontinuity_count_to_handle_old_clock_type = 0
Next == \/ gpsSvStatusCb \/ gnssSvStatusCb \/ locationCb \/ batchLocationCb \/ gnssMeasurementCb \/ gpsMeasurementCb
        \/ gpsMeasurementClock \/ agpsStatusCb \/ Return
Spec == Init /\ [][Next]_cvars

-----------------------------------------------------------------------------
(* gpsSvStatusCb(): every satellite gets a number gps.h allows for its       *)
(* constellation, and no two of them get the same.                           *)
SvIdentityUnique ==
    arg.cb = "gpsSvStatus" =>
        /\ sent.id.svid \in SvidRange(sent.id.constellation)
        /\ \A p \in Prns \ {arg.prn} : Identity(p) # sent.id

(* The framework is told of no accuracy that was not measured, and of every  *)
(* other field the library vouches for.                                      *)
LocationClaims ==
    arg.cb = "location" => sent.flags = {b \in arg.flags : b <= GpsLocationFlags.HORIZONTAL_ACCURACY}

(* A batch holds no more than the framework can take, only locations of the  *)
(* sources that were asked for, and all of those if the count was right.     *)
BatchAsRequested ==
    arg.cb = "batch" =>
        LET good == {i \in DOMAIN arg.locations : arg.locations[i].kind = "gnss"}
        IN /\ Len(sent.fixes) <= MAX_LOCATIONS_PER_BATCH
           /\ \A i \in DOMAIN sent.fixes : \E j \in good : i <= j /\ sent.fixes[i] = arg.locations[j].flags \cap (0 .. 4)
           /\ arg.count >= 0 /\ Len(arg.locations) <= MAX_LOCATIONS_PER_BATCH
                 => \A j \in good : \E i \in DOMAIN sent.fixes : sent.fixes[i] = arg.locations[j].flags \cap (0 .. 4)

(* GnssClock in gps.h: GPS time is time_ns less the sum of full_bias_ns and  *)
(* bias_ns; gpsMeasurementCb() turns both old kinds of clock into that.      *)
GpsTimeKept ==
    arg.cb = "clock" /\ arg.clock.type # "unknown" =>
        LET in == arg.clock
            out == sent.clock
        IN out.timeNs - (out.fullBiasNs + out.biasNs) = in.time + in.bias + (IF in.type = "local" THEN in.full_bias ELSE 0)

(* GnssClock in gps.h: while the discontinuity count stays the same the      *)
(* clock has been running continuously, also when the count rolls over: two  *)
(* reports of a clock of GPS time, which stands at zero, differ in it.       *)
DiscontinuityTold ==
    arg.cb = "clock" /\ arg.clock.type = "gps" => sent.clock.count # before

(* statusCb(): a status of the present layout reaches the framework as what  *)
(* it is; one with an address that is neither IPv4 nor IPv6 is dropped.      *)
AgnssStatusAsIs ==
    arg.cb = "agps" /\ arg.size = SizeOfAGpsStatus =>
        CASE arg.family = "AF_UNIX" -> sent = NotSent
          [] OTHER -> sent.cb = (IF arg.family = "AF_INET" THEN "IpV4" ELSE "IpV6") /\ sent.type = arg.type

(* The callbacks' arguments mean the same in the framework's terms as in     *)
(* those of gps.h, at the ends of every range.                               *)
ConversionsKept ==
    /\ SvIdentityUnique
    /\ LocationClaims
    /\ BatchAsRequested
    /\ GpsTimeKept
    /\ DiscontinuityTold
    /\ AgnssStatusAsIs
=============================================================================
