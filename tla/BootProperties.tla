--------------------------- MODULE BootProperties ---------------------------
(***************************************************************************)
(* How a phone finds out what it is.  init/init_sec.cpp derives model,     *)
(* device and product from the bootloader's name and overrides the build's *)
(* properties, ramdisk/init.rilchip.sh then sets the properties of the SIM *)
(* slots, and include/zero-helpers.h derives once more, from the same name *)
(* and with a table of its own, which RIL library hardware/rild/rild.c     *)
(* loads.                                                                  *)
(***************************************************************************)
EXTENDS Sequences

CONSTANTS
    Lines, Variants,    \* a bootloader's name starts with a line and a variant
    BuiltFor            \* the devices a build can be for, as <<product, suffix>>

VARIABLES
    bootloader,  \* <<line, variant>>, or Empty
    slotFile,    \* what /proc/simslot_count says: "1", "2", "missing"
    phase,       \* "booting", "loaded", "ready"
    prop,        \* the properties
    zero_model,  \* __zero_model of one process that reads it, and
    library      \* the name of the library rild takes

vars == <<bootloader, slotFile, phase, prop, zero_model, library>>

Empty == <<"", "">>
Bootloaders == (Lines \X Variants) \cup {Empty}

-----------------------------------------------------------------------------
(* init_sec.cpp *)

\* The rows of the four products: variant and suffix of the device name.
Flat == [F |-> "xx", I |-> "xx", K |-> "ktt", L |-> "lgt", P |-> "spr", S |-> "skt", T |-> "tmo", W8 |-> "can"]
Edge == [F |-> "xx", I |-> "xx", K |-> "ktt", L |-> "lgt", P |-> "spr", S |-> "skt", T |-> "tmo", W8 |-> "can"]
EdgePlus == [F |-> "xx", C |-> "jv", I |-> "dv", G |-> "dd", K |-> "ktt", L |-> "lgt", S |-> "skt",
             T |-> "tmo", W8 |-> "can"]
Note == [C |-> "jv", G |-> "dd", I |-> "dv", P |-> "spr", S |-> "skt", K |-> "ktt", L |-> "lgt",
         T |-> "tmo", W8 |-> "can"]
Note5 == [v \in {"8"} \cup DOMAIN Note |-> IF v = "8" THEN "zt" ELSE Note[v]]

Row == [G920 |-> [product |-> "zeroflte", suffix |-> Flat], G925 |-> [product |-> "zerolte", suffix |-> Edge],
        G928 |-> [product |-> "zenlte", suffix |-> EdgePlus], N920 |-> [product |-> "noblelte", suffix |-> Note5]]

\* Builds for these devices get no model and no device name at all.
Unnamed == {<<<<"G920", "F">>, <<"zeroflte", "duo">>>>, <<<<"G925", "F">>, <<"zeroflte", "duo">>>>,
            <<<<"G928", "F">>, <<"zenlte", "xx">>>>,    <<<<"N920", "C">>, <<"noblelte", "jv">>>>}

\* What the table says of the bootloader b on a build for the device orig.
Identity(b, orig) ==
    LET listed == b[1] \in DOMAIN Row
        named  == listed /\ b[2] \in DOMAIN Row[b[1]].suffix /\ <<b, orig>> \notin Unnamed
    IN  [product |-> IF listed THEN Row[b[1]].product ELSE "",
         model   |-> IF named THEN b ELSE Empty,
         device  |-> IF named THEN <<Row[b[1]].product, Row[b[1]].suffix[b[2]]>> ELSE Empty,
         dualsim |-> named /\ b \in {<<"N920", "C">>, <<"N920", "8">>}]

\* Fault: all the device names in a text are replaced but with the product's.
replace_Product(text, from, id) == [text EXCEPT ![1] = IF @ = from THEN <<id.product, "">> ELSE @]

\* The device names in a build description or fingerprint: the first one found
\* is replaced.
replace(text, from, id) == [text EXCEPT ![1] = IF @ = from THEN id.device ELSE @]

\* All the property_override calls.  A fingerprint has the device name twice.
vendor_load_properties ==
    /\ phase = "booting" /\ phase' = "loaded"
    /\ LET orig == prop.device
           id   == Identity(bootloader, orig)
           text == IF orig = Empty THEN prop.fingerprint ELSE replace(prop.fingerprint, orig, id)
       IN  prop' = [prop EXCEPT !.device = id.device, !.model = id.model, !.product = id.product,
                                !.fingerprint = text,
                                !.multisim = IF id.dualsim THEN "dsds" ELSE @,
                                !.radioMultisim = IF id.dualsim THEN "dsds" ELSE @,
                                !.slots = IF id.dualsim THEN "2" ELSE @,
                                !.network = IF id.dualsim THEN "9,9" ELSE @]
    /\ UNCHANGED <<bootloader, slotFile, zero_model, library>>

-----------------------------------------------------------------------------
(* init.rilchip.sh init *)

\* persist.multisim.config is only set for two slots.
OneSlot == [prop EXCEPT !.slots = "1", !.radioMultisim = "none", !.network = "9"]
TwoSlots == [prop EXCEPT !.slots = "2", !.radioMultisim = "dsds", !.network = "9,9", !.multisim = "dsds"]

SIMSLOT_COUNT == IF slotFile = "missing" THEN "1" ELSE slotFile

rilchip_init ==
    /\ phase = "loaded" /\ phase' = "ready"
    /\ prop' = IF SIMSLOT_COUNT = "1" THEN OneSlot
               ELSE IF SIMSLOT_COUNT = "2" THEN TwoSlots ELSE prop
    /\ UNCHANGED <<bootloader, slotFile, zero_model, library>>

-----------------------------------------------------------------------------
(* zero-helpers.h and the choice of the library in rild.c *)

Carrier == [I |-> "INDIA", T |-> "TMOBILE", W8 |-> "CANADA"]

\* The comparisons with "G920P", "G9200", "G9208" and "G9209" take the end of
\* the string in, and no bootloader's name ends there.
ModelOf(b) ==
    IF b = Empty THEN "UNDEFINED"
    ELSE IF b[1] \in DOMAIN Row /\ b[2] \in DOMAIN Carrier THEN Carrier[b[2]]
    ELSE IF b \in {<<"G920", "R4">>, <<"G925", "R4">>} THEN "SPRINT"
    ELSE "DEFAULT"

\* The model is kept, unless it is still UNDEFINED.
zero_model_read == IF zero_model # "UNDEFINED" THEN zero_model ELSE ModelOf(bootloader)

LibraryOf == [INDIA |-> "india", TMOBILE |-> "tmobile", CANADA |-> "canada", SPRINT |-> "spr",
              DEFAULT |-> "plain", UNDEFINED |-> "plain"]

\* rild without -l; init starts it from the first stage on.
rild_library ==
    /\ phase # "booting" /\ library = "none"
    /\ zero_model' = zero_model_read
    /\ library' = LibraryOf[zero_model']
    /\ UNCHANGED <<bootloader, slotFile, phase, prop>>

-----------------------------------------------------------------------------
Init ==
    /\ bootloader \in Bootloaders /\ slotFile \in {"1", "2", "missing"}
    /\ phase = "booting" /\ zero_model = "UNDEFINED" /\ library = "none"
    /\ \E d \in BuiltFor \cup {Empty} :
         prop = [device |-> d, model |-> d, product |-> d[1], fingerprint |-> <<d, d>>,
                 multisim |-> "", radioMultisim |-> "", slots |-> "", network |-> ""]

Next == vendor_load_properties \/ rilchip_init \/ rild_library
Spec == Init /\ [][Next]_vars

(* Properties *)

\* vendor_load_properties: device, product and the fingerprint name one device,
\* the one of the bootloader, whatever device the build was made for.  The
\* fingerprint's second name is left as it was built.
OneIdentity ==
    phase # "booting" =>
        /\ prop.device # Empty => prop.device[1] = prop.product /\ prop.model = bootloader
        /\ prop.fingerprint[1] = prop.device \/ prop.fingerprint[2] = Empty

\* rilchip.sh init: the slot properties agree with each other and with the slots
\* there are, also on a phone init_sec took for one with two; only
\* persist.multisim.config may be a leftover.
MultisimAgrees ==
    phase = "ready" =>
        /\ prop.slots = SIMSLOT_COUNT
        /\ (prop.radioMultisim = "dsds") <=> (prop.slots = "2")
        /\ (prop.network = "9,9") <=> (prop.slots = "2")
        /\ prop.slots = "2" => prop.multisim = "dsds"

\* init_sec.cpp and zero-helpers.h read the same name with two tables: a device
\* named after T-Mobile or a Canadian carrier gets the library for it, and no
\* other device does.
LibraryFitsDevice ==
    (library # "none" /\ prop.device # Empty) =>
        /\ (prop.device[2] = "tmo") <=> (library = "tmobile")
        /\ (prop.device[2] = "can") <=> (library = "canada")

\* All that is derived from the bootloader's name and the slot file, in init_sec.cpp,
\* zero-helpers.h and rilchip.sh, describes one phone.
BootInv == OneIdentity /\ MultisimAgrees /\ LibraryFitsDevice
=============================================================================
