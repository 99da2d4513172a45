-------------------------- MODULE BluetoothAddress ---------------------------
(***************************************************************************)
(* hardware/bluetooth/bluetooth_address.cc: where the Bluetooth address     *)
(* comes from, and what is in the caller's buffer on the way.  A text is    *)
(* its length and the bytes sscanf finds in it before it stops.             *)
(***************************************************************************)
EXTENDS Integers, Sequences

CONSTANTS
    Texts,      \* [len, bytes, trailing]: what a file or property may hold
    Garbage     \* what is in the buffer before the call

VARIABLES
    file, factory, persist,  \* a text, or Nothing
    at,                      \* the next source to look at
    local_addr,              \* the caller's buffer
    result

vars == <<file, factory, persist, at, local_addr, result>>

kStringLength == 17
kBytes == 6
Nothing == [len |-> 0, bytes |-> <<>>, trailing |-> FALSE]
Zero == [i \in 1 .. kBytes |-> 0]

\* The first kStringLength characters, which is all that is read of the file.
Cut(text) == IF text.len > kStringLength THEN [text EXCEPT !.len = kStringLength, !.trailing = FALSE] ELSE text

\* Fault: a byte too few is enough.
string_to_bytes_Five(text) == text.len >= kStringLength /\ Len(text.bytes) >= kBytes - 1 /\ ~text.trailing

\* Six bytes and nothing behind them.
string_to_bytes(text) == text.len >= kStringLength /\ Len(text.bytes) = kBytes /\ ~text.trailing

\* Whatever was found is in the buffer, also when that was not all.
Filled(text) ==
    IF text.len < kStringLength THEN local_addr
    ELSE [i \in 1 .. kBytes |-> IF i <= Len(text.bytes) THEN text.bytes[i] ELSE local_addr[i]]

Init ==
    /\ file \in Texts \cup {Nothing} /\ factory \in Texts \cup {Nothing} /\ persist \in Texts \cup {Nothing}
    /\ at = "file" /\ local_addr = Garbage /\ result = "none"

\* An address of zeros in the file is not used.
Usable(text) == string_to_bytes(text) /\ text.bytes # Zero

FromFile ==
    /\ at = "file"
    /\ local_addr' = Filled(Cut(file))
    /\ IF Usable(Cut(file)) THEN at' = "done" /\ result' = "file" ELSE at' = "factory" /\ UNCHANGED result
    /\ UNCHANGED <<file, factory, persist>>

FromProperty(name, text, next) ==
    /\ at = name
    /\ local_addr' = Filled(text)
    /\ IF string_to_bytes(text) THEN at' = "done" /\ result' = name
       ELSE /\ at' = next
            /\ result' = IF next = "done" THEN "false" ELSE result
    /\ UNCHANGED <<file, factory, persist>>

\* get_local_address
Next == FromFile \/ FromProperty("factory", factory, "persist") \/ FromProperty("persist", persist, "done")
Spec == Init /\ [][Next]_vars

-----------------------------------------------------------------------------
(* Properties *)

\* get_local_address: the buffer holds the six bytes of one source when the call
\* succeeds, and never a mixture of one that was found wanting with another.
OneSource ==
    (at = "done" /\ result # "false") =>
        local_addr = (CASE result = "file" -> Cut(file) [] result = "factory" -> factory [] result = "persist" -> persist).bytes

=============================================================================
