----------------------------- MODULE MCServices ------------------------------
(***************************************************************************)
(* The machines of Services side by side: one of them runs in each         *)
(* behaviour.                                                              *)
(***************************************************************************)
EXTENDS Services, TLC

VARIABLE part   \* the machine that runs in this behaviour

cameraVars ==
    <<cm_installed, cm_gVendorModule, cm_handed, cm_vendorOpen, cm_worker, cm_vendorParams,
      cm_held, cm_edit, cm_strings, cm_last, cm_oom, cm_stolen, cm_calls>>
displayVars ==
    <<ld_at, ld_call, ld_mDefaultModeId, ld_mode, ld_modeMax, ld_defaultFile, ld_rgb, ld_lux,
      ld_result, ld_last, ld_lost, ld_calls, ld_crashes>>
addressVars ==
    <<ba_file, ba_factory, ba_persist, ba_at, ba_local_addr, ba_result>>
processVars ==
    <<pu_proc, pu_call, pu_awaited, pu_pipes, pu_exists, pu_watch, pu_events, pu_subject,
      pu_crashed, pu_hist, pu_calls, pu_files>>
bootVars ==
    <<bp_bootloader, bp_slotFile, bp_phase, bp_prop, bp_zero_model, bp_library>>
rilVars ==
    <<rd_svc, rd_wanted, rd_script, rd_last, rd_rild, rd_past, rd_chained, rd_commands,
      rd_deaths>>

\* CameraModule: parameters, well formed or not
MCNumbers == "640" :> 640 @@ "480" :> 480
MCKeys == {<<"preview-size-values">>, <<"a">>, <<"a", ";", "b">>}
MCValues == {<<"640", "x", "480", ",", "480", "x", "480">>, <<"640", "x", "480", "x">>,
                    <<"v", ";", "w">>, <<>>, <<"NULL">>}
MCTexts ==
    {<<>>, <<"a", "=", "v", ";", "b", "=", "w", ";">>, <<"a", "=", "v", "=", "u", ";", "b", ";", "c", "=">>,
     <<"video-size-values", "=", "1", ";", "a", "=", "v", ";", "a", "=", "w">>}

\* LiveDisplay: calibrations with and without all the colours
MCCalibrations == {<<255, 255, 255>>, <<0, 300>>}

\* BluetoothAddress: good ones, zeros, too long, a byte short, cut off, no number
Text(len, bytes, trailing) == [len |-> len, bytes |-> bytes, trailing |-> trailing]
Nowhere == Text(0, <<>>, FALSE)
MCAddresses ==
    {Text(17, <<1, 2, 3, 4, 5, 6>>, FALSE), Text(17, <<7, 8, 9, 7, 8, 9>>, FALSE),
     Text(17, <<0, 0, 0, 0, 0, 0>>, FALSE), Text(18, <<1, 1, 1, 1, 1, 1>>, TRUE),
     Text(17, <<2, 2, 2, 2, 2>>, FALSE), Text(9, <<1, 2, 3>>, FALSE), Text(20, <<>>, FALSE)}
MCStackBytes == <<99, 99, 99, 99, 99, 99>>

\* BootProperties: builds for a device of their own and for the unnamed ones
MCBuiltFor == {<<"zeroflte", "xx">>, <<"zeroflte", "duo">>, <<"zenlte", "xx">>, <<"noblelte", "jv">>, <<"noblelte", "tmo">>}
NoProperties == [device |-> <<"", "">>, model |-> <<"", "">>, product |-> "", fingerprint |-> <<<<"", "">>, <<"", "">>>>,
                 multisim |-> "", radioMultisim |-> "", slots |-> "", network |-> ""]

-----------------------------------------------------------------------------
\* A machine that does not run stays in one of its initial states.
Init ==
    /\ part \in {"camera", "display", "address", "process", "boot", "ril"}
    /\ IF part = "camera" THEN TRUE ELSE cm_installed = FALSE
    /\ IF part = "camera" THEN TRUE ELSE cm_vendorParams = [id \in 0 .. 3 |-> <<>>]
    /\ IF part = "display" THEN TRUE ELSE ld_modeMax = 5
    /\ IF part = "display" THEN TRUE ELSE ld_rgb = <<255, 255, 255>>
    /\ IF part = "address" THEN TRUE ELSE ba_file = Nowhere
    /\ IF part = "address" THEN TRUE ELSE ba_factory = Nowhere
    /\ IF part = "address" THEN TRUE ELSE ba_persist = Nowhere
    /\ IF part = "boot" THEN TRUE ELSE bp_bootloader = <<"", "">>
    /\ IF part = "boot" THEN TRUE ELSE bp_slotFile = "1"
    /\ IF part = "boot" THEN TRUE ELSE bp_prop = NoProperties
    /\ CM!Init /\ LD!Init /\ BA!Init /\ PU!Init /\ BP!Init /\ RD!Init

Next ==
    \/ part = "camera" /\ CM!Next
       /\ UNCHANGED <<part, displayVars, addressVars, processVars, bootVars, rilVars>>
    \/ part = "display" /\ LD!Next
       /\ UNCHANGED <<part, cameraVars, addressVars, processVars, bootVars, rilVars>>
    \/ part = "address" /\ BA!Next
       /\ UNCHANGED <<part, cameraVars, displayVars, processVars, bootVars, rilVars>>
    \/ part = "process" /\ PU!Next
       /\ UNCHANGED <<part, cameraVars, displayVars, addressVars, bootVars, rilVars>>
    \/ part = "boot" /\ BP!Next
       /\ UNCHANGED <<part, cameraVars, displayVars, addressVars, processVars, rilVars>>
    \/ part = "ril" /\ RD!Next
       /\ UNCHANGED <<part, cameraVars, displayVars, addressVars, processVars, bootVars>>

vars == <<part, cameraVars, displayVars, addressVars, processVars, bootVars, rilVars>>
Spec == Init /\ [][Next]_vars
=============================================================================
