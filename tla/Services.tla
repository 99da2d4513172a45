------------------------------ MODULE Services -------------------------------
(***************************************************************************)
(* The machines of the device tree that share no state with any other one: *)
(* the camera module, LiveDisplay, the Bluetooth address, the process      *)
(* helpers of resetprop, the identity of the phone and the RIL daemons.    *)
(* Each is declared here once, with its own constants and variables, for   *)
(* the run that checks them and for the proofs.                            *)
(***************************************************************************)
EXTENDS Integers, Sequences

CONSTANTS
    CameraIds, NumCameras, ParameterNumbers, ParameterKeys, ParameterValues, ParameterTexts, CameraCalls,
    DisplayIds, Calibrations, DisplayCalls, DisplayCrashes,
    AddressTexts,   \* what sscanf can find in the file and in the properties
    StackBytes,     \* what is in local_addr before it is written
    HelperCalls, CreatedFiles,
    BootLines, BootVariants, BuiltFor,
    SimSlots, LibArgs, RilCommands, RilDeaths

\* What sscanf finds in a text is a sequence of bytes.
ASSUME TextAssumption == AddressTexts \subseteq [len : Nat, bytes : Seq(Int), trailing : BOOLEAN]
\* The number of words in rild.libargs.
ASSUME ArgsAssumption == LibArgs \subseteq Nat

VARIABLES
    cm_installed, cm_gVendorModule, cm_handed, cm_vendorOpen, cm_worker, cm_vendorParams,
    cm_held, cm_edit, cm_strings, cm_last, cm_oom, cm_stolen, cm_calls,
    ld_at, ld_call, ld_mDefaultModeId, ld_mode, ld_modeMax, ld_defaultFile, ld_rgb, ld_lux,
    ld_result, ld_last, ld_lost, ld_calls, ld_crashes,
    ba_file, ba_factory, ba_persist, ba_at, ba_local_addr, ba_result,
    pu_proc, pu_call, pu_awaited, pu_pipes, pu_exists, pu_watch, pu_events, pu_subject,
    pu_crashed, pu_hist, pu_calls, pu_files,
    bp_bootloader, bp_slotFile, bp_phase, bp_prop, bp_zero_model, bp_library,
    rd_svc, rd_wanted, rd_script, rd_last, rd_rild, rd_past, rd_chained, rd_commands, rd_deaths

CM == INSTANCE CameraModule WITH
    Numbers <- ParameterNumbers, Ids <- CameraIds, Keys <- ParameterKeys, Values <- ParameterValues,
    Texts <- ParameterTexts, MaxCalls <- CameraCalls, installed <- cm_installed, gVendorModule <- cm_gVendorModule,
    handed <- cm_handed, vendorOpen <- cm_vendorOpen, worker <- cm_worker, vendorParams <- cm_vendorParams,
    held <- cm_held, edit <- cm_edit, strings <- cm_strings, last <- cm_last, oom <- cm_oom, stolen <- cm_stolen,
    calls <- cm_calls

LD == INSTANCE LiveDisplay WITH
    Ids <- DisplayIds, MaxCalls <- DisplayCalls, MaxCrashes <- DisplayCrashes, at <- ld_at, call <- ld_call,
    mDefaultModeId <- ld_mDefaultModeId, mode <- ld_mode, modeMax <- ld_modeMax, defaultFile <- ld_defaultFile,
    rgb <- ld_rgb, lux <- ld_lux, result <- ld_result, last <- ld_last, lost <- ld_lost, calls <- ld_calls,
    crashes <- ld_crashes

BA == INSTANCE BluetoothAddress WITH
    Texts <- AddressTexts, Garbage <- StackBytes, file <- ba_file, factory <- ba_factory, persist <- ba_persist,
    at <- ba_at, local_addr <- ba_local_addr, result <- ba_result

PU == INSTANCE ProcessUtils WITH
    MaxCalls <- HelperCalls, MaxFiles <- CreatedFiles, proc <- pu_proc, call <- pu_call, awaited <- pu_awaited,
    pipes <- pu_pipes, exists <- pu_exists, watch <- pu_watch, events <- pu_events, subject <- pu_subject,
    crashed <- pu_crashed, hist <- pu_hist, calls <- pu_calls, files <- pu_files

BP == INSTANCE BootProperties WITH
    Lines <- BootLines, Variants <- BootVariants, bootloader <- bp_bootloader, slotFile <- bp_slotFile,
    phase <- bp_phase, prop <- bp_prop, zero_model <- bp_zero_model, library <- bp_library

RD == INSTANCE RilDaemons WITH
    Slots <- SimSlots, MaxCommands <- RilCommands, MaxDeaths <- RilDeaths, svc <- rd_svc, wanted <- rd_wanted,
    script <- rd_script, last <- rd_last, rild <- rd_rild, past <- rd_past, chained <- rd_chained,
    commands <- rd_commands, deaths <- rd_deaths

-----------------------------------------------------------------------------
(* Properties *)

\* CameraModule: what the vendor's module has open is what the framework
\* holds, with a worker for API 1.
DevicesInv == CM!DevicesInv

\* CameraModule: the parameter string passes through the wrapper with the list
\* of video sizes replaced and nothing else.
ParametersKept == CM!ParametersKept

\* LiveDisplay: setDisplayMode keeps its word on mode and default over
\* crashes.
DisplayInv == LD!DisplayInv

\* BluetoothAddress: get_local_address never mixes the bytes of two sources.
OneSource == BA!OneSource

\* ProcessUtils: forks, pipes and watches of misc.c leave no second caller, no
\* zombie and no sleeper behind.
ProcessInv == PU!ProcessInv

\* BootProperties: the properties init_sec, zero-helpers.h and rilchip.sh
\* derive describe one phone.
BootInv == BP!BootInv

\* RilDaemons: after a command of rilchip.sh the daemons are up or down as it
\* asked.
CommandsDone == RD!CommandsDone
=============================================================================
