---------------------------- MODULE CameraModule ----------------------------
(***************************************************************************)
(* The camera module of the wrapper (CameraWrapper.cpp) with the devices   *)
(* of API 3 (Camera3Wrapper.cpp) and of API 1 (Camera2Wrapper.cpp): what a *)
(* device owns from open to close, and the parameter strings that pass     *)
(* between the framework and the vendor's camera.  Module CameraCallbacks  *)
(* has the worker thread of one API 1 session; here it is on or off, and   *)
(* any number of devices share it.                                         *)
(***************************************************************************)
EXTENDS CameraParameters

CONSTANTS
    Ids,            \* camera ids the framework asks for
    NumCameras,     \* get_number_of_cameras of the vendor
    Keys, Values,   \* what a client sets in its parameters
    Texts,          \* parameter strings a client or the vendor comes up with
    MaxCalls

VARIABLES
    installed,      \* hw_get_module_by_class finds the vendor's module
    gVendorModule,  \* the source files that have found it
    handed,         \* devices the framework holds: <<api, id>>
    vendorOpen,     \* vendor devices that are open
    worker,         \* cbThread runs
    vendorParams,   \* per id: the vendor's parameter string
    held,           \* parameter strings the framework holds: <<id, text>>
    edit,           \* the client's CameraParameters object
    strings,        \* strings of strdup that nobody frees any more
    last,           \* the last call: name, result, and what it handed out
    oom, stolen,    \* history: an allocation failed; close took the worker
    calls           \* from a camera that stays open

vars == <<installed, gVendorModule, handed, vendorOpen, worker, vendorParams, held,
          edit, strings, last, oom, stolen, calls>>

NoText == <<>>
Report(call, rv, text) == last' = [call |-> call, rv |-> rv, text |-> text]

Init ==
    /\ installed \in BOOLEAN
    /\ gVendorModule = {} /\ handed = {} /\ vendorOpen = {} /\ worker = FALSE
    /\ \E t \in Texts : vendorParams = [id \in Ids |-> t]
    /\ held = {} /\ edit = Empty /\ strings = 0
    /\ last = [call |-> "none", rv |-> 0, text |-> NoText]
    /\ oom = FALSE /\ stolen = FALSE /\ calls = 0

Call == calls < MaxCalls /\ calls' = calls + 1 /\ UNCHANGED installed
Legacy(ds) == {d \in ds : d[1] = 1}

\* check_vendor_module of a source file keeps the pointer it once found.
check_vendor_module(files) == gVendorModule' = IF installed THEN gVendorModule \cup files ELSE gVendorModule

-----------------------------------------------------------------------------
(* open and close *)

\* Fault: a refused open is taken for one that succeeded.
FailedOpen_Keeps(d, opened) == vendorOpen' = vendorOpen \cup {d}

\* "fail": the wrapper's memory is freed.  A vendor device that is open by then
\* is not closed.
FailedOpen(d, opened) == vendorOpen' = IF opened THEN vendorOpen \cup {d} ELSE vendorOpen

\* The part of open that camera2_device_open and camera3_device_open share.  An
\* id one past the last camera goes to the vendor, who refuses it.
DeviceOpen(api, id) ==
    LET d == <<api, id>>
        free == id < NumCameras /\ \A a \in {1, 3} : <<a, id>> \notin vendorOpen
        failed(rv, opened) == /\ FailedOpen(d, opened)
                              /\ Report("open", rv, NoText)
                              /\ UNCHANGED handed
    IN \/ id > NumCameras /\ failed(-22, FALSE) /\ UNCHANGED oom
       \/ id <= NumCameras /\ oom' = TRUE /\ failed(-12, FALSE)
       \/ id <= NumCameras /\ failed(-16, FALSE) /\ UNCHANGED oom
       \/ free /\ oom' = TRUE /\ failed(-12, TRUE)
       \/ /\ free
          /\ vendorOpen' = vendorOpen \cup {d} /\ handed' = handed \cup {d}
          /\ Report("open", 0, NoText)
          /\ UNCHANGED oom

unchangedByOpen == <<vendorParams, held, edit, strings, stolen>>

camera3_device_open(id) ==
    /\ Call
    /\ check_vendor_module({"wrapper", "camera3"})
    /\ IF installed THEN DeviceOpen(3, id)
       ELSE Report("open", -22, NoText) /\ UNCHANGED <<handed, vendorOpen, oom>>
    /\ UNCHANGED <<worker, unchangedByOpen>>

\* CreateThread
StartWorker == worker' = TRUE

\* camera_open_legacy: without the vendor's module it returns 0 and no device.
\* Otherwise the worker is created before anything can fail.
camera2_device_open(id) ==
    /\ Call
    /\ check_vendor_module({"wrapper", "camera2"})
    /\ IF installed THEN StartWorker /\ DeviceOpen(1, id)
       ELSE Report("open", 0, NoText) /\ UNCHANGED <<handed, vendorOpen, oom, worker>>
    /\ UNCHANGED unchangedByOpen

camera3_device_close(d) ==
    /\ Call
    /\ d \in handed /\ d[1] = 3
    /\ handed' = handed \ {d} /\ vendorOpen' = vendorOpen \ {d}
    /\ Report("close", 0, NoText)
    /\ UNCHANGED <<gVendorModule, worker, vendorParams, held, edit, strings, oom, stolen>>

\* camera2_device_close ends the one worker there is.
camera2_device_close(d) ==
    /\ Call
    /\ d \in handed /\ d[1] = 1
    /\ handed' = handed \ {d} /\ vendorOpen' = vendorOpen \ {d}
    /\ worker' = FALSE
    /\ stolen' = (Legacy(handed') # {})
    /\ Report("close", 0, NoText)
    /\ UNCHANGED <<gVendorModule, vendorParams, held, edit, strings, oom>>

-----------------------------------------------------------------------------
(* Calls that are passed on *)

\* The operations of API 3; register_stream_buffers is not offered.
Camera3Ops == {"initialize", "configure_streams", "construct_default_request_settings",
               "process_capture_request", "get_metadata_vendor_tag_ops", "dump", "flush"}

\* The operations of API 1 that only reach the vendor.
Camera2Ops == {"set_preview_window", "enable_msg_type", "disable_msg_type", "msg_type_enabled",
               "start_preview", "preview_enabled", "store_meta_data_in_buffers",
               "start_recording", "stop_recording", "recording_enabled", "release_recording_frame"}

\* The functions of the module itself; without the vendor's module they return 0.
ModuleOps == {"get_number_of_cameras", "get_camera_info", "set_callbacks",
              "get_vendor_tag_ops", "set_torch_mode", "init"}

\* VENDOR_CALL: the vendor sees the same call on its own device.
VENDOR_CALL ==
    /\ Call
    /\ \E d \in handed : \E op \in IF d[1] = 3 THEN Camera3Ops ELSE Camera2Ops :
          Report(op, 0, NoText)
    /\ UNCHANGED <<gVendorModule, handed, vendorOpen, worker, vendorParams, held, edit,
                   strings, oom, stolen>>

ModuleCall ==
    /\ Call
    /\ check_vendor_module({"wrapper"})
    /\ \E op \in ModuleOps : Report(op, 0, NoText)
    /\ UNCHANGED <<handed, vendorOpen, worker, vendorParams, held, edit, strings, oom, stolen>>

-----------------------------------------------------------------------------
(* Parameters of an API 1 device *)

VideoSizes == <<"3840", "x", "2160", ",", "176", "x", "144">>

camera2_fixup_getparams(t) == flatten(set(unflatten(t), KEY_SUPPORTED_VIDEO_SIZES, VideoSizes))
camera2_fixup_setparams(t) == flatten(unflatten(t))

\* The vendor's string is given back to the vendor at once; the framework gets
\* a copy.
camera2_get_parameters(id) ==
    /\ Call
    /\ <<1, id>> \in handed
    /\ LET t == camera2_fixup_getparams(vendorParams[id])
       IN held' = held \cup {<<id, t>>} /\ Report("get_parameters", 0, t)
    /\ UNCHANGED <<gVendorModule, handed, vendorOpen, worker, vendorParams, edit, strings,
                   oom, stolen>>

\* The client reads the string it got into its object.
ClientReads ==
    /\ Call
    /\ \E h \in held : edit' = unflatten(h[2]) /\ held' = held \ {h} /\ Report("put_parameters", 0, h[2])
    /\ UNCHANGED <<gVendorModule, handed, vendorOpen, worker, vendorParams, strings, oom, stolen>>

\* The client changes its object.
ClientSets ==
    /\ Call
    /\ \/ \E k \in Keys, v \in Values : edit' = set(edit, k, v)
       \/ \E k \in Keys : edit' = remove(edit, k)
       \/ \E t \in Texts : edit' = unflatten(t)
    /\ Report("set", 0, NoText)
    /\ UNCHANGED <<gVendorModule, handed, vendorOpen, worker, vendorParams, held, strings,
                   oom, stolen>>

\* The client sets the sizes, the formats and the frame rate.
WithSizes(m, w, h) == setPictureSize(setVideoSize(setPreviewSize(m, w, h), h, w), w, w)
WithFormats(m, fps) == setPictureFormat(setPreviewFormat(setPreviewFrameRate(m, fps),
                                                         <<"yuv420sp">>), <<"jpeg">>)
ClientSetsSizes ==
    /\ Call
    /\ \E w, h \in {Numbers[n] : n \in DOMAIN Numbers} :
         /\ edit' = WithFormats(WithSizes(edit, w, h), h)
         /\ Report("sizes", 0, SizeText(w, h))
    /\ UNCHANGED <<gVendorModule, handed, vendorOpen, worker, vendorParams, held, strings,
                   oom, stolen>>

\* camera2_set_parameters: the copy is not freed.
camera2_set_parameters(id) ==
    /\ Call
    /\ <<1, id>> \in handed
    /\ LET t == camera2_fixup_setparams(flatten(edit))
       IN vendorParams' = [vendorParams EXCEPT ![id] = t] /\ Report("set_parameters", 0, t)
    /\ strings' = strings + 1
    /\ UNCHANGED <<gVendorModule, handed, vendorOpen, worker, held, edit, oom, stolen>>

Next ==
    \/ \E id \in Ids : \/ camera2_device_open(id) \/ camera3_device_open(id)
                       \/ camera2_get_parameters(id) \/ camera2_set_parameters(id)
    \/ \E d \in handed : camera2_device_close(d) \/ camera3_device_close(d)
    \/ VENDOR_CALL \/ ModuleCall \/ ClientReads \/ ClientSets \/ ClientSetsSizes

Spec == Init /\ [][Next]_vars

-----------------------------------------------------------------------------
(* Properties *)

\* camera2_device_open, camera3_device_open, close: what the vendor has open is
\* what the framework holds, except after an allocation failed, and no camera is
\* open through both interfaces.
VendorOpenHanded ==
    /\ handed \subseteq vendorOpen
    /\ vendorOpen # handed => oom
    /\ \A d, e \in vendorOpen : d[2] = e[2] => d = e

\* Camera2Wrapper.cpp: an API 1 camera has a worker for its callbacks from open
\* to close, unless the close of another API 1 camera has ended it.
WorkerServes == Legacy(handed) # {} /\ ~worker => stolen

\* CameraParameters.cpp, flatten and unflatten: every object a client can build,
\* from any text and with any calls of set and remove, survives the way through
\* the parameter string.
RoundTrip == unflatten(flatten(edit)) = edit

\* camera2_get_parameters and camera2_set_parameters: the framework sees the
\* vendor's parameters with the list of video sizes replaced and nothing else
\* changed, and the vendor gets what the client has built.
FixupExact ==
    [][/\ last'.call = "get_parameters" /\ calls' # calls =>
            \E id \in Ids : unflatten(last'.text) =
              KEY_SUPPORTED_VIDEO_SIZES :> VideoSizes @@ unflatten(vendorParams[id])
       /\ last'.call = "set_parameters" /\ calls' # calls => unflatten(last'.text) = edit]_vars

\* parseSizesList: from a list every size up to the first mistake is read, in
\* order and as it was written, and none behind the mistake.
SizesRead ==
    LET t == get(edit, KEY_SUPPORTED_PREVIEW_SIZES)
        sizes == getSupportedPreviewSizes(edit)
        item(i) == (IF i = 1 THEN <<>> ELSE <<",">>) \o SizeText(sizes[i].width, sizes[i].height)
        text == FlattenSeq([i \in 1 .. Len(sizes) |-> item(i)])
        a == IF sizes = <<>> THEN 1 ELSE Len(text) + 2
        ends(k) == k > Len(t) \/ t[k] = ","
    IN t # NULL =>
         /\ IsPrefix(text, t) /\ (sizes # <<>> => ends(Len(text) + 1))
         /\ ~(/\ a + 2 <= Len(t) /\ t[a] \in DOMAIN Numbers /\ t[a + 1] = "x"
              /\ t[a + 2] \in DOMAIN Numbers /\ ends(a + 3))

\* The setters and getters of CameraParameters.cpp: through texts and shared
\* keys, each size, format and rate that is set is the one that is read, and the
\* ranges and lists beside them stay as they were.
SettingsReadBack ==
    [][(last'.call = "sizes" /\ calls' # calls) =>
         LET w == Numbers[last'.text[1]]
             h == Numbers[last'.text[3]]
             lists(m) == <<getSupportedPreviewSizes(m), getSupportedVideoSizes(m),
                           getSupportedPictureSizes(m), getSupportedPreviewFormats(m),
                           getPreviewFpsRange(m), getPreferredPreviewSizeForVideo(m)>>
         IN /\ getPreviewSize(edit') = Size(w, h) /\ getVideoSize(edit') = Size(h, w)
            /\ getPictureSize(edit') = Size(w, w) /\ getPreviewFrameRate(edit') = h
            /\ previewFormatToEnum(getPreviewFormat(edit')[1]) = "YCrCb_420_SP"
            /\ getPictureFormat(edit') = <<"jpeg">>
            /\ lists(edit') = lists(edit)]_vars

\* Opening and closing through both interfaces: the vendor's devices are those of the
\* framework and have the worker they need, but for the two named exceptions.
DevicesInv == VendorOpenHanded /\ WorkerServes

\* The parameter string on its way between client, wrapper and vendor: nothing but the
\* list of video sizes changes, and what is read is what was set.
ParametersKept == [](RoundTrip /\ SizesRead) /\ FixupExact /\ SettingsReadBack
=============================================================================
