------------------------- MODULE MCCameraCallbacks -------------------------
(* Small instances of CameraCallbacks. *)
EXTENDS CameraCallbacks

\* "a function like cancel_auto_focus or stop_preview": every call on an open
\* camera, but not opening and closing it.
CallsOnDevice == Ops \ {"open", "close"}
=============================================================================
