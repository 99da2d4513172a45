-------------------------- MODULE CameraParameters --------------------------
(***************************************************************************)
(* The parameter string of a camera (camera/CameraParameters.cpp).  A text *)
(* is a sequence of words; "=", ";", "," and "x" are the words the code    *)
(* looks for, and a number is one word.  mMap is a function from keys to   *)
(* values, both of them texts.                                             *)
(***************************************************************************)
EXTENDS Integers, Sequences, FiniteSets, TLC, SequencesExt

CONSTANT Numbers    \* the value of each word that is a number

Size(w, h) == [width |-> w, height |-> h]
NULL == <<"NULL">>
Empty == [k \in {} |-> <<>>]

\* Position of the first c at or after i, 0 if there is none.
strchr(t, i, c) == SelectInSubSeq(t, i, Len(t), LAMBDA w : w = c)
Has(t, c) == strchr(t, 1, c) # 0

\* Keys are in the order of KeyedVector, which the properties do not see.
flatten(m) ==
    FoldSet(LAMBDA k, t : t \o (IF t = <<>> THEN <<>> ELSE <<";">>) \o k \o <<"=">> \o m[k],
            <<>>, DOMAIN m)

\* The items of t from position a on: a key ends at the next "=", its value at
\* the next ";" or with the text.  A key that comes again replaces its value.
unflatten(t) ==
    LET items[a \in 1 .. Len(t) + 1] ==
          LET b == strchr(t, a, "=")
              c == strchr(t, b + 1, ";")
              key == SubSeq(t, a, b - 1)
          IN IF b = 0 THEN Empty
             ELSE IF c = 0 THEN key :> SubSeq(t, b + 1, Len(t))
             ELSE items[c + 1] @@ key :> SubSeq(t, b + 1, c - 1)
    IN items[1]

\* Fault: the value is not looked at.
set_KeyOnly(m, key, value) ==
    IF key = NULL \/ value = NULL \/ Has(key, "=") \/ Has(key, ";") THEN m
    ELSE key :> value @@ m

\* A key or a value with a separator in it is ignored.
set(m, key, value) ==
    IF \/ key = NULL \/ value = NULL
       \/ Has(key, "=") \/ Has(key, ";") \/ Has(value, "=") \/ Has(value, ";") THEN m
    ELSE key :> value @@ m

Digits(n) == CHOOSE w \in DOMAIN Numbers : Numbers[w] = n
setInt(m, key, n) == set(m, key, <<Digits(n)>>)

\* A key that is not there and an empty value are both NULL.
get(m, key) == IF key \notin DOMAIN m \/ m[key] = <<>> THEN NULL ELSE m[key]

\* strtol: the number at position i and the position behind it; 0 and i if
\* there is no number.
strtol(t, i) == IF i <= Len(t) /\ t[i] \in DOMAIN Numbers THEN <<Numbers[t[i]], i + 1>>
                ELSE <<0, i>>
getInt(m, key) == IF get(m, key) = NULL THEN -1 ELSE strtol(m[key], 1)[1]
remove(m, key) == [k \in DOMAIN m \ {key} |-> m[k]]

\* "640x480" or "10000,20000": the delimiter follows the first number.
parse_pair(t, i, delim) ==
    LET w == strtol(t, i)
        h == strtol(t, w[2] + 1)
    IN IF w[2] > Len(t) \/ t[w[2]] # delim THEN [ok |-> FALSE, first |-> -1, second |-> -1, end |-> i]
       ELSE [ok |-> TRUE, first |-> w[1], second |-> h[1], end |-> h[2]]

\* The sizes up to the first mistake.
parseSizesList(t) ==
    LET sizes[i \in 1 .. Len(t) + 1] ==
          LET p == parse_pair(t, i, "x") IN
          IF ~p.ok \/ (p.end <= Len(t) /\ t[p.end] # ",") THEN <<>>
          ELSE <<Size(p.first, p.second)>> \o IF p.end > Len(t) THEN <<>> ELSE sizes[p.end + 1]
    IN IF t = NULL THEN <<>> ELSE sizes[1]

\* The two numbers under a key, -1 and -1 if they are not there.
PairAt(m, key, delim) ==
    IF get(m, key) = NULL THEN Size(-1, -1)
    ELSE LET p == parse_pair(m[key], 1, delim) IN Size(p.first, p.second)
SizeText(w, h) == <<Digits(w), "x", Digits(h)>>

KEY_PREVIEW_SIZE == <<"preview-size">>
KEY_SUPPORTED_PREVIEW_SIZES == <<"preview-size-values">>
KEY_PREVIEW_FORMAT == <<"preview-format">>
KEY_SUPPORTED_PREVIEW_FORMATS == <<"preview-format-values">>
KEY_PREVIEW_FRAME_RATE == <<"preview-frame-rate">>
KEY_PREVIEW_FPS_RANGE == <<"preview-fps-range">>
KEY_PICTURE_SIZE == <<"picture-size">>
KEY_SUPPORTED_PICTURE_SIZES == <<"picture-size-values">>
KEY_PICTURE_FORMAT == <<"picture-format">>
KEY_VIDEO_SIZE == <<"video-size">>
KEY_SUPPORTED_VIDEO_SIZES == <<"video-size-values">>
KEY_PREFERRED_PREVIEW_SIZE_FOR_VIDEO == <<"preferred-preview-size-for-video">>

setPreviewSize(m, w, h) == set(m, KEY_PREVIEW_SIZE, SizeText(w, h))
getPreviewSize(m) == PairAt(m, KEY_PREVIEW_SIZE, "x")
getPreferredPreviewSizeForVideo(m) == PairAt(m, KEY_PREFERRED_PREVIEW_SIZE_FOR_VIDEO, "x")
getSupportedPreviewSizes(m) == parseSizesList(get(m, KEY_SUPPORTED_PREVIEW_SIZES))
setVideoSize(m, w, h) == set(m, KEY_VIDEO_SIZE, SizeText(w, h))
getVideoSize(m) == PairAt(m, KEY_VIDEO_SIZE, "x")
getSupportedVideoSizes(m) == parseSizesList(get(m, KEY_SUPPORTED_VIDEO_SIZES))
setPreviewFrameRate(m, fps) == setInt(m, KEY_PREVIEW_FRAME_RATE, fps)
getPreviewFrameRate(m) == getInt(m, KEY_PREVIEW_FRAME_RATE)
getPreviewFpsRange(m) == PairAt(m, KEY_PREVIEW_FPS_RANGE, ",")
setPreviewFormat(m, format) == set(m, KEY_PREVIEW_FORMAT, format)
getPreviewFormat(m) == get(m, KEY_PREVIEW_FORMAT)
setPictureSize(m, w, h) == set(m, KEY_PICTURE_SIZE, SizeText(w, h))
getPictureSize(m) == PairAt(m, KEY_PICTURE_SIZE, "x")
getSupportedPictureSizes(m) == parseSizesList(get(m, KEY_SUPPORTED_PICTURE_SIZES))
setPictureFormat(m, format) == set(m, KEY_PICTURE_FORMAT, format)
getPictureFormat(m) == get(m, KEY_PICTURE_FORMAT)

previewFormatToEnum(format) ==
    CASE format \in {"NULL", "yuv420sp"} -> "YCrCb_420_SP" [] format = "yuv422sp" -> "YCbCr_422_SP"
      [] format = "yuv422i-yuyv" -> "YCbCr_422_I" [] format = "yuv420p" -> "YV12"
      [] format = "rgb565" -> "RGB_565" [] format = "rgba8888" -> "RGBA_8888"
      [] format = "bayer-rggb" -> "RAW16" [] OTHER -> "none"

\* The formats in the list that have an enum; strtok_r passes over empty items.
getSupportedPreviewFormats(m) ==
    LET t == get(m, KEY_SUPPORTED_PREVIEW_FORMATS)
        words == IF t = NULL THEN <<>> ELSE SelectSeq(t, LAMBDA w : w # ",")
    IN SelectSeq([i \in 1 .. Len(words) |-> previewFormatToEnum(words[i])], LAMBDA f : f # "none")
=============================================================================
