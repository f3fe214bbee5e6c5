----------------------------- MODULE SonyParameters -----------------------------
(***************************************************************************)
(* The translation between the parameters of Android's camera API and      *)
(* those of Sony's camera library (camera/device/SonyParameters.cpp), and  *)
(* what it promises a client.                                              *)
(*                                                                         *)
(* Parameters are a partial function from keys to values.  A value is the  *)
(* sequence of the words it is put together from, so that <<"ISO", "100">> *)
(* is cut to <<"100">>; the value of a key that lists what is supported is *)
(* the set of its items.                                                   *)
(***************************************************************************)
EXTENDS Sequences

has(p, key) == key \in DOMAIN p
get(p, key, default) == IF has(p, key) THEN p[key] ELSE default
set(p, key, value) == [k \in DOMAIN p \cup {key} |-> IF k = key THEN value ELSE p[k]]
contains(p, key, item) == has(p, key) /\ item \in p[key]

on == <<"on">>
off == <<"off">>
auto == <<"auto">>
hdr == <<"hdr">>
still_hdr == <<"on-still-hdr">>
intelligent_active == <<"on-intelligent-active">>

-----------------------------------------------------------------------------
(* fixupGetParameters: what the library says, as the framework reads it *)

OffersHdr(p) ==
  IF contains(p, "sony-is-values", still_hdr)
  THEN set(p, "scene-mode-values", get(p, "scene-mode-values", {}) \cup {hdr})
  ELSE p

OffersIso(p) ==
  IF has(p, "sony-iso-values")
  THEN set(p, "iso-values", {<<"ISO">> \o iso : iso \in p["sony-iso-values"]} \cup {auto})
  ELSE p

ShowsHdr(p) == IF get(p, "sony-is", <<>>) = still_hdr THEN set(p, "scene-mode", hdr) ELSE p

ShowsVideoHdr(p) ==
  IF has(p, "sony-video-hdr") /\ has(p, "sony-video-hdr-values")
  THEN set(set(p, "video-hdr-values", p["sony-video-hdr-values"]), "video-hdr", p["sony-video-hdr"])
  ELSE p

\* a missing sony-shutter-speed is not copied
ShowsExposure(p) ==
  LET mode == get(p, "sony-ae-mode", <<>>)
      isoShown == set(p, "iso",
        IF mode \in {<<"iso-prio">>, <<"manual">>} THEN <<"ISO">> \o p["sony-iso"] ELSE auto)
  IN IF ~(has(p, "sony-iso") /\ has(p, "sony-ae-mode-values")) THEN p
     ELSE IF mode \notin {<<"shutter-prio">>, <<"manual">>} THEN set(isoShown, "shutter-speed", auto)
     ELSE IF has(p, "sony-shutter-speed")
          THEN set(isoShown, "shutter-speed", p["sony-shutter-speed"])
          ELSE isoShown

fixupGetParameters(p) == ShowsExposure(ShowsVideoHdr(ShowsHdr(OffersIso(OffersHdr(p)))))

-----------------------------------------------------------------------------
(* fixupSetParameters: what the framework sets, as the library wants it *)

TakesShutterSpeed(p) ==
  IF ~has(p, "shutter-speed") THEN p
  ELSE IF p["shutter-speed"] # auto
  THEN set(set(p, "sony-shutter-speed", p["shutter-speed"]), "sony-ae-mode", <<"shutter-prio">>)
  ELSE IF contains(p, "sony-ae-mode-values", auto) THEN set(p, "sony-ae-mode", auto)
  ELSE p

\* Mutant: a sensitivity of one's own makes the shutter speed automatic again.
TakesIsoAlone(p) ==
  LET manual == has(p, "iso") /\ p["iso"] # auto
      cut == IF manual THEN set(p, "sony-iso", Tail(p["iso"])) ELSE p
  IN IF manual /\ contains(cut, "sony-ae-mode-values", <<"iso-prio">>)
     THEN set(cut, "sony-ae-mode", <<"iso-prio">>)
     ELSE cut

\* the exposure mode follows from both: what was chosen for the shutter is kept
TakesIso(p) ==
  LET manual == p["iso"] # auto
      cut == IF manual THEN set(p, "sony-iso", Tail(p["iso"])) ELSE p
      shutter == get(p, "sony-ae-mode", <<>>) = <<"shutter-prio">>
  IN IF ~has(p, "iso") THEN p
     ELSE IF ~manual /\ ~shutter /\ contains(cut, "sony-ae-mode-values", auto)
     THEN set(cut, "sony-ae-mode", auto)
     ELSE IF manual /\ contains(cut, "sony-ae-mode-values", <<"iso-prio">>)
     THEN set(cut, "sony-ae-mode", IF shutter THEN <<"manual">> ELSE <<"iso-prio">>)
     ELSE cut

\* HDR is a way of stabilising the image, and the scene itself automatic
TakesScene(p) ==
  IF ~has(p, "scene-mode") THEN p
  ELSE IF p["scene-mode"] = hdr THEN set(set(p, "sony-is", still_hdr), "scene-mode", auto)
  ELSE set(p, "sony-is", on)

TakesVideoHdr(p) ==
  IF has(p, "sony-video-hdr") /\ has(p, "video-hdr") THEN set(p, "sony-video-hdr", p["video-hdr"]) ELSE p

TakesRecordingHint(p) ==
  IF get(p, "recording-hint", <<>>) # <<"true">> THEN p
  ELSE set(set(p, "sony-is", off), "sony-vs",
           IF contains(p, "sony-vs-values", intelligent_active) THEN intelligent_active ELSE on)

fixupSetParameters(p) ==
  TakesRecordingHint(TakesVideoHdr(TakesScene(TakesIso(TakesShutterSpeed(
    set(p, "preview-fps-range", <<"1000", "60000">>))))))

-----------------------------------------------------------------------------
(* CameraDevice::setParam changes a key that is there; open sets two so *)

setParam(p, key, value) == IF has(p, key) THEN set(p, key, value) ELSE p

Opened(p) ==
  fixupSetParameters(setParam(setParam(fixupGetParameters(p),
    "preview-frame-rate", <<"30">>), "preview-fps-range", <<"1000", "30000">>))

-----------------------------------------------------------------------------
(* what a library may say, and what a client may choose among what it reads *)

AeModes == {auto, <<"iso-prio">>, <<"shutter-prio">>, <<"manual">>}
Speeds == {<<"1/60">>, <<"1/8">>}

\* what the kinds of libraries support
Supported == [image : {{on, off}, {on, off, still_hdr}}, exposure : BOOLEAN, video : BOOLEAN]

\* their exposure: a shutter speed that is in use is known
Exposures ==
  {e \in [mode : AeModes, speed : Speeds \cup {<<>>}] :
     e.speed = <<>> => e.mode \notin {<<"shutter-prio">>, <<"manual">>}}

\* and their current values
ImageKeys ==
  {"scene-mode", "scene-mode-values", "sony-is", "sony-is-values", "sony-vs-values",
   "preview-frame-rate", "preview-fps-range"}
ExposureKeys == {"sony-ae-mode", "sony-ae-mode-values", "sony-iso", "sony-iso-values"}
VideoKeys == {"sony-video-hdr", "sony-video-hdr-values"}

Keys(s, e) ==
  ImageKeys
    \cup (IF s.exposure THEN ExposureKeys ELSE {})
    \cup (IF s.exposure /\ e.speed # <<>> THEN {"sony-shutter-speed"} ELSE {})
    \cup (IF s.video THEN VideoKeys ELSE {})

Saying(s, is, e) ==
  [key \in Keys(s, e) |->
     CASE key = "scene-mode" -> auto
       [] key = "scene-mode-values" -> {auto, <<"sports">>}
       [] key = "sony-is" -> is
       [] key = "sony-is-values" -> s.image
       [] key = "sony-vs-values" -> {on, intelligent_active}
       [] key = "preview-frame-rate" -> <<"15">>
       [] key = "preview-fps-range" -> <<"1000", "60000">>
       [] key = "sony-ae-mode" -> e.mode
       [] key = "sony-ae-mode-values" -> AeModes
       [] key = "sony-iso" -> <<"100">>
       [] key = "sony-iso-values" -> {<<"100">>, <<"400">>}
       [] key = "sony-shutter-speed" -> e.speed
       [] key = "sony-video-hdr" -> off
       [] key = "sony-video-hdr-values" -> {on, off}]

Said(s) == {Saying(s, is, e) : is \in s.image, e \in Exposures}

Offered(p) ==
  [scene : p["scene-mode-values"], iso : get(p, "iso-values", {auto}),
   speed : Speeds \cup {auto}, video : get(p, "video-hdr-values", {off}), recording : BOOLEAN]

Chosen(p, c) ==
  LET shot == set(set(p, "scene-mode", c.scene), "recording-hint",
                  IF c.recording THEN <<"true">> ELSE <<"false">>)
      exposed == IF has(p, "iso-values")
                 THEN set(set(shot, "iso", c.iso), "shutter-speed", c.speed) ELSE shot
  IN IF has(p, "video-hdr") THEN set(exposed, "video-hdr", c.video) ELSE exposed

Seen(p, keys) == [key \in keys \cap DOMAIN p |-> p[key]]
exposure == {"iso", "shutter-speed", "video-hdr"}

\* What a client chose among what it was offered is what it reads when the
\* library has taken it; a recording has no HDR scenes.
ChoiceKept ==
  \A s \in Supported : \A said \in Said(s) :
    LET p == fixupGetParameters(said)
    IN \A c \in Offered(p) :
         LET read == fixupGetParameters(fixupSetParameters(Chosen(p, c)))
         IN /\ Seen(read, exposure) = Seen(Chosen(p, c), exposure)
            /\ c.recording \/ read["scene-mode"] = c.scene

\* That a camera is opened changes nothing that a client reads of the above.
OpenKeeps ==
  \A s \in Supported : \A said \in Said(s) :
    LET keys == exposure \cup {"scene-mode"}
    IN Seen(fixupGetParameters(Opened(said)), keys) = Seen(fixupGetParameters(said), keys)
================================================================================
