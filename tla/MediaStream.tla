---------------------------- MODULE MediaStream ----------------------------
(* The media classes of the media_stream example.  An application sends     *)
(* H.264 or VP8, with one object of its payloader.                          *)
EXTENDS H264Media, VP8Media

VARIABLE codec  \* what the application chose

MediaInit == Init /\ VP8Init /\ codec \in {"h264", "vp8"}

MediaNext ==
  \/ codec = "h264" /\ Next /\ UNCHANGED vp8_vars /\ UNCHANGED codec
  \/ codec = "vp8" /\ VP8Next /\ UNCHANGED vars /\ UNCHANGED codec

MediaSpec == MediaInit /\ [][MediaNext]_<<vars, vp8_vars, codec>>
=============================================================================
