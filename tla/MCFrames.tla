------------------------------ MODULE MCFrames ------------------------------
(* FrameStream for TLC: pictures and time stamps of control bytes.            *)
EXTENDS FrameStream

Pictures   == << <<4, 1, 3, 2>>, <<1, 2, 4, 4>>, <<3, 4, 1, 1>> >>
ThreeBytes == <<4, 1, 4>>
=============================================================================
