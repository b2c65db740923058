--------------------------- MODULE MCFrameReader ---------------------------
(* A magic of two numbers; a payload has room for it, and 3 is too long.    *)
EXTENDS FrameReader

MCMagic == <<1, 2>>
=============================================================================
