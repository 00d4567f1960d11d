--------------------------- MODULE MCWindowEngine ---------------------------
(* WindowEngine with three calls of three-step windows.                    *)
EXTENDS WindowEngine
=============================================================================
