--------------------------- MODULE MCModelRequest ---------------------------
(* Small instances of ModelRequest for TLC. *)
EXTENDS ModelRequest

\* The user stops the Turn while the display closure of a failed transport is writing.
StopsLate == stopping' => stopping \/ \E h \in ModelHosts : At(h, "display")

LateStopSpec == ModelInit /\ [][ModelNext /\ StopsLate]_modelVars
=============================================================================
