-------------------------- MODULE MCExternalSignals --------------------------
(* Threads that signal through a ring of a few slots.                        *)
EXTENDS ExternalSignals

CONSTANTS heartbeat, interpreter
=============================================================================
