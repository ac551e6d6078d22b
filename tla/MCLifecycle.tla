----------------------------- MODULE MCLifecycle -----------------------------
(* A program with a few functions, which it registers as handlers.          *)
EXTENDS Lifecycle

CONSTANTS f, ext

\* Handlers that are defined functions, or external ones that do not exit.
MCHandlers == {f, ext, Atexit, Abort}
==============================================================================
