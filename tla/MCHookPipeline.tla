--------------------------- MODULE MCHookPipeline ---------------------------
(* Small instances of HookPipeline for TLC. *)
EXTENDS HookPipeline, TLC

CONSTANTS global1, global2, call1, call2   \* hooks registered globally and per call

\* Lists with nil hooks, an empty list and more than one hook.
MCInitHooks == {<<global1, global2>>, <<NilHook>>}
MCCallHooks == {<<NilHook>>, <<call1>>, <<NilHook, call2>>}

\* Two hooks at Open and one added make a list with room in its array.
MCSharedInit == {<<global1, global2>>}
MCSharedCall == {<<>>, <<call1>>, <<call2>>}

\* The goroutines run the same code (used for safety properties only).
MCSymmetry == Permutations(Goroutine)
=============================================================================
