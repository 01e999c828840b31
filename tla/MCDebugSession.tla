--------------------------- MODULE MCDebugSession ---------------------------
(* Instances of DebugSession for TLC. *)
EXTENDS DebugSession

\* One IC yields and halts, the other loops until its quota is used up.
MCPrograms == <<<<"inc", "yield", "hcf">>, <<"inc", "jump">>>>

\* One IC loops until it is sent past the loop, the other fails.
MCMixed == <<<<"inc", "jump", "hcf">>, <<"yield", "fail">>>>

\* A session that runs, is paused and edited; one that is hot-reloaded between
\* runs; and one that is stepped by hand.
MCHistorySessions ==
    {{"continue", "pause", "setWorld", "setVariable", "stepBack",
      "reverseContinue", "navigate", "restart"},
     {"continue", "pause", "navigate", "hotReload"},
     {"stepIn", "stepTick", "setWorld", "setVariable", "stepBack",
      "reverseContinue", "navigate", "hotReload", "restart"}}

MCBreakpointSessions == {{"continue", "continueSingle", "pause", "stepIn", "goto"}}

MCNoBreakpoints == {}
MCBreakpoints == {<<1, 1>>, <<2, 2>>}
=============================================================================
