---------------------------- MODULE MCWindowFocus ----------------------------
\* An application that follows the pointer, its dialog, which is clicked and
\* wants to set the focus itself, and a window that does not part with it.
EXTENDS WindowFocus, TLC

CONSTANTS main, dialog, tool

MCStyleOf ==
  main :> {"enter", "leave", "function", "program", "grab", "release"}
  @@ dialog :> {"click", "function", "by open", "grab transient", "release transient",
                "takes focus", "no input", "lenient"}
  @@ tool :> {"click", "override grab", "override release", "release", "no input"}
MCParentOf == main :> None @@ dialog :> main @@ tool :> None
==============================================================================
