---------------------------- MODULE MCToolCalls ----------------------------
EXTENDS ToolCalls, TLC

CONSTANTS c1, c2

\* Every tool, against one that uses the mouse and one that destroys the instance.
MCMenu ==
  c1 :> DOMAIN Tools @@
  c2 :> {"browser_mouse_up", "browser_destroy_instance"}
=============================================================================
