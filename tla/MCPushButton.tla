---------------------------- MODULE MCPushButton ----------------------------
(* PushButton on a timer that wraps after five ticks, with delays that    *)
(* differ and that cross the wrap from some starting points.               *)
EXTENDS PushButton

MCCallback == {Button, Display}
MCHandler  == {"handler"}
MCCall     == {"call"}
MCAnywhere == {"handler", "call"}
=============================================================================
