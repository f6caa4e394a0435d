--------------------------- MODULE MCKitchenSink ----------------------------
(***************************************************************************)
(* Small instance of KitchenSink: one message that asks for more copies    *)
(* than the window holds, one that asks for a negative number, one without *)
(* numbers that also misses a required field.                              *)
(***************************************************************************)
EXTENDS KitchenSink, TLC

CONSTANTS a, b, c

MCMessages == {a, b, c}
MCUnset == {c}
MCNeeded == (a :> 2) @@ (b :> -1) @@ (c :> Nil)
MCKeys == {"-t", "x-t"}
=============================================================================
