----------------------------- MODULE MCEventBus -----------------------------
(***************************************************************************)
(* Instances of EventBus for TLC.  Two classes share a name, as the same   *)
(* event defined in two modules does; the second is a subclass of the      *)
(* first, and its summary raises.                                          *)
(***************************************************************************)
EXTENDS EventBus, TLC

CONSTANTS A, B, AName, h1, h2

MCNameOf == [c \in Class |-> AName]
MCSupers == [c \in Class |-> IF c = B THEN {A, B} ELSE {c}]
MCUnsummarised == {B}
=============================================================================
