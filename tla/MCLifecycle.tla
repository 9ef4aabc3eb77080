---------------------------- MODULE MCLifecycle ----------------------------
(* Lifecycle with one and with two CAN interfaces, for TLC.                *)
EXTENDS Lifecycle

OneInterface == <<"can0">>
TwoInterfaces == <<"can0", "can1">>

=============================================================================
