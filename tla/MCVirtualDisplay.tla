-------------------------- MODULE MCVirtualDisplay --------------------------
(* The instance of VirtualDisplay that TLC checks: a display much higher    *)
(* than wide, shown at a size whose proportions had to be rounded.          *)
EXTENDS VirtualDisplay

MCReal == [width |-> 24, height |-> 80]
MCDesired == {[width |-> 20, height |-> 66]}

=============================================================================
