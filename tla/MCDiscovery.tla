---------------------------- MODULE MCDiscovery ----------------------------
(***************************************************************************)
(* A supported wheel, a Logitech joystick and a Logitech keyboard, each at *)
(* any moment plugged in or out.                                           *)
(***************************************************************************)
EXTENDS Discovery

G29      == Device(1, 1133, 49743, 1, 4)
Joystick == Device(2, 1133, 49685, 1, 4)
Keyboard == Device(3, 1133, 49948, 1, 6)

MCAttachable == {G29, Joystick, Keyboard}
=============================================================================
