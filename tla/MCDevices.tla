------------------------------- MODULE MCDevices -------------------------------
(***************************************************************************)
(* An instance of Devices for TLC: one user with a limit of one device,    *)
(* and two tunnels of the same device.                                     *)
(***************************************************************************)
EXTENDS Devices

CONSTANTS u1, ip1, t1, t2

MCUserOf == [t \in Tunnels |-> u1]
MCIpOf == [t \in Tunnels |-> ip1]
MCDeviceLimit == [u \in Users |-> 1]
===============================================================================
