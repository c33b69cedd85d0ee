------------------------------- MODULE MCPorts -------------------------------
(* Devices for TLC: an identifier that comes back, with another speed too, a   *)
(* second device for the same port, and one whose speed is not known.          *)
EXTENDS Ports

MCDevices ==
    {[id |-> 1, speed |-> "usb2"], [id |-> 1, speed |-> "usb3"],
     [id |-> 2, speed |-> "usb2"], [id |-> 2, speed |-> "unknown"]}

=============================================================================
