-------------------------- MODULE MCDeviceControl ---------------------------
(* K1 and K3, whose bits are swapped, the encoder turned right, and commands *)
(* of both protocol versions, one of them damaged.                           *)
EXTENDS DeviceControl

Packet(version, type, checksum) ==
  [count |-> 32, magic |-> "CP", version |-> version, type |-> type, checksum |-> checksum]

mcKeys     == {0, 2}
mcTurns    == {8}
mcCommands == {Packet(1, "STATUS", "right"), Packet(2, "RELEASE_ALL", "right"),
               Packet(2, "RELEASE_ALL", "wrong")}
=============================================================================
