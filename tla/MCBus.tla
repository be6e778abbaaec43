------------------------------- MODULE MCBus -------------------------------
(* Two words of RAM, one or two addresses of each device, and one of no device.     *)
EXTENDS Bus

MCInitialWord == [l \in Lane |-> 0]
MCRamAddresses == 0..7
MCDeviceAddresses == {\h1FC00000, \h1FD003F8, \h1E000010, \h1E000020, \h10000000, \h1FFFFFFF}
=============================================================================
