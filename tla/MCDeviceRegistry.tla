-------------------------- MODULE MCDeviceRegistry --------------------------
(* Small instances of the device registry for TLC. *)
EXTENDS DeviceRegistry, TLC

ThreadSymmetry == Permutations(Threads)
=============================================================================
