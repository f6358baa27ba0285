--------------------------- MODULE MCHostDevices ---------------------------
(* Small instances of HostDevices; a and b are configs.                    *)
EXTENDS HostDevices
CONSTANTS a, b
=============================================================================
