--------------------------- MODULE MCDiskMonitor ---------------------------
(***************************************************************************)
(* A small instance of DiskMonitor: iostat missing, a busy disk and a disk *)
(* that only reads, so that the rates of two runs differ and one is zero.  *)
(***************************************************************************)
EXTENDS DiskMonitor

MCOutputs ==
  {NotInstalled,
   IostatOutput(<<Row("sda", 7, 7)>>, <<Row("sda", 1, 2)>>, 1),
   IostatOutput(<<Row("sda", 7, 7)>>, <<Row("sda", 3, 0)>>, 1)}

MCLeftovers == {"garbage", "Device"}
=============================================================================
