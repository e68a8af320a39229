--------------------------------- MODULE MCI2C ---------------------------------
(* Bytes of three bits: four addresses and the read/write bit.  The device *)
(* has address 2; with ScanMin = 1 the scan goes through 2 and 3.          *)
EXTENDS I2CMode
=============================================================================
