----------------------------- MODULE DumpLogMC -----------------------------
(***************************************************************************)
(* DumpLog with the dump of the Logger task and the upload of the FTP task *)
(* in a log of two sectors.                                                *)
(***************************************************************************)
EXTENDS DumpLog
=============================================================================
