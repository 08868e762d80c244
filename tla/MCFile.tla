------------------------------ MODULE MCFile ------------------------------
(* Small instance of File for TLC; its constants are in the configuration.  *)
EXTENDS File
===========================================================================
