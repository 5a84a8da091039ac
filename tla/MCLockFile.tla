------------------------------ MODULE MCLockFile ------------------------------
(* LockFile with three calls, two files and a deadline one tick longer than *)
(* the longest work.                                                        *)
EXTENDS LockFile
===============================================================================
