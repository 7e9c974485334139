------------------------------ MODULE MCSeason ------------------------------
(* Small instances of Season: a read of a few bytes instead of 512, and a  *)
(* box that sends and resets a bounded number of times.                    *)
EXTENDS Season
=============================================================================
