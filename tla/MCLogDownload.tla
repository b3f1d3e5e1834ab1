---------------------------- MODULE MCLogDownload ----------------------------
(* Small instances of LogDownload for TLC: a log longer than two bursts, and  *)
(* a shorter one that ends before its listed size.                           *)
EXTENDS LogDownload

MCSize   == [l \in Logs |-> IF l = 1 THEN 5 ELSE 2]
MCStored == [l \in Logs |-> IF l = 1 THEN 5 ELSE 1]
=============================================================================
