---------------------------- MODULE MCFtpDownload ----------------------------
(* A small instance of FtpDownload for TLC: distinct nonzero bytes, so that   *)
(* a byte in the wrong place or never filled shows.                          *)
EXTENDS FtpDownload

MCFile == [i \in 0 .. FileLen - 1 |-> i + 1]
=============================================================================
