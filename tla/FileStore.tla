------------------------------ MODULE FileStore ------------------------------
(***************************************************************************)
(* What an upload to the flight controller promises its caller, whatever   *)
(* protocol carries it: the file is emptied only while nothing of the      *)
(* contents is in it, is then filled from the start, one chunk after the   *)
(* other, and the caller is told once; after a success nothing changes.    *)
(***************************************************************************)
EXTENDS Integers

CONSTANTS Size,     \* the number of chunks of the contents
          OldSize   \* the number of chunks of the file that is there

VARIABLES file,     \* what each chunk of the file holds
          told      \* what the caller was told

fsVars == <<file, told>>

Chunks == 0 .. (IF Size > OldSize THEN Size ELSE OldSize) - 1
Empty == [c \in Chunks |-> "none"]

Init ==
  /\ file = [c \in Chunks |-> IF c < OldSize THEN "old" ELSE "none"]
  /\ told = "none"

(* The file is emptied.                                                      *)
Truncate ==
  /\ \A c \in Chunks : file[c] # "new"
  /\ file' = Empty

(* The first chunk that is missing is written.                               *)
Extend ==
  \E n \in 0 .. Size - 1 :
    /\ \A c \in 0 .. n - 1 : file[c] = "new"
    /\ file' = [file EXCEPT ![n] = "new"]

Change == told # "ok" /\ (Truncate \/ Extend) /\ UNCHANGED told

(* The caller is told how the upload ended; of a success only if all is      *)
(* written.  After a failure a late request may still change the file.       *)
Tell ==
  /\ told = "none"
  /\ told' \in {"ok", "error"}
  /\ told' = "ok" => \A c \in 0 .. Size - 1 : file[c] = "new"
  /\ UNCHANGED file

Next == Change \/ Tell

Spec == Init /\ [][Next]_fsVars
=============================================================================
