---------------------------- MODULE FileTransfer -----------------------------
(***************************************************************************)
(* What a download from the flight controller promises its caller,         *)
(* whatever protocol carries it: the bytes it hands back are the first     *)
(* bytes of the file, in place and without a gap, at least as many as were *)
(* announced (or as the file has), and it hands them back once.            *)
(***************************************************************************)
EXTENDS Integers

CONSTANTS Len,      \* the length of the source file
          Content   \* its bytes, indexed from 0

VARIABLES got,      \* the bytes received so far, by index
          announced,\* the length the sender announced
          result    \* what the caller was given

ftVars == <<got, announced, result>>

Nothing == [i \in {} |-> 0]

Init ==
  /\ got = Nothing
  /\ announced \in Nat
  /\ result = [ok |-> FALSE, bytes |-> Nothing]

(* More of the source has been received.                                     *)
Learn ==
  /\ DOMAIN got \subseteq DOMAIN got'
  /\ DOMAIN got' \subseteq 0 .. Len - 1
  /\ got' = [i \in DOMAIN got' |-> Content[i]]

(* What was received is thrown away: the transfer starts over.               *)
Restart == got' = Nothing

(* The caller is given the first n bytes, all of them received.              *)
Deliver ==
  \E n \in 0 .. Len :
    /\ announced' <= n \/ n = Len
    /\ 0 .. n - 1 \subseteq DOMAIN got'
    /\ result' = [ok |-> TRUE, bytes |-> [i \in 0 .. n - 1 |-> got'[i]]]

(* The announcement comes before the first byte.                             *)
Next ==
  /\ ~result.ok
  /\ Learn \/ Restart
  /\ got = Nothing \/ announced' = announced
  /\ announced' \in Nat
  /\ Deliver \/ result' = result

Spec == Init /\ [][Next]_ftVars
=============================================================================
