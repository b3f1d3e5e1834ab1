------------------------------ MODULE FtpUpload ------------------------------
(***************************************************************************)
(* MavlinkFtpClient.uploadFile (packages/vehicle-core/src/ftp/             *)
(* ftp-client.ts) together with the flight controller (FC) it writes to:   *)
(* reset the sessions, open the path for writing (OpenFileWO, then         *)
(* CreateFile), write the contents chunk by chunk, close the session.      *)
(*                                                                         *)
(* The link keeps the order of the packets it carries, in each direction,  *)
(* and may lose any of them; an answer may come after its request timed    *)
(* out.  The FC is not part of the repository: its actions are what the    *)
(* MAVLink FTP operations do to a file, as the client's comments describe  *)
(* them (OpenFileWO creates without truncating, CreateFile truncates).     *)
(***************************************************************************)
EXTENDS Integers, Sequences

CONSTANTS
  NumChunks,    \* chunks (239 bytes each) of the contents to upload
  OldChunks,    \* chunks of the file already at the path
  MaxRetries,   \* attempts at one request
  SeqMod,       \* the sequence number is counted modulo SeqMod (2^16)
  Window        \* packets the link holds in one direction

ASSUME UploadAssumption ==
  /\ NumChunks \in Nat /\ OldChunks \in Nat
  /\ MaxRetries \in Nat \ {0}
  /\ Window \in Nat \ {0}
  /\ SeqMod \in Nat /\ SeqMod > 2 * MaxRetries

VARIABLES
  pc,          \* the await at which uploadFile is suspended
  retry,       \* attempts of the current request already spent
  chunk,       \* chunks written so far (the local offset)
  seqNumber,   \* the client's last sequence number
  pendingSeq,  \* sequence number of the awaited request, or None
  verdict,     \* what uploadFile is about to return, or returned
  up, down,    \* the packets on their way to the FC, and from it
  fcOpen,      \* the FC has a session open for writing
  disk         \* the file on the FC: what each chunk of it holds

clientVars == <<pc, retry, chunk, seqNumber, pendingSeq, verdict>>
fcVars == <<fcOpen, disk>>
vars == <<pc, retry, chunk, seqNumber, pendingSeq, verdict, up, down, fcOpen, disk>>

None == -1
Places == 0 .. (IF NumChunks > OldChunks THEN NumChunks ELSE OldChunks) - 1
NoFile == [i \in Places |-> "none"]

-----------------------------------------------------------------------------
(* The request layer.                                                        *)

(* Mutant: the sequence number is not wrapped.                               *)
NextSeqUnwrapped(n) == n + 1

NextSeq(n) == (n + 1) % SeqMod

(* A full link drops its oldest packet.                                      *)
Carry(queue, packet) ==
  Append(IF Len(queue) < Window THEN queue ELSE Tail(queue), packet)

Send(op, at) ==
  /\ seqNumber' = NextSeq(seqNumber)
  /\ pendingSeq' = NextSeq(seqNumber)
  /\ up' = Carry(up, [seq |-> NextSeq(seqNumber), op |-> op, at |-> at])

(* Mutant: a reply is taken without looking at its sequence number.          *)
MatchesAnything(reply) == pendingSeq # None

Matches(reply) == pendingSeq # None /\ reply.seq = NextSeq(pendingSeq)

-----------------------------------------------------------------------------
(* The client.  Each step runs from one await to the next.                   *)

(* The requests of the three retry loops, by the pc that awaits them.        *)
Request(p) ==
  CASE p = "open"   -> "OpenFileWO"
    [] p = "create" -> "CreateFile"
    [] p = "write"  -> "WriteFile"

(* The first attempt of the loop p, at chunk c.                              *)
Attempt(p, c) ==
  /\ pc' = p
  /\ retry' = 0
  /\ chunk' = c
  /\ Send(Request(p), c)
  /\ UNCHANGED verdict

Close(res) ==
  /\ pc' = "terminate"
  /\ retry' = 0
  /\ verdict' = res
  /\ Send("TerminateSession", 0)
  /\ UNCHANGED chunk

Return(res) ==
  /\ pc' = "done"
  /\ retry' = 0
  /\ verdict' = res
  /\ pendingSeq' = None
  /\ UNCHANGED <<chunk, seqNumber, up>>

(* The chunk after the last one written, or the end of the upload.           *)
WriteNext(c) == IF c < NumChunks THEN Attempt("write", c) ELSE Close("ok")

(* Mutant: a chunk refused makes the client create the file anew.            *)
GiveUpStartsOver ==
  \/ pc = "open"   /\ Attempt("create", 0)
  \/ pc = "create" /\ Return("error")
  \/ pc = "write"  /\ Attempt("create", 0)

(* The loop at pc ends without an Ack: OpenFileWO falls back on CreateFile,  *)
(* without a file there is no upload, a chunk refused closes the session.    *)
GiveUp ==
  \/ pc = "open"   /\ Attempt("create", 0)
  \/ pc = "create" /\ Return("error")
  \/ pc = "write"  /\ Close("error")

LastTry == retry + 1 >= MaxRetries

(* Mutant: attempts are not counted.                                         *)
AgainUncounted(p) ==
  /\ pc' = p
  /\ Send(Request(p), chunk)
  /\ UNCHANGED <<retry, chunk, verdict>>

(* The next attempt of the loop p, if there is one left.                     *)
Again(p) ==
  /\ ~LastTry
  /\ pc' = p
  /\ retry' = retry + 1
  /\ Send(Request(p), chunk)
  /\ UNCHANGED <<chunk, verdict>>

Call ==
  /\ pc = "idle"
  /\ pc' = "reset"
  /\ Send("ResetSessions", 0)
  /\ UNCHANGED <<retry, chunk, verdict, down, fcOpen, disk>>

(* resetSessions() ignores its outcome.                                      *)
ResetDone == pc = "reset" /\ Attempt("open", 0)

Accepted(ans) ==
  /\ ans = "Ack"
  /\ \/ pc \in {"open", "create"} /\ WriteNext(0)
     \/ pc = "write" /\ WriteNext(chunk + 1)

(* Mutant: a chunk nobody acknowledged is taken for written.                 *)
TimedOutMovesOn(ans) ==
  /\ ans = "TimedOut"
  /\ \/ pc \in {"open", "create", "write"} /\ Again(pc)
     \/ LastTry /\ pc = "write" /\ WriteNext(chunk + 1)
     \/ LastTry /\ pc # "write" /\ GiveUp

TimedOut(ans) ==
  /\ ans = "TimedOut"
  /\ \/ pc \in {"open", "create", "write"} /\ Again(pc)
     \/ LastTry /\ GiveUp

(* Without a free session the client resets them and tries again.            *)
Refused(ans) ==
  \/ /\ ans = "NoSessionsAvailable"
     /\ pc \in {"open", "create"}
     /\ pc' = (IF pc = "open" THEN "reopen" ELSE "recreate")
     /\ Send("ResetSessions", 0)
     /\ UNCHANGED <<retry, chunk, verdict>>
  \/ ans = "NoSessionsAvailable" /\ pc = "write" /\ GiveUp
  \/ ans = "Fail" /\ GiveUp

ResetAgain ==
  \/ pc = "reopen" /\ Again("open")
  \/ pc = "recreate" /\ Again("create")
  \/ pc = "reopen" /\ LastTry /\ Attempt("create", 0)
  \/ pc = "recreate" /\ LastTry /\ Return("error")

(* terminateSession() ignores its outcome.                                   *)
Closed == pc = "terminate" /\ Return(verdict)

(* The awaited request resolves to ans.                                      *)
Resolved(ans) ==
  ResetDone \/ Accepted(ans) \/ TimedOut(ans) \/ Refused(ans) \/ ResetAgain \/ Closed

(* handleResponse: a reply that matches resolves the request, any other is   *)
(* dropped.                                                                  *)
Receive ==
  /\ down # <<>>
  /\ down' = Tail(down)
  /\ IF Matches(Head(down)) THEN Resolved(Head(down).ans)
     ELSE UNCHANGED <<clientVars, up>>
  /\ UNCHANGED fcVars

(* The timer fires, or the packet could not be sent.                         *)
Timeout ==
  /\ pendingSeq # None
  /\ Resolved("TimedOut")
  /\ UNCHANGED <<down, fcOpen, disk>>

-----------------------------------------------------------------------------
(* The FC and the link.                                                      *)

Written(at) ==
  [i \in Places |-> IF i = at THEN "new"
                    ELSE IF i < at /\ disk[i] = "none" THEN "zero" ELSE disk[i]]

(* What a request may do and be answered: <<answer, session open, file>>.    *)
Outcomes(req) ==
  LET refusals == {<<"Fail", fcOpen, disk>>, <<"NoSessionsAvailable", fcOpen, disk>>} IN
  CASE req.op = "OpenFileWO" -> refusals \cup {<<"Ack", TRUE, disk>>}
    [] req.op = "CreateFile" -> refusals \cup {<<"Ack", TRUE, NoFile>>}
    [] req.op = "WriteFile"  ->
         {<<"Fail", fcOpen, disk>>}
           \cup (IF fcOpen THEN {<<"Ack", TRUE, Written(req.at)>>} ELSE {})
    [] OTHER -> {<<"Ack", FALSE, disk>>, <<"Fail", fcOpen, disk>>}

Serve ==
  /\ up # <<>>
  /\ up' = Tail(up)
  /\ \E o \in Outcomes(Head(up)) :
       /\ fcOpen' = o[2]
       /\ disk' = o[3]
       /\ down' = Carry(down, [seq |-> NextSeq(Head(up).seq), ans |-> o[1]])
  /\ UNCHANGED clientVars

LoseRequest == up # <<>> /\ up' = Tail(up) /\ UNCHANGED <<clientVars, down, fcVars>>

LoseReply == down # <<>> /\ down' = Tail(down) /\ UNCHANGED <<clientVars, up, fcVars>>

(* The FC restarts: its session is gone, its file is not.                    *)
Reboot == fcOpen /\ fcOpen' = FALSE /\ UNCHANGED <<clientVars, up, down, disk>>

-----------------------------------------------------------------------------
Init ==
  /\ pc = "idle" /\ retry = 0 /\ chunk = 0
  /\ seqNumber = 0 /\ pendingSeq = None /\ verdict = "none"
  /\ up = <<>> /\ down = <<>>
  /\ fcOpen \in BOOLEAN
  /\ disk = [i \in Places |-> IF i < OldChunks THEN "old" ELSE "none"]

Finished == pc = "done" /\ UNCHANGED vars

Next ==
  \/ Call \/ Receive \/ Timeout \/ Finished
  \/ Serve \/ LoseRequest \/ LoseReply \/ Reboot

(* The timers of the client always fire.                                     *)
Spec == Init /\ [][Next]_vars /\ WF_vars(Call) /\ WF_vars(Timeout)

-----------------------------------------------------------------------------
Seqs == 0 .. SeqMod - 1

(* The state has the types the code gives it, the sequence number 16 bits.   *)
TypeOK ==
  /\ pc \in {"idle", "reset", "open", "reopen", "create", "recreate", "write",
             "terminate", "done"}
  /\ retry \in 0 .. MaxRetries - 1
  /\ chunk \in 0 .. NumChunks
  /\ seqNumber \in Seqs /\ pendingSeq \in Seqs \cup {None}
  /\ verdict \in {"none", "ok", "error"}
  /\ Len(up) <= Window /\ Len(down) <= Window
  /\ disk \in [Places -> {"none", "zero", "old", "new"}]

(* An upload reported as a success has put every chunk of the contents in    *)
(* its place on the FC, and it stays there, whatever requests and replies    *)
(* were lost or late and whenever the FC restarted (uploadFile, ok: true).   *)
UploadFaithful ==
  verdict = "ok" => \A i \in 0 .. NumChunks - 1 : disk[i] = "new"

(* An upload reported as a success has replaced the file: nothing of an      *)
(* older, longer file is left behind the contents.                           *)
UploadReplaces ==
  verdict = "ok" => \A i \in Places : i >= NumChunks => disk[i] = "none"

(* Chunks are written in order: no chunk is on the FC while one before it is *)
(* missing, so a failed upload leaves a prefix of the contents there.        *)
WrittenInOrder ==
  \A i, j \in Places : disk[j] = "new" /\ i < j => disk[i] = "new"

(* Every upload returns.                                                     *)
Returns == <>(pc = "done")

(* uploadFile implements the abstract store: it never empties a file it has  *)
(* begun to write, leaves no gap, reports once, and nothing late undoes a    *)
(* success.                                                                  *)
Store == INSTANCE FileStore WITH
  Size <- NumChunks, OldSize <- OldChunks, file <- disk, told <- verdict

Implements == Store!Spec
=============================================================================
