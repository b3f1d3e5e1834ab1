----------------------------- MODULE FtpDownload -----------------------------
(***************************************************************************)
(* MavlinkFtpClient.downloadFile (packages/vehicle-core/src/ftp/           *)
(* ftp-client.ts): one download of one file from a flight controller (FC)  *)
(* over a link that loses, duplicates, delays and reorders packets.        *)
(*                                                                         *)
(* The client resets the FC's sessions, opens the file, sweeps it with     *)
(* BurstReadFile, patches the holes the bursts left with ReadFile, falls   *)
(* back to plain sequential ReadFile when that does not work, and closes   *)
(* the session.  Every step is taken when the request it awaits is         *)
(* answered, times out or could not be sent.                               *)
(*                                                                         *)
(* The FC is not part of the repository.  It is modelled by the replies it *)
(* may give to each request (operator Replies); a request stays on the     *)
(* link, answerable any number of times or never, until Window younger     *)
(* requests have been sent.                                                *)
(***************************************************************************)
EXTENDS Integers, FiniteSets

CONSTANTS
  FileLen,      \* length of the file on the FC
  File,         \* its bytes, indexed from 0
  SizeHints,    \* sizes OpenFileRO may report (an estimate for @PARAM files)
  ReadSize,     \* bytes asked for by one read
  MaxOverrun,   \* how far a download may grow past the reported size
  MaxRetries,   \* attempts at one request
  SeqMod,       \* the sequence number is counted modulo SeqMod (2^16)
  Window        \* a reply is overtaken by fewer than Window requests

ASSUME FileAssumption ==
  /\ FileLen \in Nat
  /\ File \in [0 .. FileLen - 1 -> 0 .. 255]

ASSUME ParameterAssumption ==
  /\ SizeHints \subseteq Nat
  /\ ReadSize \in Nat \ {0}
  /\ MaxOverrun \in Nat
  /\ MaxRetries \in Nat \ {0}
  /\ Window \in Nat \ {0}
  /\ SeqMod \in Nat \ {0}
  /\ Window <= SeqMod

VARIABLES
  pc,          \* the await at which downloadFile is suspended
  link,        \* the requests that may still be answered
  seqNumber,   \* the client's last sequence number
  pendingSeq,  \* sequence number of the awaited request, or None
  retry,       \* attempts of the current request already spent
  declared,    \* the size OpenFileRO reported
  buf,         \* the DownloadBuffer being filled
  sweep,       \* the locals of burstDownload's burst loop, and the BurstState
  patch,       \* the locals of burstDownload's gap loop
  offset,      \* the local of sequentialDownload
  result       \* what downloadFile returns: NoFile, or the bytes by index

requestVars == <<link, seqNumber, pendingSeq>>
vars == <<pc, link, seqNumber, pendingSeq, retry, declared, buf, sweep,
          patch, offset, result>>

None   == -1                        \* null, for a number
NoBytes == [i \in {} |-> 0]
NoFile == [ok |-> FALSE, bytes |-> NoBytes]

MinOf(a, b) == IF a <= b THEN a ELSE b
MaxOf(a, b) == IF a >= b THEN a ELSE b

-----------------------------------------------------------------------------
(* DownloadBuffer and its Coverage.  A buffer is a record: "data" maps each  *)
(* byte index received so far to its value (mask and data array in one),     *)
(* "size" is mask.size, "eof" the revealed end, "limit" and "over" the       *)
(* overrun guard.                                                            *)

NewBuffer(hint) ==
  [data |-> NoBytes, size |-> hint, eof |-> None,
   limit |-> hint + MaxOverrun, over |-> FALSE]

Held(b) == DOMAIN b.data

Size(b) == IF b.eof # None THEN b.eof ELSE b.size

Missing(b) == (0 .. Size(b) - 1) \ Held(b)

Complete(b) == b.eof # None /\ Missing(b) = {}

MarkEof(b, at) == [b EXCEPT !.eof = IF @ = None THEN at ELSE MinOf(@, at)]

(* store(offset, bytes), the bytes being the len bytes of the file that      *)
(* start at src.  A byte already held is left alone.                         *)
StoreEnd(b, off, len) == IF b.eof = None THEN off + len ELSE MinOf(off + len, b.eof)

Gained(b, off, len) ==
  (off .. MinOf(StoreEnd(b, off, len), b.limit) - 1) \ Held(b)

Store(b, off, src, len) ==
  LET end   == MinOf(StoreEnd(b, off, len), b.limit)
      fresh == Gained(b, off, len)
  IN  [b EXCEPT !.data = [i \in Held(b) \cup fresh |->
                            IF i \in fresh THEN File[src + (i - off)] ELSE b.data[i]],
                !.size = MaxOf(@, end),
                !.over = @ \/ StoreEnd(b, off, len) > b.limit]

(* firstHoleFrom(from, size), None when there is no hole.                    *)
FirstHoleFrom(b, from) ==
  LET holes == {i \in Missing(b) : from <= i}
  IN  IF holes = {} THEN None ELSE CHOOSE i \in holes : \A j \in holes : i <= j

(* holeRanges(size): the maximal runs of missing bytes, as <<start, end>>.   *)
HoleRanges(b) ==
  {r \in Missing(b) \X (1 .. Size(b)) :
     /\ r[1] < r[2]
     /\ r[1] .. r[2] - 1 \subseteq Missing(b)
     /\ r[1] - 1 \notin Missing(b)
     /\ r[2] \notin Missing(b)}

(* result(): the first Size(b) bytes of the array, zero where never filled.  *)
Result(b) ==
  [ok |-> TRUE,
   bytes |-> [i \in 0 .. Size(b) - 1 |-> IF i \in Held(b) THEN b.data[i] ELSE 0]]

-----------------------------------------------------------------------------
(* The FC.  A reply repeats the sequence number of its request plus one;     *)
(* for file data, src and len say which bytes of the file it carries.        *)
(*                                                                           *)
(* A short packet may appear anywhere below the reported size, but at or     *)
(* past it, or on the packet that closes a burst, only the end of the file   *)
(* makes a packet short: the rule the client was written for.                *)

Ack(op, src, len, last, size) ==
  [op |-> op, ack |-> TRUE, err |-> "None", src |-> src, len |-> len,
   last |-> last, size |-> size]

Nak(op, err) ==
  [op |-> op, ack |-> FALSE, err |-> err, src |-> 0, len |-> 0,
   last |-> FALSE, size |-> 0]

ChunkLens(from, last) ==
  {len \in 1 .. ReadSize :
     /\ from + len <= FileLen
     /\ \/ len = ReadSize
        \/ from + len = FileLen
        \/ ~last /\ from + len < declared}

OpenReplies ==
  {Ack("Open", 0, 0, FALSE, hint) : hint \in SizeHints}
    \cup {Nak("Open", err) : err \in {"FileNotFound", "NoSessionsAvailable", "Fail"}}

ReadReplies(from) ==
  {Ack("Read", from, len, FALSE, 0) : len \in ChunkLens(from, FALSE)}
    \cup {Nak("Read", "Fail")}
    \cup (IF from >= FileLen THEN {Nak("Read", "EOF")} ELSE {})

(* A burst may also hold packets with no bytes at all, up to the file's end. *)
BurstReplies(from) ==
  {Nak("Burst", err) : err \in {"EOF", "UnknownCommand", "Fail"}}
    \cup UNION {{Ack("Burst", src, len, last, 0) : len \in {0} \cup ChunkLens(src, last)} :
                  src \in from .. FileLen, last \in BOOLEAN}

Replies(r) ==
  CASE r.op = "Open"  -> OpenReplies
    [] r.op = "Read"  -> ReadReplies(r.offset)
    [] r.op = "Burst" -> BurstReplies(r.offset)
    [] OTHER          -> {Ack(r.op, 0, 0, FALSE, 0), Nak(r.op, "Fail")}

-----------------------------------------------------------------------------
(* The request layer: buildPayload, sendRequest and handleResponse.          *)

(* Mutant: the sequence number is not wrapped.                               *)
NextSeqUnwrapped(n) == n + 1

NextSeq(n) == (n + 1) % SeqMod

Aged == {[r EXCEPT !.age = @ + 1] : r \in {q \in link : q.age + 1 < Window}}

Transmit(op, off) ==
  /\ seqNumber' = NextSeq(seqNumber)
  /\ link' = Aged \cup {[seq |-> NextSeq(seqNumber), op |-> op, offset |-> off, age |-> 0]}

SendRequest(op, off) == Transmit(op, off) /\ pendingSeq' = NextSeq(seqNumber)

(* runBurst sends with no pending request: its replies match no seq.         *)
SendBurst(off) == Transmit("Burst", off) /\ pendingSeq' = None

(* Mutant: a reply is taken without looking at its sequence number.          *)
MatchesAnything(r) == pendingSeq # None

Matches(r) == pendingSeq # None /\ NextSeq(r.seq) = NextSeq(pendingSeq)

NoReply == Nak("None", "TimedOut")

(* What the awaited request can resolve to: a reply whose sequence number    *)
(* matches, or null when its timer fires or its packet could not be sent.    *)
Answers ==
  {NoReply} \cup UNION {Replies(r) : r \in {q \in link : Matches(q)}}

-----------------------------------------------------------------------------
(* Continuations: the code that runs from one await to the next.  Each says  *)
(* where downloadFile suspends, with which request outstanding; b is the     *)
(* buffer at that point.  A phase's locals are reset when it is left.        *)

NoSweep == [cursor |-> 0, start |-> 0, reached |-> 0, gained |-> FALSE,
            any |-> FALSE, barren |-> 0, heard |-> FALSE]
NoPatch == [todo |-> {}, probing |-> FALSE, progressed |-> FALSE]

(* terminateSession() before returning res.                                  *)
Terminate(b, res) ==
  /\ pc' = "terminate"
  /\ SendRequest("Terminate", 0)
  /\ retry' = 0 /\ buf' = b /\ sweep' = NoSweep /\ patch' = NoPatch /\ offset' = 0
  /\ result' = res

(* readFileChunk(off, readSize) of sequentialDownload.                       *)
ReadNext(b, off) ==
  /\ pc' = "read"
  /\ SendRequest("Read", off)
  /\ retry' = 0 /\ buf' = b /\ sweep' = NoSweep /\ patch' = NoPatch /\ offset' = off
  /\ UNCHANGED result

(* burstDownload returned null: sequentialDownload starts over.              *)
Sequential == ReadNext(NewBuffer(declared), 0)

Current(todo) == CHOOSE r \in todo : \A q \in todo : r[1] <= q[1]

(* Reads the start of the first range left in the round p.                   *)
ReadHole(b, p) ==
  /\ pc' = "patch"
  /\ SendRequest("Read", Current(p.todo)[1])
  /\ retry' = 0 /\ buf' = b /\ sweep' = NoSweep /\ patch' = p /\ offset' = 0
  /\ UNCHANGED result

(* The head of the gap loop: done, or one more round over the holes, or over *)
(* one read past the reported size when nothing is missing and no end seen.  *)
PatchRound(b) ==
  LET holes == HoleRanges(b)
      probe == {<<Size(b), Size(b) + ReadSize>>}
  IN  IF b.over THEN Sequential
      ELSE IF Complete(b) THEN Terminate(b, Result(b))
      ELSE ReadHole(b, [todo       |-> IF holes = {} THEN probe ELSE holes,
                        probing    |-> holes = {},
                        progressed |-> FALSE])

(* Mutant: rounds go on although the last one learned nothing.               *)
PatchNextStubborn(b, p) ==
  IF p.todo # {} THEN ReadHole(b, p) ELSE PatchRound(b)

(* After a read of the gap loop: the round's next range, or its end.         *)
PatchNext(b, p) ==
  IF p.todo # {} THEN ReadHole(b, p)
  ELSE IF p.progressed THEN PatchRound(b)
  ELSE IF Complete(b) THEN Terminate(b, Result(b))
  ELSE Sequential

(* runBurst from the first hole at or past the cursor, while there is one    *)
(* and two bursts in a row have not come back empty.                         *)
SweepNext(b, s) ==
  LET start == FirstHoleFrom(b, s.cursor) IN
  IF s.cursor < Size(b) /\ s.barren < 2 /\ start # None
  THEN /\ pc' = "burst"
       /\ SendBurst(start)
       /\ retry' = 0 /\ buf' = b /\ patch' = NoPatch /\ offset' = 0
       /\ sweep' = [s EXCEPT !.start = start, !.reached = start, !.gained = FALSE,
                             !.heard = FALSE]
       /\ UNCHANGED result
  ELSE PatchRound(b)

(* Mutant: the cursor stays where an empty burst started.                    *)
FinishBurstInPlace(b, s, reason) ==
  LET any == s.any \/ s.gained IN
  IF reason = "unsupported" /\ ~any THEN Sequential
  ELSE IF reason = "eof" THEN PatchRound(b)
  ELSE SweepNext(b, [s EXCEPT !.any = any,
                              !.barren = IF s.gained THEN 0 ELSE @ + 1,
                              !.cursor = s.reached])

(* burst.finish(reason) and the rest of the loop body.                       *)
FinishBurst(b, s, reason) ==
  LET any == s.any \/ s.gained IN
  IF reason = "unsupported" /\ ~any THEN Sequential
  ELSE IF reason = "eof" THEN PatchRound(b)
  ELSE SweepNext(b, [s EXCEPT !.any = any,
                              !.barren = IF s.gained THEN 0 ELSE @ + 1,
                              !.cursor = MaxOf(s.reached, s.start + 1)])

(* The same request again.                                                   *)
Resend(op, off) ==
  /\ SendRequest(op, off)
  /\ retry' = retry + 1
  /\ UNCHANGED <<pc, declared, buf, sweep, patch, offset, result>>

(* downloadFile returned.                                                    *)
Return(res) ==
  /\ pc' = "done"
  /\ pendingSeq' = None
  /\ result' = res
  /\ UNCHANGED <<link, seqNumber, retry, declared, buf, sweep, patch, offset>>

-----------------------------------------------------------------------------
(* The steps of downloadFile.                                                *)

Init ==
  /\ pc = "idle"
  /\ link = {} /\ seqNumber = 0 /\ pendingSeq = None
  /\ retry = 0 /\ declared = 0 /\ buf = NewBuffer(0)
  /\ sweep = NoSweep /\ patch = NoPatch /\ offset = 0
  /\ result = NoFile

(* downloadFile is called: resetSessions().                                  *)
Begin ==
  /\ pc = "idle"
  /\ pc' = "reset"
  /\ SendRequest("Reset", 0)
  /\ UNCHANGED <<retry, declared, buf, sweep, patch, offset, result>>

(* resetSessions() ignores its outcome; openFileRO follows.                  *)
ResetDone(ans) ==
  /\ pc = "reset"
  /\ pc' = "open"
  /\ SendRequest("Open", 0)
  /\ UNCHANGED <<retry, declared, buf, sweep, patch, offset, result>>

LastTry == retry + 1 >= MaxRetries

OpenAccepted(ans) ==
  /\ pc = "open"
  /\ ans.ack
  /\ declared' = ans.size
  /\ LET b == NewBuffer(ans.size) IN
     IF ans.size = 0 THEN Terminate(b, Result(b)) ELSE SweepNext(b, NoSweep)

(* FileNotFound, UnknownCommand or the last attempt failing: null.  Without  *)
(* a free session the client resets them first (pc "reopen").                *)
OpenRefused(ans) ==
  /\ pc = "open"
  /\ ~ans.ack
  /\ \/ /\ ans.err = "FileNotFound"
        /\ Return(NoFile)
     \/ /\ ans.err = "NoSessionsAvailable"
        /\ pc' = "reopen"
        /\ SendRequest("Reset", 0)
        /\ UNCHANGED <<retry, declared, buf, sweep, patch, offset, result>>
     \/ /\ ans.err \in {"TimedOut", "Fail"}
        /\ IF LastTry THEN Return(NoFile) ELSE Resend("Open", 0)

Reopen(ans) ==
  /\ pc = "reopen"
  /\ IF LastTry THEN Return(NoFile)
     ELSE /\ pc' = "open"
          /\ SendRequest("Open", 0)
          /\ retry' = retry + 1
          /\ UNCHANGED <<declared, buf, sweep, patch, offset, result>>

(* Mutant: any short packet ends the file.                                   *)
BurstStoredShort(b, rep) ==
  LET marked == IF rep.len < ReadSize THEN MarkEof(b, rep.src + rep.len) ELSE b
  IN  [fresh |-> Gained(marked, rep.src, rep.len) # {},
       buf   |-> Store(marked, rep.src, rep.src, rep.len)]

(* handleBurstPacket for an Ack: keep the bytes, note the end of the file.   *)
BurstStored(b, rep) ==
  LET end    == rep.src + rep.len
      short  == 0 < rep.len /\ rep.len < ReadSize
      marked == IF short /\ (rep.last \/ end >= declared) THEN MarkEof(b, end) ELSE b
  IN  [fresh |-> Gained(marked, rep.src, rep.len) # {},
       buf   |-> Store(marked, rep.src, rep.src, rep.len)]

(* Unless it closes the burst the packet re-arms the idle timer: "heard".    *)
BurstData(rep) ==
  LET stored == BurstStored(buf, rep)
      s == [sweep EXCEPT !.gained  = @ \/ stored.fresh,
                         !.reached = MaxOf(@, rep.src + rep.len),
                         !.heard   = TRUE]
  IN  /\ pc = "burst"
      /\ rep.op = "Burst" /\ rep.ack
      /\ IF rep.last THEN FinishBurst(stored.buf, s, "complete")
         ELSE /\ buf' = stored.buf
              /\ sweep' = s
              /\ UNCHANGED <<pc, link, seqNumber, pendingSeq, retry, patch, offset, result>>
      /\ UNCHANGED declared

BurstRefused(rep) ==
  /\ pc = "burst"
  /\ rep.op = "Burst" /\ ~rep.ack
  /\ FinishBurst(buf, sweep,
       CASE rep.err = "EOF" -> "eof"
         [] rep.err = "UnknownCommand" /\ ~sweep.gained -> "unsupported"
         [] OTHER -> "nak")
  /\ UNCHANGED declared

(* Time passes: the timer armed by the last packet runs on undisturbed.      *)
BurstQuiet ==
  /\ pc = "burst"
  /\ sweep.heard
  /\ sweep' = [sweep EXCEPT !.heard = FALSE]
  /\ UNCHANGED <<pc, link, seqNumber, pendingSeq, retry, declared, buf, patch, offset,
                 result>>

(* No packet for idleMs: the timer fires.                                    *)
BurstIdle ==
  /\ pc = "burst"
  /\ ~sweep.heard
  /\ FinishBurst(buf, sweep, IF sweep.gained THEN "idle" ELSE "unsupported")
  /\ UNCHANGED declared

(* The burst request could not be sent.                                      *)
BurstUnsent ==
  /\ pc = "burst"
  /\ FinishBurst(buf, sweep, "idle")
  /\ UNCHANGED declared

(* A read that resolved to bytes: an Ack, or an EOF Nak, which counts as an  *)
(* empty chunk.                                                              *)
IsChunk(ans) == ans.ack \/ ans.err = "EOF"

(* A chunk for the gap loop.  An EOF ends the file anywhere, a short read    *)
(* only at or past the declared size.                                        *)
PatchChunk(ans) ==
  LET hole   == Current(patch.todo)
      off    == hole[1]
      end    == off + ans.len
      last   == ans.len < ReadSize /\ (ans.len = 0 \/ end >= declared)
      marked == IF last THEN MarkEof(buf, end) ELSE buf
      rest   == IF ~last /\ off + ReadSize < hole[2]
                THEN {<<off + ReadSize, hole[2]>>} ELSE {}
  IN  /\ pc = "patch"
      /\ IsChunk(ans)
      /\ PatchNext(Store(marked, off, ans.src, ans.len),
           [patch EXCEPT !.todo = (@ \ {hole}) \cup rest,
                         !.progressed = @ \/ Gained(marked, off, ans.len) # {}
                                          \/ marked.eof # buf.eof])
      /\ UNCHANGED declared

(* Mutant: a hole that cannot be read is taken for the end of the file.      *)
PatchFailedAsEof(ans) ==
  LET hole == Current(patch.todo) IN
  /\ pc = "patch"
  /\ ~IsChunk(ans)
  /\ IF ~LastTry THEN Resend("Read", hole[1])
     ELSE /\ PatchNext(MarkEof(buf, hole[1]),
               [patch EXCEPT !.todo = @ \ {hole}, !.progressed = TRUE])
          /\ UNCHANGED declared

(* No chunk after MaxRetries attempts: the rest of the hole is left to the   *)
(* next round, and a probe past the reported size takes that size as true.   *)
PatchFailed(ans) ==
  LET hole == Current(patch.todo) IN
  /\ pc = "patch"
  /\ ~IsChunk(ans)
  /\ IF ~LastTry THEN Resend("Read", hole[1])
     ELSE /\ PatchNext(IF patch.probing THEN MarkEof(buf, hole[1]) ELSE buf,
               [patch EXCEPT !.todo = @ \ {hole}, !.progressed = @ \/ patch.probing])
          /\ UNCHANGED declared

ReadChunk(ans) ==
  LET end    == offset + ans.len
      stored == Store(buf, offset, ans.src, ans.len)
      whole  == MarkEof(stored, end)
  IN  /\ pc = "read"
      /\ IsChunk(ans)
      /\ IF ans.len = 0 THEN Terminate(MarkEof(buf, offset), Result(MarkEof(buf, offset)))
         ELSE IF stored.over THEN Terminate(stored, NoFile)
         ELSE IF ans.len < ReadSize /\ end >= declared THEN Terminate(whole, Result(whole))
         ELSE ReadNext(stored, end)
      /\ UNCHANGED declared

(* A failed read ends the download, except that past the reported size the   *)
(* bytes so far are taken for the file.                                      *)
ReadFailed(ans) ==
  LET whole == MarkEof(buf, offset) IN
  /\ pc = "read"
  /\ ~IsChunk(ans)
  /\ IF ~LastTry THEN Resend("Read", offset)
     ELSE /\ IF offset >= declared THEN Terminate(whole, Result(whole))
             ELSE Terminate(buf, NoFile)
          /\ UNCHANGED declared

(* terminateSession() ignores its outcome.                                   *)
TerminateDone(ans) ==
  /\ pc = "terminate"
  /\ Return(result)

Answered(ans) ==
  \/ ResetDone(ans) \/ OpenAccepted(ans) \/ OpenRefused(ans) \/ Reopen(ans)
  \/ PatchChunk(ans) \/ PatchFailed(ans)
  \/ ReadChunk(ans) \/ ReadFailed(ans)
  \/ TerminateDone(ans)

BurstReplied(rep) == BurstData(rep) \/ BurstRefused(rep)

Resolved == \E ans \in Answers : Answered(ans)

BurstPacket ==
  \E r \in {q \in link : q.op = "Burst"} : \E rep \in Replies(r) : BurstReplied(rep)

Finished == pc = "done" /\ UNCHANGED vars

Next ==
  \/ Begin \/ Resolved \/ BurstPacket
  \/ BurstQuiet \/ BurstIdle \/ BurstUnsent
  \/ Finished

Spec == Init /\ [][Next]_vars

(* The timers of the client fire.  The idle timer of a burst is the one that *)
(* packets re-arm: BurstIdle must happen only when they stop coming, since   *)
(* each of them disables it again.                                           *)
FairSpec ==
  Spec /\ WF_vars(Begin) /\ WF_vars(Resolved) /\ WF_vars(BurstQuiet) /\ WF_vars(BurstIdle)

-----------------------------------------------------------------------------
Requests == [seq : 0 .. SeqMod - 1, op : {"Reset", "Open", "Read", "Burst", "Terminate"},
             offset : Nat, age : 0 .. Window - 1]

(* The client's state has the types the code gives it; in particular the     *)
(* sequence number stays within its 16 bits (buildPayload).                  *)
TypeOK ==
  /\ pc \in {"idle", "reset", "open", "reopen", "burst", "patch", "read",
             "terminate", "done"}
  /\ link \subseteq Requests
  /\ seqNumber \in 0 .. SeqMod - 1
  /\ pendingSeq \in {None} \cup 0 .. SeqMod - 1
  /\ retry \in 0 .. MaxRetries - 1
  /\ declared \in Nat
  /\ buf.size \in Nat /\ buf.eof \in Nat \cup {None} /\ buf.over \in BOOLEAN
  /\ buf.limit \in Nat
  /\ offset \in Nat

(* Every byte of a returned file is the FC's byte at that place, whatever    *)
(* replies were lost, repeated or late: the guarantee handleResponse's       *)
(* sequence check and the buffer's never-overwrite rule are there for.       *)
ResultFaithful ==
  result.ok => /\ DOMAIN result.bytes \subseteq 0 .. FileLen - 1
               /\ \A i \in DOMAIN result.bytes : result.bytes[i] = File[i]

(* A returned file is not cut short: it reaches the size the FC reported or  *)
(* the true end of the file, whichever is smaller (downloadFile treats short *)
(* packets mid-file, EOF estimates and failing probes without truncating).   *)
ResultNotTruncated ==
  result.ok => \A i \in 0 .. MinOf(declared, FileLen) - 1 : i \in DOMAIN result.bytes

(* Bursts sweep forwards: once a burst has run from an offset, no later one  *)
(* of the same sweep starts at or before it (burstDownload: "each starting   *)
(* past the last one's coverage"), so a lost packet never replays the tail.  *)
SweepAdvances ==
  [][pc = "burst" /\ pc' = "burst" /\ seqNumber' # seqNumber
       => sweep'.start > sweep.start]_vars

(* A download returns: sweeps stop after two empty bursts, every gap round   *)
(* gains bytes or finds the end, retries are bounded.  The one thing that    *)
(* keeps it alive for ever is a single burst whose packets never stop, each  *)
(* of which re-arms the timer, whether it brings anything or not             *)
(* (handleBurstPacket).                                                      *)
KeptAlive == <>[](pc = "burst") /\ []<>sweep.heard

Returns == <>(pc = "done") \/ KeptAlive

(* downloadFile implements the abstract transfer: the buffer is what was     *)
(* received, the fallback to sequential reads is its Restart.                *)
Transfer == INSTANCE FileTransfer WITH
  Len <- FileLen, Content <- File,
  got <- buf.data, announced <- declared, result <- result

Implements == Transfer!Spec
=============================================================================
