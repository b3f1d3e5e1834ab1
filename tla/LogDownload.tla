---------------------------- MODULE LogDownload ----------------------------
(***************************************************************************)
(* LogDownloadManager (apps/desktop/src/main/mavlink-log/log-download-     *)
(* manager.ts) and its handlers in ipc-handlers.ts: the list of the logs   *)
(* on the flight controller (FC), and downloads of them, each as a series  *)
(* of bursts of LOG_DATA chunks.  Every list is asked for by a manager of  *)
(* its own, which is then the one that hears the FC; a download goes on in *)
(* the manager it was started in, and another may start at any time.       *)
(*                                                                         *)
(* Offsets are counted in chunks (LOG_CHUNK_SIZE bytes).  The link keeps   *)
(* the order of its packets and may lose any of them; a packet that comes  *)
(* while the client is not waiting for one is dropped by the client        *)
(* (resolvePending), which is the same as losing it.                       *)
(*                                                                         *)
(* The FC is not part of the repository: it streams the entries of its     *)
(* list, or the range it was last asked for, until that is sent, something *)
(* else is asked for or the end is requested; at the end of a log shorter  *)
(* than it was listed it sends an empty chunk.                             *)
(***************************************************************************)
EXTENDS Integers, Sequences

CONSTANTS
  NLogs,        \* the logs on the FC are numbered from 1
  Size,         \* the size each was listed with
  Stored,       \* the size each really has
  Burst,        \* chunks asked for by one request (1000)
  MaxRetries,   \* failed bursts in a row that end a download (10)
  Window,       \* packets the link holds in one direction
  Lists,        \* bound on the lists, and so on the managers, of one run
  Downloads     \* bound on the downloads of one run

Logs == 1 .. NLogs

ASSUME LogAssumption ==
  /\ NLogs \in Nat \ {0}
  /\ Size \in [Logs -> Nat] /\ Stored \in [Logs -> Nat]
  /\ \A l \in Logs : Stored[l] <= Size[l]
  /\ Burst \in Nat \ {0} /\ MaxRetries \in Nat \ {0}
  /\ Window \in Nat \ {0} /\ Lists \in Nat /\ Downloads \in Nat

VARIABLES
  manager,    \* logDownloadManager, by number; 0 before the first
  list,       \* the entries its list has gathered, or NoList
  available,  \* availableLogs: the list the user sees
  down,       \* the download under way in each manager
  result,     \* what downloadLog returned in the last step
  count,      \* calls of downloadLog, numbered from 1
  forgotten,  \* calls suspended on a promise that nothing resolves any more
  requests,   \* packets on their way to the FC
  stream,     \* packets on their way from it
  sending     \* what the FC is streaming

lists   == <<manager, list, available>>
calling == <<count, forgotten>>
client  == <<lists, down, calling>>
vars    == <<client, result, requests, stream, sending>>

None == 0
Managers == 1 .. Lists
NoList == [entries |-> {None}]
Null == [log |-> None, file |-> <<>>, len |-> 0, calm |-> 0]
Idle == [kind |-> "idle", log |-> None, next |-> 0, end |-> 0]

(* A download: call is its call of downloadLog, and file keeps for each      *)
(* chunk the log it came from, or None.                                      *)
(* History: calm is 0 when other packets or downloads were about as it       *)
(* began, else 1 when packets were lost since or its manager was replaced,   *)
(* else 2 when its timer fired, else 3.                                      *)
NoDownload == [log |-> None]

Chunks(l) == 0 .. Size[l] - 1
MinOf(a, b) == IF a <= b THEN a ELSE b
MaxOf(a, b) == IF a >= b THEN a ELSE b

Running(m) == down[m] # NoDownload

-----------------------------------------------------------------------------
(* The downloads: m is the manager, d the download, in the state it is in by *)
(* then.                                                                     *)

Request(op, l, from, end) ==
  Append(IF Len(requests) < Window THEN requests ELSE Tail(requests),
         [op |-> op, log |-> l, from |-> from, end |-> end])

(* LOG_REQUEST_END, then downloadLog returns.                                *)
Return(m, res) ==
  /\ requests' = Request("End", None, 0, 0)
  /\ result' = res
  /\ down' = [down EXCEPT ![m] = NoDownload]

(* fileData.subarray(0, highestOffset)                                       *)
Data(d) == [log |-> d.log, file |-> d.file, len |-> d.highest, calm |-> d.calm]

Asks(m, d, from) ==
  LET end == MinOf(Size[d.log], from + Burst)
  IN  /\ requests' = Request("Data", d.log, from, end)
      /\ down' = [down EXCEPT ![m] = [d EXCEPT !.burstEnd = end, !.lastHighest = d.highest]]
      /\ result' = Null

(* Mutant: a burst starts where the last one was to end.                     *)
NextBurstOnwards(m, d) ==
  IF d.failures >= MaxRetries THEN Return(m, IF d.highest > 0 THEN Data(d) ELSE Null)
  ELSE Asks(m, d, d.burstEnd)

(* The head of the retry loop: everything received, retries spent, or one    *)
(* more burst from the first gap.                                            *)
NextBurst(m, d) ==
  LET missing == {c \in Chunks(d.log) : d.file[c] = None}
  IN  IF d.failures >= MaxRetries THEN Return(m, IF d.highest > 0 THEN Data(d) ELSE Null)
      ELSE IF missing = {} /\ Size[d.log] > 0 THEN Return(m, Data(d))
      ELSE Asks(m, d, IF missing = {} THEN 0 ELSE CHOOSE c \in missing : \A e \in missing : c <= e)

(* Mutant: a failed burst is not counted.                                    *)
AfterBurstUncounted(m, d) ==
  IF d.highest >= Size[d.log] THEN Return(m, Data(d))
  ELSE NextBurst(m, [d EXCEPT !.failures = 0])

(* Mutant: every burst is counted as a failed one.                           *)
AfterBurstCounted(m, d) ==
  IF d.highest >= Size[d.log] THEN Return(m, Data(d))
  ELSE NextBurst(m, [d EXCEPT !.failures = @ + 1])

(* A burst is over: done when the last chunk of the log has been seen, else  *)
(* it failed when it did not reach further than the ones before it.          *)
AfterBurst(m, d) ==
  IF d.highest >= Size[d.log] THEN Return(m, Data(d))
  ELSE NextBurst(m, [d EXCEPT !.failures = IF d.highest > d.lastHighest THEN 0 ELSE @ + 1])

(* Something is about that was sent before, or another download is running.  *)
Busy ==
  \/ stream # <<>> \/ sending # Idle \/ \E i \in DOMAIN requests : requests[i].op # "End"
  \/ \E m \in Managers : Running(m)

Begun(l, file) ==
  [call |-> count + 1, log |-> l, file |-> file, highest |-> 0, lastHighest |-> 0,
   failures |-> 0, burstEnd |-> 0, calm |-> IF Busy THEN 0 ELSE 3]

ListDisturbed == IF list = NoList THEN list ELSE [list EXCEPT !.calm = FALSE]

(* LOG_DOWNLOAD in manager m.  The call that waits in it has its resolver    *)
(* overwritten: it is forgotten, and its timer becomes another of the new    *)
(* one's (Timeout).                                                          *)
Starts(m, d) ==
  /\ manager = m /\ d.log \in available /\ count < Downloads
  /\ count' = count + 1
  /\ forgotten' = forgotten \cup (IF Running(m) THEN {down[m].call} ELSE {})
  /\ list' = ListDisturbed
  /\ NextBurst(m, d)
  /\ UNCHANGED <<manager, available, stream, sending>>

(* Mutant: what the last download returned is still in the buffer.           *)
DownloadReuses(m, l) ==
  Starts(m, Begun(l, [c \in Chunks(l) |-> IF c < result.len THEN result.file[c] ELSE None]))

Download(m, l) == Starts(m, Begun(l, [c \in Chunks(l) |-> None]))

(* Mutant: the progress of a burst is where its last packet was.             *)
PlacedLast(d, p) == [d EXCEPT !.file[p.at] = p.log, !.highest = p.at + 1]

(* A chunk goes in its place.                                                *)
Placed(d, p) == [d EXCEPT !.file[p.at] = p.log, !.highest = MaxOf(@, p.at + 1)]

(* A chunk with bytes, whichever log it comes from.                          *)
Chunk(m, d, p) ==
  /\ p.at \in Chunks(d.log)
  /\ LET e == Placed(d, p)
     IN  IF e.highest >= e.burstEnd \/ e.highest >= Size[e.log] THEN AfterBurst(m, e)
         ELSE down' = [down EXCEPT ![m] = e] /\ result' = Null /\ UNCHANGED requests

(* fileData.set throws when the chunk does not fit: downloadLog rejects.     *)
Throw(m, d, p) ==
  /\ p.at \notin Chunks(d.log)
  /\ result' = Null
  /\ down' = [down EXCEPT ![m] = NoDownload]
  /\ UNCHANGED requests

(* LOG_DATA, for the manager there is now.                                   *)
ReceiveData ==
  /\ manager # 0 /\ Running(manager)
  /\ stream # <<>> /\ Head(stream).kind # "entry"
  /\ stream' = Tail(stream)
  /\ LET p == Head(stream)
         d == down[manager]
     IN  \/ p.kind = "data" /\ Chunk(manager, d, p)
         \/ p.kind = "data" /\ Throw(manager, d, p)
         \/ p.kind = "end" /\ Return(manager, Data(d))
  /\ UNCHANGED <<lists, calling, sending>>

(* waitForData's timer fires, or that of a download forgotten in m.          *)
Timeout(m) ==
  /\ Running(m)
  /\ AfterBurst(m, [down[m] EXCEPT !.calm = MinOf(@, 2)])
  /\ UNCHANGED <<lists, calling, stream, sending>>

-----------------------------------------------------------------------------
(* The list.                                                                 *)

(* resolveList                                                               *)
Resolve(entries) == list' = NoList /\ available' = entries

DownDisturbed ==
  [m \in Managers |-> IF Running(m) THEN [down[m] EXCEPT !.calm = MinOf(@, 1)] ELSE down[m]]

(* LOG_LIST_REQUEST: a new manager hears the FC from now on.                 *)
ListRequest ==
  /\ list = NoList /\ manager < Lists
  /\ manager' = manager + 1
  /\ list' = [entries |-> {}, calm |-> ~Busy]
  /\ requests' = Request("List", None, 1, NLogs + 1)
  /\ down' = DownDisturbed /\ result' = Null
  /\ UNCHANGED <<available, calling, stream, sending>>

(* Mutant: each entry takes the place of those before it.                    *)
EntryAlone(p) ==
  IF p.log = NLogs THEN Resolve({p.log})
  ELSE list' = [list EXCEPT !.entries = {p.log}] /\ UNCHANGED available

(* handleLogEntry                                                            *)
Entry(p) ==
  LET entries == list.entries \cup {p.log}
  IN  IF p.log = NLogs THEN Resolve(entries)
      ELSE list' = [list EXCEPT !.entries = entries] /\ UNCHANGED available

ReceiveEntry ==
  /\ list # NoList
  /\ stream # <<>> /\ Head(stream).kind = "entry"
  /\ stream' = Tail(stream)
  /\ Entry(Head(stream))
  /\ result' = Null
  /\ UNCHANGED <<manager, down, calling, requests, sending>>

(* listTimer fires.                                                          *)
ListTimeout ==
  /\ list # NoList
  /\ Resolve(list.entries)
  /\ result' = Null
  /\ UNCHANGED <<manager, down, calling, requests, stream, sending>>

(* cancel() of the manager there is now ends its waits; the loops of its     *)
(* download fall through to the end.                                         *)
Cancel ==
  /\ manager # 0
  /\ Running(manager) \/ list # NoList
  /\ LET d == down[manager]
     IN  IF Running(manager)
         THEN Return(manager, IF d.highest >= Size[d.log] THEN Data(d) ELSE Null)
         ELSE result' = Null /\ UNCHANGED <<requests, down>>
  /\ IF list # NoList THEN Resolve(list.entries) ELSE UNCHANGED <<list, available>>
  /\ UNCHANGED <<manager, calling, stream, sending>>

-----------------------------------------------------------------------------
(* The FC and the link.                                                      *)

(* The FC takes a request, and leaves what it was at.                        *)
Accept ==
  /\ requests # <<>>
  /\ requests' = Tail(requests)
  /\ LET q == Head(requests)
     IN  sending' = IF q.op = "End" THEN Idle
                    ELSE [kind |-> q.op, log |-> q.log, next |-> q.from, end |-> q.end]
  /\ result' = Null /\ UNCHANGED <<client, stream>>

(* The next entry of the list, the next chunk of the range, or the empty one *)
(* at the end of the log.                                                    *)
Stream ==
  /\ sending # Idle /\ Len(stream) < Window
  /\ LET l == sending.log
         n == sending.next
         end == sending.kind = "Data" /\ n >= Stored[l]
     IN  /\ stream' = Append(stream,
               IF sending.kind = "List" THEN [kind |-> "entry", log |-> n, at |-> 0]
               ELSE [kind |-> IF end THEN "end" ELSE "data", log |-> l, at |-> n])
         /\ sending' = IF end \/ n + 1 >= sending.end THEN Idle
                       ELSE [sending EXCEPT !.next = n + 1]
  /\ result' = Null /\ UNCHANGED <<client, requests>>

(* What is lost is lost for every download and list under way.               *)
Disturbs ==
  /\ down' = DownDisturbed /\ list' = ListDisturbed /\ result' = Null
  /\ UNCHANGED <<manager, available, calling, sending>>

LoseRequest ==
  /\ requests # <<>>
  /\ requests' = Tail(requests)
  /\ Disturbs /\ UNCHANGED stream

LosePacket ==
  /\ stream # <<>>
  /\ stream' = Tail(stream)
  /\ Disturbs /\ UNCHANGED requests

-----------------------------------------------------------------------------
Init ==
  /\ manager = 0 /\ list = NoList /\ available = {}
  /\ down = [m \in Managers |-> NoDownload]
  /\ result = Null /\ count = 0 /\ forgotten = {}
  /\ requests = <<>> /\ stream = <<>> /\ sending = Idle

(* The user is done, or waits; a forgotten call waits for ever.              *)
Rest == list = NoList /\ (\A m \in Managers : ~Running(m)) /\ UNCHANGED vars

Timers == ListTimeout \/ \E m \in Managers : Timeout(m)

Next ==
  \/ ListRequest \/ ReceiveEntry
  \/ \E m \in Managers, l \in Logs : Download(m, l)
  \/ ReceiveData \/ Cancel \/ Timers
  \/ Accept \/ Stream \/ LoseRequest \/ LosePacket
  \/ Rest

(* The client's timers always fire.                                          *)
Spec == Init /\ [][Next]_vars /\ WF_vars(Timers)

-----------------------------------------------------------------------------
(* The client's state has the types the code gives it, no offset runs past   *)
(* the log's listed size and no download outlives its retries.               *)
TypeOK ==
  /\ manager \in 0 .. Lists /\ count \in 0 .. Downloads
  /\ forgotten \subseteq 1 .. Downloads
  /\ available \subseteq Logs
  /\ list = NoList \/ (manager # 0 /\ list.entries \subseteq 1 .. NLogs - 1)
  /\ \A m \in Managers : Running(m) =>
       LET d == down[m]
       IN  /\ m <= manager /\ d.log \in Logs /\ d.call \in 1 .. Downloads
           /\ d.file \in [Chunks(d.log) -> Logs \cup {None}]
           /\ d.highest \in 0 .. Size[d.log] /\ d.lastHighest \in 0 .. d.highest
           /\ d.burstEnd \in 0 .. Size[d.log]
           /\ d.failures \in 0 .. MaxRetries - 1

(* A list with the last log on it has every log, when nothing was lost and   *)
(* nothing else was about ("If we've received all entries, resolve           *)
(* immediately").                                                            *)
ListWhole ==
  [][list # NoList /\ list.calm /\ list' = NoList /\ NLogs \in available' =>
       available' = Logs]_vars

(* Nothing but chunks of the log is in the data of a download that began     *)
(* with nothing else about, whatever was lost, silent, cancelled or listed   *)
(* since ("Download a specific log by ID").                                  *)
OwnLog ==
  result.calm >= 1 =>
    \A c \in 0 .. result.len - 1 : result.file[c] \in {result.log, None}

(* When nothing was lost either, the data are the beginning of the log,      *)
(* without a hole: asking again after a silence, with the old burst still    *)
(* arriving, skips nothing.                                                  *)
HolesOnlyFromLoss ==
  result.calm >= 2 =>
    \A c \in 0 .. result.len - 1 : result.file[c] = result.log

(* When the FC was not silent in the middle of a burst either, the whole log *)
(* is returned, however many bursts it takes.                                *)
WholeWhenUndisturbed == result.calm = 3 => result.len = Stored[result.log]

(* Call k of downloadLog has not returned.                                   *)
Open(k) == k \in forgotten \/ \E m \in Managers : Running(m) /\ down[m].call = k

(* Every list ends, and every call of downloadLog returns, one whose manager *)
(* was replaced by a later list too, unless another call overtakes it in its *)
(* manager (waitForData overwrites pendingResolve): that one never does, and *)
(* no other call is left waiting.                                            *)
Ends ==
  []<>(list = NoList /\ \A k \in 1 .. Downloads : Open(k) => k \in forgotten)

(* downloadLog returns once it "got everything" (highestOffset >= logSize):  *)
(* data as long as the log has every chunk of it.                            *)
GotEverything ==
  result # Null /\ result.len = Size[result.log] =>
    \A c \in Chunks(result.log) : result.file[c] # None

(* No byte of the data returned comes from another log.                      *)
OneLog ==
  result # Null => \A c \in 0 .. result.len - 1 : result.file[c] \in {result.log, None}

(* Every call of downloadLog returns.                                        *)
AllReturn == forgotten = {}
=============================================================================
