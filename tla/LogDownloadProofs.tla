-------------------------- MODULE LogDownloadProofs --------------------------
(***************************************************************************)
(* Proofs about LogDownload, for any number of logs of any size, any burst *)
(* length and retry limit, links that hold any number of packets, and any  *)
(* number of lists and downloads.                                          *)
(***************************************************************************)
EXTENDS LogDownload, SequenceTheorems, WellFoundedInduction, TLAPS

-----------------------------------------------------------------------------
(* The inductive invariant.                                                  *)

Marks == Logs \cup {None}
Files == UNION {[Chunks(l) -> Marks] : l \in Logs}
Shapes == [call : 1 .. Downloads, log : Logs, file : Files, highest : Nat, lastHighest : Nat, failures : Nat,
           burstEnd : Nat, calm : 0 .. 3]

(* What a download holds: its own log if it began with nothing else about,   *)
(* and no hole if nothing was lost.                                          *)
Held(d) ==
  /\ d \in Shapes
  /\ d.file \in [Chunks(d.log) -> Marks]
  /\ d.highest <= Size[d.log] /\ d.lastHighest <= d.highest /\ d.burstEnd <= Size[d.log]
  /\ d.calm >= 1 => \A c \in Chunks(d.log) : d.file[c] \in {d.log, None}
  /\ d.calm >= 2 =>
       /\ d.highest <= Stored[d.log]
       /\ \A c \in Chunks(d.log) : d.file[c] = IF c < d.highest THEN d.log ELSE None
  /\ d.calm = 3 => d.failures = 0

(* A download that waits for the chunks of a burst.                          *)
Waits(d) ==
  /\ Held(d)
  /\ d.failures < MaxRetries
  /\ d.calm >= 2 => d.lastHighest < d.burstEnd \/ Size[d.log] = 0

(* What is returned.                                                         *)
ResultGood(r) ==
  /\ r.calm >= 1 => \A c \in 0 .. r.len - 1 : r.file[c] \in {r.log, None}
  /\ r.calm >= 2 => \A c \in 0 .. r.len - 1 : r.file[c] = r.log
  /\ r.calm = 3 => r.len = Stored[r.log]

(* The packets.                                                              *)
Packets ==
  {p \in [kind : {"entry", "data", "end"}, log : Logs, at : Nat] :
     /\ p.kind = "data" => p.at < Stored[p.log]
     /\ p.kind = "end" => p.at >= Stored[p.log]}

Asked ==
  {q \in [op : {"List", "Data", "End"}, log : Nat, from : Nat, end : Nat] :
     /\ q.op = "List" => q.from = 1 /\ q.end = NLogs + 1
     /\ q.op = "Data" => q.log \in Logs}

Sendings ==
  {s \in [kind : {"idle", "List", "Data"}, log : Nat, next : Nat, end : Nat] :
     /\ s.kind = "idle" => s = Idle
     /\ s.kind = "List" => s.next \in Logs /\ s.end = NLogs + 1
     /\ s.kind = "Data" => s.log \in Logs}

WorldInv == stream \in Seq(Packets) /\ requests \in Seq(Asked) /\ sending \in Sendings

(* All chunks on their way, with packets st, the FC at sd and requests rq,   *)
(* are of log l.                                                             *)
Own(st, sd, rq, l) ==
  /\ \A k \in DOMAIN st : st[k].kind # "entry" => st[k].log = l
  /\ sd.kind = "Data" => sd.log = l
  /\ \A k \in DOMAIN rq : rq[k].op = "Data" => rq[k].log = l

(* A chunk at offset a leaves no hole behind the first h, when those among   *)
(* the first n packets have come.                                            *)
Joins(st, n, h, a) ==
  a <= h \/ \E j \in DOMAIN st : j < n /\ st[j].kind = "data" /\ a <= st[j].at + 1

(* None of the chunks on their way leaves a hole.                            *)
Flow(st, sd, rq, h) ==
  /\ \A k \in DOMAIN st : st[k].kind # "entry" => Joins(st, k, h, st[k].at)
  /\ sd.kind = "Data" => Joins(st, Len(st) + 1, h, sd.next)
  /\ \A k \in DOMAIN rq : rq[k].op = "Data" => rq[k].from <= h

DownInv ==
  \A m \in Managers : Running(m) =>
    /\ m <= manager /\ Waits(down[m])
    /\ m # manager => down[m].calm <= 1
    /\ m = manager /\ down[m].calm >= 1 =>
         /\ Own(stream, sending, requests, down[m].log)
         /\ \A n \in Managers \ {m} : ~Running(n)
    /\ down[m].calm >= 2 => Flow(stream, sending, requests, down[m].highest)

(* The entries before the one numbered x are in the list or among the first  *)
(* n packets.                                                                *)
Listed(st, n, entries, x) ==
  \A y \in 1 .. x - 1 :
    y \in entries \/ \E j \in DOMAIN st : j < n /\ st[j].kind = "entry" /\ st[j].log = y

ListFlow(st, sd, rq, entries) ==
  /\ \A k \in DOMAIN st : st[k].kind = "entry" => Listed(st, k, entries, st[k].log)
  /\ sd.kind # "Data"
  /\ sd.kind = "List" => Listed(st, Len(st) + 1, entries, sd.next)
  /\ \A k \in DOMAIN rq : rq[k].op # "Data"

(* A list that nothing disturbed comes in order, and nothing else does.      *)
ListInv ==
  list # NoList /\ list.calm = TRUE =>
    ListFlow(stream, sending, requests, list.entries) /\ \A m \in Managers : ~Running(m)

ListShapes == [entries : SUBSET (1 .. NLogs - 1), calm : BOOLEAN]

Types ==
  /\ manager \in 0 .. Lists /\ count \in 0 .. Downloads
  /\ forgotten \subseteq 1 .. Downloads
  /\ available \subseteq Logs
  /\ list = NoList \/ (manager # 0 /\ list \in ListShapes)
  /\ DOMAIN down = Managers /\ down = [m \in Managers |-> down[m]]

IInv == Types /\ WorldInv /\ DownInv /\ ListInv /\ ResultGood(result)

-----------------------------------------------------------------------------
(* The data of a download.                                                   *)

LEMMA ConstantFacts ==
  /\ NLogs \in Nat /\ NLogs > 0 /\ Burst \in Nat /\ Burst > 0
  /\ MaxRetries \in Nat /\ MaxRetries > 0 /\ Window \in Nat /\ Window > 0
  /\ Lists \in Nat /\ Downloads \in Nat
  /\ \A l \in Logs : /\ Size[l] \in Nat /\ Stored[l] \in Nat /\ Stored[l] <= Size[l]
                     /\ l \in Nat /\ l # None
BY LogAssumption DEF Logs, None

LEMMA LeastNat ==
  ASSUME NEW S \in SUBSET Nat, S # {}
  PROVE  \E x \in S : \A y \in S : x <= y
<1>1. PICK x \in S : \A y \in S : ~(<<y, x>> \in OpToRel(<, Nat))
  BY NatLessThanWellFounded, WFMin
<1>2. ASSUME NEW y \in S, ~(x <= y)
      PROVE  FALSE
  <2>1. <<y, x>> \in Nat \X Nat /\ y < x
    BY <1>2
  <2>2. <<y, x>> \in OpToRel(<, Nat)
    BY <2>1 DEF OpToRel
  <2> QED BY <1>1, <2>2
<1> QED BY <1>2

LEMMA HeldFacts ==
  ASSUME NEW d, Held(d)
  PROVE  /\ d.log \in Logs /\ d.log # None /\ d.highest \in Nat /\ d.lastHighest \in Nat
         /\ d.failures \in Nat /\ d.burstEnd \in Nat /\ d.calm \in 0 .. 3
         /\ Size[d.log] \in Nat /\ Stored[d.log] \in Nat /\ Stored[d.log] <= Size[d.log]
         /\ Chunks(d.log) = 0 .. Size[d.log] - 1
         /\ d # NoDownload
<1>1. d.log \in Logs
  BY DEF Held, Shapes
<1>2. d.log # None
  BY <1>1, ConstantFacts
<1>3. d # NoDownload
  BY <1>2 DEF NoDownload
<1> QED BY <1>1, <1>2, <1>3, ConstantFacts DEF Held, Shapes, Chunks

LEMMA NullGood == ResultGood(Null)
BY DEF ResultGood, Null

(* A download may return what it has, if that is the whole log or something  *)
(* happened to it.                                                           *)
LEMMA DataGood ==
  ASSUME NEW d, Held(d), d.calm = 3 => d.highest = Stored[d.log]
  PROVE  ResultGood(Data(d))
<1> DEFINE r == Data(d)
<1>1. r.log = d.log /\ r.file = d.file /\ r.len = d.highest /\ r.calm = d.calm
  BY DEF Data
<1> HIDE DEF r
<1>2. \A c \in 0 .. d.highest - 1 : c \in Chunks(d.log) /\ c < d.highest
  BY HeldFacts DEF Held
<1>3. d.calm \in 0 .. 3
  BY HeldFacts
<1>4. ResultGood(r)
  BY <1>1, <1>2, <1>3 DEF ResultGood, Held
<1> QED BY <1>4 DEF r

LEMMA HeldLess ==
  ASSUME NEW d, Held(d), NEW k \in {1, 2}
  PROVE  LET e == [d EXCEPT !.calm = MinOf(@, k)]
         IN  /\ Held(e) /\ e.calm <= k /\ e.calm <= d.calm
             /\ e.log = d.log /\ e.highest = d.highest /\ e.lastHighest = d.lastHighest
             /\ e.burstEnd = d.burstEnd /\ e.failures = d.failures
<1> DEFINE e == [d EXCEPT !.calm = MinOf(@, k)]
<1>1. d \in Shapes
  BY DEF Held
<1>2. MinOf(d.calm, k) \in 0 .. 3 /\ MinOf(d.calm, k) <= k /\ MinOf(d.calm, k) <= d.calm
  BY HeldFacts DEF MinOf
<1>3. /\ e \in Shapes /\ e.log = d.log /\ e.highest = d.highest
      /\ e.lastHighest = d.lastHighest /\ e.burstEnd = d.burstEnd /\ e.failures = d.failures
      /\ e.file = d.file /\ e.calm = MinOf(d.calm, k)
  BY <1>1, <1>2 DEF Shapes
<1> HIDE DEF e
<1>4. Held(e)
  BY <1>2, <1>3, HeldFacts DEF Held
<1> QED BY <1>2, <1>3, <1>4 DEF e

(* A chunk in its place.                                                     *)
LEMMA PlacedGood ==
  ASSUME NEW d, Waits(d), NEW p \in Packets, p.kind = "data", p.at \in Chunks(d.log),
         d.calm >= 1 => p.log = d.log, d.calm >= 2 => p.at <= d.highest
  PROVE  LET e == Placed(d, p)
         IN  /\ Waits(e) /\ e.log = d.log /\ e.calm = d.calm /\ e.lastHighest = d.lastHighest
             /\ e.burstEnd = d.burstEnd /\ e.highest = MaxOf(d.highest, p.at + 1)
<1> DEFINE f == [d.file EXCEPT ![p.at] = p.log]
           h == MaxOf(d.highest, p.at + 1)
           e == Placed(d, p)
<1>1. d \in Shapes /\ Held(d) /\ d.file \in [Chunks(d.log) -> Marks]
  BY DEF Waits, Held
<1>2. p.at \in Nat /\ p.log \in Logs /\ p.at < Stored[p.log] /\ p.at < Size[d.log]
  BY <1>1, HeldFacts DEF Packets, Chunks
<1>3. f \in [Chunks(d.log) -> Marks] /\ \A c \in Chunks(d.log) : f[c] = IF c = p.at THEN p.log ELSE d.file[c]
  BY <1>1, <1>2 DEF Marks
<1>4. f \in Files /\ d.log \in Logs
  BY <1>1, <1>3, HeldFacts DEF Files
<1>5. h \in Nat /\ d.highest <= h /\ p.at < h /\ h <= Size[d.log]
      /\ (d.calm >= 2 => h <= Stored[d.log])
      /\ (d.calm >= 2 => \A c \in Nat : c < h <=> (c < d.highest \/ c = p.at))
  BY <1>1, <1>2, HeldFacts, SMTT(30) DEF MaxOf, Held
<1> HIDE DEF f, h
<1>6. /\ e \in Shapes /\ e.log = d.log /\ e.calm = d.calm /\ e.lastHighest = d.lastHighest
      /\ e.burstEnd = d.burstEnd /\ e.failures = d.failures /\ e.file = f /\ e.highest = h
  BY <1>1, <1>4, <1>5 DEF Shapes, Placed, f, h
<1> HIDE DEF e
<1>7. \A c \in Chunks(d.log) : c \in Nat
  BY <1>1, HeldFacts
<1>8. e.calm >= 1 => \A c \in Chunks(e.log) : e.file[c] \in {e.log, None}
  BY <1>1, <1>3, <1>6 DEF Held
<1>9. e.calm >= 2 => /\ e.highest <= Stored[e.log]
                     /\ \A c \in Chunks(e.log) : e.file[c] = IF c < e.highest THEN e.log ELSE None
  <2>1. d.calm \in 0 .. 3
    BY <1>1, HeldFacts
  <2> QED BY <1>1, <1>3, <1>5, <1>6, <1>7, <2>1 DEF Held
<1>10. Held(e)
  BY <1>1, <1>3, <1>5, <1>6, <1>8, <1>9, HeldFacts DEF Held
<1>11. Waits(e)
  BY <1>6, <1>10 DEF Waits
<1> QED BY <1>6, <1>11 DEF e, h

-----------------------------------------------------------------------------
(* The packets.                                                              *)

LEMMA TailFacts ==
  ASSUME NEW S, NEW q \in Seq(S), q # <<>>
  PROVE  /\ Tail(q) \in Seq(S) /\ Len(Tail(q)) = Len(q) - 1 /\ Len(q) \in Nat \ {0}
         /\ Head(q) = q[1] /\ 1 \in DOMAIN q /\ Head(q) \in S /\ DOMAIN q = 1 .. Len(q)
         /\ \A k \in DOMAIN Tail(q) : Tail(q)[k] = q[k + 1] /\ k + 1 \in DOMAIN q /\ k \in Nat
         /\ \A k \in DOMAIN q : k \in Nat \ {0} /\ q[k] \in S
         /\ \A k \in DOMAIN q : k > 1 => k - 1 \in DOMAIN Tail(q) /\ Tail(q)[k - 1] = q[k]
<1>1. /\ Tail(q) \in Seq(S) /\ Len(Tail(q)) = Len(q) - 1 /\ Len(q) \in Nat \ {0}
      /\ Head(q) = q[1] /\ Head(q) \in S /\ DOMAIN q = 1 .. Len(q)
      /\ DOMAIN Tail(q) = 1 .. Len(q) - 1
      /\ \A k \in 1 .. Len(q) - 1 : Tail(q)[k] = q[k + 1]
  BY HeadTailProperties, LenProperties
<1>2. \A k \in 1 .. Len(q) : q[k] \in S
  BY ElementOfSeq
<1> QED BY <1>1, <1>2

LEMMA AppendFacts ==
  ASSUME NEW S, NEW q \in Seq(S), NEW x \in S
  PROVE  /\ Append(q, x) \in Seq(S) /\ Len(Append(q, x)) = Len(q) + 1 /\ Len(q) \in Nat
         /\ DOMAIN q = 1 .. Len(q) /\ DOMAIN Append(q, x) = 1 .. Len(q) + 1
         /\ \A k \in 1 .. Len(q) : Append(q, x)[k] = q[k]
         /\ Append(q, x)[Len(q) + 1] = x
BY AppendProperties, LenProperties

(* A request joins those on their way, if not all of these.                  *)
LEMMA RequestFacts ==
  ASSUME requests \in Seq(Asked), NEW op, NEW l, NEW from, NEW end,
         [op |-> op, log |-> l, from |-> from, end |-> end] \in Asked
  PROVE  /\ Request(op, l, from, end) \in Seq(Asked)
         /\ \A k \in DOMAIN Request(op, l, from, end) :
              \/ Request(op, l, from, end)[k] = [op |-> op, log |-> l, from |-> from, end |-> end]
              \/ \E j \in DOMAIN requests : Request(op, l, from, end)[k] = requests[j]
<1> DEFINE x == [op |-> op, log |-> l, from |-> from, end |-> end]
           q == IF Len(requests) < Window THEN requests ELSE Tail(requests)
<1>1. Request(op, l, from, end) = Append(q, x)
  BY DEF Request
<1>2. q \in Seq(Asked) /\ \A k \in DOMAIN q : \E j \in DOMAIN requests : q[k] = requests[j]
  <2>1. CASE Len(requests) < Window
    BY <2>1
  <2>2. CASE ~(Len(requests) < Window)
    <3>1. requests # <<>>
      BY <2>2, ConstantFacts
    <3>2. q = Tail(requests)
      BY <2>2
    <3> HIDE DEF q
    <3> QED BY <3>1, <3>2, TailFacts
  <2> QED BY <2>1, <2>2
<1> HIDE DEF q, x
<1>3. x \in Asked
  BY DEF x
<1>4. /\ Append(q, x) \in Seq(Asked) /\ Len(q) \in Nat
      /\ DOMAIN q = 1 .. Len(q) /\ DOMAIN Append(q, x) = 1 .. Len(q) + 1
      /\ \A k \in 1 .. Len(q) : Append(q, x)[k] = q[k]
      /\ Append(q, x)[Len(q) + 1] = x
  BY <1>2, <1>3, AppendFacts
<1>5. ASSUME NEW k \in DOMAIN Append(q, x)
      PROVE  Append(q, x)[k] = x \/ \E j \in DOMAIN requests : Append(q, x)[k] = requests[j]
  <2>1. k \in 1 .. Len(q) \/ k = Len(q) + 1
    BY <1>4
  <2> QED BY <1>2, <1>4, <2>1
<1> QED BY <1>1, <1>4, <1>5 DEF x

-----------------------------------------------------------------------------
(* How a step of download d in manager m ends: the download has returned, or *)
(* waits, and may have asked for chunks from its first hole on.              *)

Settled(m, d) ==
  /\ ResultGood(result')
  /\ requests' \in Seq(Asked)
  /\ \A k \in DOMAIN requests' :
       \/ requests'[k].op = "End"
       \/ \E j \in DOMAIN requests : requests'[k] = requests[j]
       \/ /\ requests'[k].op = "Data" /\ requests'[k].log = d.log
          /\ d.calm >= 2 => requests'[k].from <= d.highest
  /\ \E e : /\ down' = [down EXCEPT ![m] = e]
            /\ \/ e = NoDownload
               \/ Waits(e) /\ e.log = d.log /\ e.highest = d.highest /\ e.calm = d.calm

LEMMA ReturnGood ==
  ASSUME requests \in Seq(Asked), NEW m, NEW d, NEW res, ResultGood(res), Return(m, res)
  PROVE  Settled(m, d)
<1>1. /\ requests' = Request("End", None, 0, 0) /\ result' = res
      /\ down' = [down EXCEPT ![m] = NoDownload]
  BY DEF Return
<1>2. [op |-> "End", log |-> None, from |-> 0, end |-> 0] \in Asked
  BY DEF Asked, None
<1>3. /\ requests' \in Seq(Asked)
      /\ \A k \in DOMAIN requests' : requests'[k].op = "End" \/ \E j \in DOMAIN requests : requests'[k] = requests[j]
  BY <1>1, <1>2, RequestFacts
<1> QED BY <1>1, <1>3 DEF Settled

LEMMA NextBurstGood ==
  ASSUME requests \in Seq(Asked), NEW m, NEW d, Held(d), NextBurst(m, d)
  PROVE  Settled(m, d)
<1> DEFINE missing == {c \in Chunks(d.log) : d.file[c] = None}
           from == IF missing = {} THEN 0
                   ELSE CHOOSE c \in missing : \A e \in missing : c <= e
<1>1. \/ /\ d.failures >= MaxRetries
         /\ Return(m, IF d.highest > 0 THEN Data(d) ELSE Null)
      \/ d.failures < MaxRetries /\ missing = {} /\ Size[d.log] > 0 /\ Return(m, Data(d))
      \/ d.failures < MaxRetries /\ (missing # {} \/ Size[d.log] = 0) /\ Asks(m, d, from)
  <2>1. IF d.failures >= MaxRetries
        THEN Return(m, IF d.highest > 0 THEN Data(d) ELSE Null)
        ELSE IF missing = {} /\ Size[d.log] > 0 THEN Return(m, Data(d))
        ELSE Asks(m, d, from)
    BY DEF NextBurst
  <2> HIDE DEF missing, from
  <2>2. /\ d.failures \in Nat /\ MaxRetries \in Nat
        /\ Size[d.log] \in Nat
    BY HeldFacts, ConstantFacts
  <2> QED BY <2>1, <2>2
<1>2. missing \subseteq 0 .. Size[d.log] - 1 /\ missing \in SUBSET Nat
  BY HeldFacts
<1>3. /\ missing = {} => from = 0
      /\ missing # {} => from \in missing /\ \A e \in missing : from <= e
  BY <1>2, LeastNat
<1>4. d.calm >= 2 => missing = {c \in Chunks(d.log) : ~(c < d.highest)}
  <2> SUFFICES ASSUME d.calm >= 2 PROVE missing = {c \in Chunks(d.log) : ~(c < d.highest)}
    OBVIOUS
  <2>1. \A c \in Chunks(d.log) : d.file[c] = IF c < d.highest THEN d.log ELSE None
    BY DEF Held
  <2>2. d.log # None
    BY HeldFacts
  <2> QED BY <2>1, <2>2
<1> HIDE DEF missing, from
<1>5. CASE d.failures >= MaxRetries /\ Return(m, IF d.highest > 0 THEN Data(d) ELSE Null)
  <2>1. d.calm # 3
    BY <1>5, ConstantFacts DEF Held
  <2>2. ResultGood(IF d.highest > 0 THEN Data(d) ELSE Null)
    BY <2>1, DataGood, NullGood
  <2> QED BY <1>5, <2>2, ReturnGood
<1>6. CASE missing = {} /\ Size[d.log] > 0 /\ Return(m, Data(d))
  <2>1. d.calm = 3 => d.highest = Stored[d.log]
    <3> SUFFICES ASSUME d.calm = 3 PROVE d.highest = Stored[d.log]
      OBVIOUS
    <3>1. \A c \in 0 .. Size[d.log] - 1 : c < d.highest
      BY <1>4, <1>6, HeldFacts
    <3>2. Size[d.log] - 1 < d.highest
      BY <1>6, <3>1, HeldFacts
    <3> QED BY <3>2, HeldFacts DEF Held
  <2> QED BY <1>6, <2>1, DataGood, ReturnGood
<1>7. CASE d.failures < MaxRetries /\ (missing # {} \/ Size[d.log] = 0) /\ Asks(m, d, from)
  <2> DEFINE end == MinOf(Size[d.log], from + Burst)
             e   == [d EXCEPT !.burstEnd = end, !.lastHighest = d.highest]
             x   == [op |-> "Data", log |-> d.log, from |-> from, end |-> end]
  <2>1. /\ requests' = Request("Data", d.log, from, end)
        /\ down' = [down EXCEPT ![m] = e]
        /\ result' = Null
    BY <1>7 DEF Asks
  <2>2. /\ from \in Nat /\ end \in Nat /\ end <= Size[d.log]
        /\ d.calm >= 2 => from <= d.highest
        /\ d.calm >= 2 => d.highest < end \/ Size[d.log] = 0
    <3>1. from \in Nat /\ (missing # {} => from < Size[d.log])
      <4>1. \A c \in missing : c \in Nat /\ c < Size[d.log]
        <5>1. Size[d.log] \in Nat
          BY HeldFacts
        <5> QED BY <1>2, <5>1
      <4> QED BY <1>3, <4>1
    <3>2. end \in Nat /\ end <= Size[d.log] /\ (missing # {} => from < end)
      BY <3>1, HeldFacts, ConstantFacts DEF MinOf
    <3>3. d.calm >= 2 /\ missing # {} => from = d.highest
      <4> SUFFICES ASSUME d.calm >= 2, missing # {} PROVE from = d.highest
        OBVIOUS
      <4>1. from \in missing /\ ~(from < d.highest) /\ from < Size[d.log]
        BY <1>3, <1>4, <3>1
      <4>2. d.highest \in missing
        BY <1>4, <3>1, <4>1, HeldFacts
      <4> QED BY <1>3, <3>1, <4>1, <4>2, HeldFacts
    <3>4. missing = {} => from <= d.highest
      BY <1>3, HeldFacts
    <3> QED BY <1>7, <3>1, <3>2, <3>3, <3>4, HeldFacts
  <2> HIDE DEF end
  <2>3. x \in Asked /\ x.op = "Data" /\ x.log = d.log /\ x.from = from
    <3>1. d.log \in Nat
      BY HeldFacts, ConstantFacts
    <3> QED BY <2>2, <3>1, HeldFacts DEF Asked
  <2>4. /\ requests' \in Seq(Asked)
        /\ \A k \in DOMAIN requests' : requests'[k] = x \/ \E j \in DOMAIN requests : requests'[k] = requests[j]
    BY <2>1, <2>3, RequestFacts
  <2>5. /\ e \in Shapes /\ e.log = d.log /\ e.highest = d.highest /\ e.calm = d.calm
        /\ e.file = d.file /\ e.failures = d.failures
        /\ e.lastHighest = d.highest /\ e.burstEnd = end
    <3>1. d \in Shapes
      BY DEF Held
    <3> QED BY <2>2, <3>1, HeldFacts DEF Shapes
  <2> HIDE DEF e, x
  <2>6. Waits(e)
    BY <1>7, <2>2, <2>5, HeldFacts DEF Waits, Held
  <2> QED BY <2>1, <2>2, <2>3, <2>4, <2>5, <2>6, NullGood DEF Settled
<1> QED BY <1>1, <1>5, <1>6, <1>7

(* A burst is over: the last chunk has come, or nothing did for a while.     *)
LEMMA AfterBurstGood ==
  ASSUME requests \in Seq(Asked), NEW m, NEW d, Held(d),
         d.calm = 3 => d.highest >= Size[d.log] \/ d.highest > d.lastHighest,
         AfterBurst(m, d)
  PROVE  Settled(m, d)
<1>1. CASE d.highest >= Size[d.log] /\ Return(m, Data(d))
  <2>1. d.calm = 3 => d.highest = Stored[d.log]
    BY <1>1, HeldFacts DEF Held
  <2> QED BY <1>1, <2>1, DataGood, ReturnGood
<1>2. CASE /\ ~(d.highest >= Size[d.log])
           /\ NextBurst(m, [d EXCEPT !.failures = IF d.highest > d.lastHighest THEN 0 ELSE @ + 1])
  <2> DEFINE n == IF d.highest > d.lastHighest THEN 0 ELSE d.failures + 1
             e == [d EXCEPT !.failures = n]
  <2>1. n \in Nat /\ (d.calm = 3 => n = 0) /\ d \in Shapes
    BY <1>2, HeldFacts DEF Held
  <2> HIDE DEF n
  <2>2. /\ e \in Shapes /\ e.log = d.log /\ e.highest = d.highest /\ e.calm = d.calm
        /\ e.file = d.file /\ e.failures = n
        /\ e.lastHighest = d.lastHighest /\ e.burstEnd = d.burstEnd
    BY <2>1 DEF Shapes
  <2>3. NextBurst(m, e)
    BY <1>2 DEF n
  <2> HIDE DEF e
  <2>4. Held(e)
    BY <2>1, <2>2 DEF Held
  <2>5. Settled(m, e)
    BY <2>3, <2>4, NextBurstGood
  <2> QED BY <2>2, <2>5 DEF Settled
<1> QED BY <1>1, <1>2 DEF AfterBurst

-----------------------------------------------------------------------------
(* What is on its way.                                                       *)

(* Packets that are lost or received leave the rest as they should be.       *)
LEMMA OwnTail ==
  ASSUME NEW st \in Seq(Packets), st # <<>>, NEW sd, NEW rq, NEW l, Own(st, sd, rq, l)
  PROVE  Own(Tail(st), sd, rq, l)
<1>1. \A k \in DOMAIN Tail(st) : Tail(st)[k] = st[k + 1] /\ k + 1 \in DOMAIN st
  BY TailFacts
<1> QED BY <1>1 DEF Own

(* The download takes the next packet; its highest offset goes from h to g.  *)
LEMMA FlowTail ==
  ASSUME NEW st \in Seq(Packets), st # <<>>, NEW sd, NEW rq \in Seq(Asked),
         NEW h \in Nat, NEW g \in Nat, h <= g, sd \in Sendings,
         st[1].kind = "data" => st[1].at + 1 <= g,
         Flow(st, sd, rq, h)
  PROVE  Flow(Tail(st), sd, rq, g)
<1>1. /\ \A k \in DOMAIN Tail(st) : Tail(st)[k] = st[k + 1] /\ k + 1 \in DOMAIN st /\ k \in Nat
      /\ \A k \in DOMAIN st : k \in Nat \ {0} /\ st[k] \in Packets
      /\ \A k \in DOMAIN st : k > 1 => k - 1 \in DOMAIN Tail(st) /\ Tail(st)[k - 1] = st[k]
      /\ Len(Tail(st)) = Len(st) - 1 /\ Len(st) \in Nat
  BY TailFacts
<1>2. ASSUME NEW n \in Nat, NEW a \in Nat, Joins(st, n + 1, h, a)
      PROVE  Joins(Tail(st), n, g, a)
  <2>1. CASE a <= h
    BY <2>1 DEF Joins
  <2>2. ASSUME NEW j \in DOMAIN st, j < n + 1, st[j].kind = "data", a <= st[j].at + 1
        PROVE  Joins(Tail(st), n, g, a)
    <3>1. st[j].at \in Nat /\ j \in Nat \ {0}
      BY <1>1, <2>2 DEF Packets
    <3>2. CASE j = 1
      BY <2>2, <3>1, <3>2 DEF Joins
    <3>3. CASE j > 1
      <4>1. j - 1 \in DOMAIN Tail(st) /\ Tail(st)[j - 1] = st[j] /\ j - 1 < n
        BY <1>1, <2>2, <3>1, <3>3
      <4> QED BY <2>2, <4>1 DEF Joins
    <3> QED BY <3>1, <3>2, <3>3
  <2> QED BY <1>2, <2>1, <2>2 DEF Joins
<1>3. \A k \in DOMAIN Tail(st) : Tail(st)[k].kind # "entry" => Joins(Tail(st), k, g, Tail(st)[k].at)
  <2> SUFFICES ASSUME NEW k \in DOMAIN Tail(st), Tail(st)[k].kind # "entry"
               PROVE  Joins(Tail(st), k, g, Tail(st)[k].at)
    OBVIOUS
  <2>1. k \in Nat /\ Tail(st)[k].at \in Nat /\ Joins(st, k + 1, h, Tail(st)[k].at)
    BY <1>1 DEF Flow, Packets
  <2> QED BY <1>2, <2>1
<1>4. sd.kind = "Data" => Joins(Tail(st), Len(Tail(st)) + 1, g, sd.next)
  <2> SUFFICES ASSUME sd.kind = "Data" PROVE Joins(Tail(st), Len(st), g, sd.next)
    BY <1>1
  <2>1. sd.next \in Nat /\ Joins(st, Len(st) + 1, h, sd.next)
    BY DEF Flow, Sendings
  <2> QED BY <1>1, <1>2, <2>1
<1>5. \A k \in DOMAIN rq : rq[k].op = "Data" => rq[k].from <= g
  <2>1. \A k \in DOMAIN rq : rq[k].from \in Nat
    BY ElementOfSeq, LenProperties DEF Asked
  <2> QED BY <2>1 DEF Flow
<1> QED BY <1>3, <1>4, <1>5 DEF Flow

(* The same for a list, when the next packet is none of its entries.         *)
LEMMA ListedTail ==
  ASSUME NEW st \in Seq(Packets), st # <<>>, NEW sd \in Sendings, NEW rq,
         NEW entries, NEW more, entries \subseteq more, st[1].kind = "entry" => st[1].log \in more,
         ListFlow(st, sd, rq, entries)
  PROVE  ListFlow(Tail(st), sd, rq, more)
<1>1. /\ \A k \in DOMAIN Tail(st) : Tail(st)[k] = st[k + 1] /\ k + 1 \in DOMAIN st /\ k \in Nat
      /\ \A k \in DOMAIN st : k \in Nat \ {0} /\ st[k] \in Packets
      /\ \A k \in DOMAIN st : k > 1 => k - 1 \in DOMAIN Tail(st) /\ Tail(st)[k - 1] = st[k]
      /\ Len(Tail(st)) = Len(st) - 1 /\ Len(st) \in Nat
  BY TailFacts
<1>2. ASSUME NEW n \in Nat, NEW x, Listed(st, n + 1, entries, x)
      PROVE  Listed(Tail(st), n, more, x)
  <2> SUFFICES ASSUME NEW y \in 1 .. x - 1, y \notin more
               PROVE  \E j \in DOMAIN Tail(st) : j < n /\ Tail(st)[j].kind = "entry" /\ Tail(st)[j].log = y
    BY DEF Listed
  <2>1. PICK j \in DOMAIN st : j < n + 1 /\ st[j].kind = "entry" /\ st[j].log = y
    BY <1>2 DEF Listed
  <2>2. j # 1 /\ j \in Nat \ {0}
    BY <1>1, <2>1
  <2>3. j - 1 \in DOMAIN Tail(st) /\ Tail(st)[j - 1] = st[j] /\ j - 1 < n
    BY <1>1, <2>1, <2>2
  <2> QED BY <2>1, <2>3
<1>3. \A k \in DOMAIN Tail(st) : Tail(st)[k].kind = "entry" => Listed(Tail(st), k, more, Tail(st)[k].log)
  BY <1>1, <1>2 DEF ListFlow
<1>4. sd.kind = "List" => Listed(Tail(st), Len(Tail(st)) + 1, more, sd.next)
  <2> SUFFICES ASSUME sd.kind = "List" PROVE Listed(Tail(st), Len(st), more, sd.next)
    BY <1>1
  <2>1. Listed(st, Len(st) + 1, entries, sd.next)
    BY DEF ListFlow
  <2> QED BY <1>1, <1>2, <2>1
<1> QED BY <1>3, <1>4 DEF ListFlow

(* The FC sends the packet x, and goes on with sd or rests.                  *)
LEMMA FlowStream ==
  ASSUME NEW st \in Seq(Packets), NEW x \in Packets, NEW h, NEW rq,
         NEW old, NEW sd, Flow(st, old, rq, h),
         x.kind # "entry" => old.kind = "Data" /\ x.at = old.next,
         sd.kind = "Data" => x.kind = "data" /\ sd.next = x.at + 1
  PROVE  Flow(Append(st, x), sd, rq, h)
<1> DEFINE t == Append(st, x)
<1>1. /\ t \in Seq(Packets) /\ Len(t) = Len(st) + 1 /\ Len(st) \in Nat
      /\ DOMAIN st = 1 .. Len(st) /\ DOMAIN t = 1 .. Len(st) + 1
      /\ \A k \in 1 .. Len(st) : t[k] = st[k]
      /\ t[Len(st) + 1] = x
  BY AppendFacts
<1> HIDE DEF t
<1>2. ASSUME NEW n \in 1 .. Len(st) + 1, NEW a, Joins(st, n, h, a)
      PROVE  Joins(t, n, h, a)
  BY <1>1, <1>2 DEF Joins
<1>3. ASSUME NEW k \in DOMAIN t, t[k].kind # "entry"
      PROVE  Joins(t, k, h, t[k].at)
  <2>1. CASE k \in 1 .. Len(st)
    <3>1. Joins(st, k, h, t[k].at)
      BY <1>1, <1>3, <2>1 DEF Flow
    <3> QED BY <1>1, <1>2, <2>1, <3>1
  <2>2. CASE k = Len(st) + 1
    <3>1. Joins(st, k, h, t[k].at)
      BY <1>1, <1>3, <2>2 DEF Flow
    <3> QED BY <1>1, <1>2, <2>2, <3>1
  <2> QED BY <1>1, <2>1, <2>2
<1>4. sd.kind = "Data" => Joins(t, Len(t) + 1, h, sd.next)
  <2> SUFFICES ASSUME sd.kind = "Data" PROVE Joins(t, Len(st) + 2, h, x.at + 1)
    BY <1>1
  <2>1. Len(st) + 1 \in DOMAIN t /\ Len(st) + 1 < Len(st) + 2 /\ t[Len(st) + 1].kind = "data"
        /\ x.at + 1 <= t[Len(st) + 1].at + 1
    BY <1>1 DEF Packets
  <2> QED BY <2>1 DEF Joins
<1>5. Flow(t, sd, rq, h)
  BY <1>3, <1>4 DEF Flow
<1> QED BY <1>5 DEF t

LEMMA ListedStream ==
  ASSUME NEW st \in Seq(Packets), NEW x \in Packets, NEW entries, NEW rq,
         NEW old, NEW sd, ListFlow(st, old, rq, entries),
         x.kind = "entry" => old.kind = "List" /\ x.log = old.next,
         sd.kind # "Data",
         sd.kind = "List" => x.kind = "entry" /\ sd.next = x.log + 1
  PROVE  ListFlow(Append(st, x), sd, rq, entries)
<1> DEFINE t == Append(st, x)
<1>1. /\ t \in Seq(Packets) /\ Len(t) = Len(st) + 1 /\ Len(st) \in Nat
      /\ DOMAIN st = 1 .. Len(st) /\ DOMAIN t = 1 .. Len(st) + 1
      /\ \A k \in 1 .. Len(st) : t[k] = st[k]
      /\ t[Len(st) + 1] = x
  BY AppendFacts
<1> HIDE DEF t
<1>2. ASSUME NEW n \in 1 .. Len(st) + 1, NEW a, Listed(st, n, entries, a)
      PROVE  Listed(t, n, entries, a)
  BY <1>1, <1>2 DEF Listed
<1>3. ASSUME NEW k \in DOMAIN t, t[k].kind = "entry"
      PROVE  Listed(t, k, entries, t[k].log)
  <2>1. CASE k \in 1 .. Len(st)
    <3>1. Listed(st, k, entries, t[k].log)
      BY <1>1, <1>3, <2>1 DEF ListFlow
    <3> QED BY <1>1, <1>2, <2>1, <3>1
  <2>2. CASE k = Len(st) + 1
    <3>1. Listed(st, k, entries, t[k].log)
      BY <1>1, <1>3, <2>2 DEF ListFlow
    <3> QED BY <1>1, <1>2, <2>2, <3>1
  <2> QED BY <1>1, <2>1, <2>2
<1>4. sd.kind = "List" => Listed(t, Len(t) + 1, entries, sd.next)
  <2> SUFFICES ASSUME sd.kind = "List", NEW y \in 1 .. sd.next - 1, y \notin entries
               PROVE  \E j \in DOMAIN t : j < Len(t) + 1 /\ t[j].kind = "entry" /\ t[j].log = y
    BY DEF Listed
  <2>1. x.log \in Nat /\ sd.next = x.log + 1
    <3>1. x.log \in Logs
      BY DEF Packets
    <3> QED BY <3>1, ConstantFacts
  <2>2. Len(st) + 1 \in DOMAIN t /\ t[Len(st) + 1].kind = "entry"
    BY <1>1
  <2>3. Listed(t, Len(st) + 1, entries, x.log)
    BY <1>1, <1>3, <2>2
  <2>4. CASE y = x.log
    BY <1>1, <2>4
  <2>5. CASE y \in 1 .. x.log - 1
    <3>1. PICK j \in DOMAIN t : j < Len(st) + 1 /\ t[j].kind = "entry" /\ t[j].log = y
      BY <2>5, <2>3 DEF Listed
    <3> QED BY <1>1, <3>1
  <2>6. y = x.log \/ y \in 1 .. x.log - 1
    BY <2>1
  <2> QED BY <2>4, <2>5, <2>6
<1>5. ListFlow(t, sd, rq, entries)
  BY <1>3, <1>4 DEF ListFlow
<1> QED BY <1>5 DEF t

-----------------------------------------------------------------------------
(* The steps.                                                                *)

(* A step of download d in manager m, seen from all of them.                 *)
LEMMA StepGood ==
  ASSUME Types, WorldInv, DownInv, manager' = manager, stream' \in Seq(Packets), sending' \in Sendings,
         NEW m \in Managers, NEW d, Held(d), Settled(m, d),
         m <= manager, m # manager => Running(m) /\ d.calm <= 1,
         m = manager /\ d.calm >= 1 =>
           /\ Own(stream', sending', requests, d.log)
           /\ \A n \in Managers \ {m} : ~Running(n),
         d.calm >= 2 => Flow(stream', sending', requests, d.highest)
  PROVE  WorldInv' /\ DownInv' /\ ResultGood(result')
<1>1. PICK e : /\ down' = [down EXCEPT ![m] = e]
               /\ \/ e = NoDownload
                  \/ Waits(e) /\ e.log = d.log /\ e.highest = d.highest /\ e.calm = d.calm
  BY DEF Settled
<1>2. down'[m] = e /\ \A n \in Managers \ {m} : down'[n] = down[n]
  BY <1>1 DEF Types
<1>3. d.calm \in 0 .. 3 /\ d.highest \in Nat
  BY HeldFacts
<1>4. \A k \in DOMAIN requests' :
        \/ requests'[k].op = "End"
        \/ \E j \in DOMAIN requests : requests'[k] = requests[j]
        \/ /\ requests'[k].op = "Data" /\ requests'[k].log = d.log
           /\ d.calm >= 2 => requests'[k].from <= d.highest
  BY DEF Settled
<1>5. m = manager /\ d.calm >= 1 => Own(stream', sending', requests', d.log)
  BY <1>4 DEF Own
<1>6. d.calm >= 2 => Flow(stream', sending', requests', d.highest)
  BY <1>4 DEF Flow
<1>7. ASSUME NEW n \in Managers, down'[n] # NoDownload
      PROVE  /\ n <= manager /\ Waits(down'[n])
             /\ n # manager => down'[n].calm <= 1
             /\ n = manager /\ down'[n].calm >= 1 =>
                  /\ Own(stream', sending', requests', down'[n].log)
                  /\ \A o \in Managers \ {n} : down'[o] = NoDownload
             /\ down'[n].calm >= 2 => Flow(stream', sending', requests', down'[n].highest)
  <2>1. CASE n = m
    <3>1. e # NoDownload /\ Waits(e) /\ e.log = d.log /\ e.highest = d.highest /\ e.calm = d.calm
      BY <1>1, <1>2, <1>7, <2>1
    <3>2. m = manager /\ d.calm >= 1 => \A o \in Managers \ {n} : down'[o] = NoDownload
      BY <1>2, <2>1 DEF Running
    <3> QED BY <1>2, <1>5, <1>6, <2>1, <3>1, <3>2
  <2>2. CASE n # m
    <3>1. down'[n] = down[n] /\ Running(n)
      BY <1>2, <1>7, <2>2 DEF Running
    <3>2. /\ n <= manager /\ Waits(down[n])
          /\ n # manager => down[n].calm <= 1
          /\ n = manager /\ down[n].calm >= 1 => ~Running(m)
      BY <2>2, <3>1 DEF DownInv
    <3>3. down[n].calm \in 0 .. 3
      BY <3>2, HeldFacts DEF Waits
    <3>4. n = manager => down[n].calm = 0
      BY <2>2, <3>2, <3>3
    <3>5. down[n].calm <= 1
      BY <3>2, <3>3, <3>4
    <3> QED BY <3>1, <3>2, <3>3, <3>4, <3>5
  <2> QED BY <2>1, <2>2
<1>8. DownInv'
  BY <1>7 DEF DownInv, Running
<1>9. WorldInv' /\ ResultGood(result')
  BY DEF WorldInv, Settled
<1> QED BY <1>8, <1>9

LEMMA SettledTypes ==
  ASSUME Types, NEW m, NEW d, Settled(m, d), manager' = manager, count' \in 0 .. Downloads,
         forgotten' \subseteq 1 .. Downloads,
         available' \subseteq Logs, list' = NoList \/ (manager # 0 /\ list' \in ListShapes)
  PROVE  Types'
<1>1. PICK e : down' = [down EXCEPT ![m] = e]
  BY DEF Settled
<1>2. DOMAIN down' = Managers /\ down' = [n \in Managers |-> down'[n]]
  BY <1>1 DEF Types
<1> QED BY <1>2 DEF Types

(* An undisturbed list means no download runs.                               *)
LEMMA ListAlone ==
  ASSUME ListInv, NEW m \in Managers, Running(m)
  PROVE  list = NoList \/ list.calm # TRUE
BY DEF ListInv

LEMMA ListShapeFacts ==
  ASSUME NEW x \in ListShapes
  PROVE  /\ x # NoList
         /\ [x EXCEPT !.calm = FALSE] \in ListShapes /\ [x EXCEPT !.calm = FALSE].calm = FALSE
         /\ \A es \in SUBSET (1 .. NLogs - 1) :
              /\ [x EXCEPT !.entries = es] \in ListShapes
              /\ [x EXCEPT !.entries = es].entries = es
              /\ [x EXCEPT !.entries = es].calm = x.calm
         /\ x.entries \subseteq Logs /\ x.entries \subseteq 1 .. NLogs - 1 /\ NLogs \notin x.entries
         /\ x.calm \in BOOLEAN
<1>1. x.entries \subseteq 1 .. NLogs - 1
  BY DEF ListShapes
<1>2. None \notin x.entries /\ NLogs \notin x.entries /\ x.entries \subseteq Logs
  BY <1>1, ConstantFacts DEF None, Logs
<1>3. x # NoList
  BY <1>2 DEF NoList
<1> QED BY <1>1, <1>2, <1>3 DEF ListShapes

LEMMA DisturbedList ==
  ASSUME Types, list' = ListDisturbed
  PROVE  /\ list' = NoList \/ (manager # 0 /\ list' \in ListShapes /\ list'.calm = FALSE)
         /\ list' = NoList => list = NoList
<1>1. CASE list = NoList
  BY <1>1 DEF ListDisturbed
<1>2. CASE list # NoList
  <2>1. manager # 0 /\ list \in ListShapes
    BY <1>2 DEF Types
  <2> QED BY <1>2, <2>1, ListShapeFacts DEF ListDisturbed
<1> QED BY <1>1, <1>2

LEMMA IdleFacts ==
  /\ Idle \in Sendings /\ Idle.kind = "idle"
BY DEF Sendings, Idle, None

LEMMA BegunGood ==
  ASSUME NEW m \in Managers, NEW l \in Logs, count \in 0 .. Downloads, count < Downloads
  PROVE  LET d == Begun(l, [c \in Chunks(l) |-> None])
         IN  /\ Held(d) /\ d.log = l /\ d.highest = 0
             /\ d.calm >= 1 => ~Busy
<1> DEFINE f == [c \in Chunks(l) |-> None]
           d == Begun(l, f)
<1>1. f \in [Chunks(l) -> Marks] /\ f \in Files /\ \A c \in Chunks(l) : f[c] = None
  BY DEF Marks, Files
<1> HIDE DEF f
<1>2. /\ d \in Shapes /\ d.log = l /\ d.file = f /\ d.highest = 0 /\ d.lastHighest = 0
      /\ d.failures = 0 /\ d.burstEnd = 0 /\ (d.calm >= 1 => ~Busy)
  <2>1. d.calm = IF Busy THEN 0 ELSE 3
    BY DEF Begun
  <2>2. (IF Busy THEN 0 ELSE 3) \in 0 .. 3
    OBVIOUS
  <2>3. count + 1 \in 1 .. Downloads
    BY ConstantFacts
  <2> HIDE DEF Busy
  <2> QED BY <1>1, <2>1, <2>2, <2>3 DEF Begun, Shapes
<1> HIDE DEF d
<1>3. Size[l] \in Nat /\ Stored[l] \in Nat
  BY ConstantFacts
<1>4. \A c \in Chunks(l) : ~(c < 0)
  BY <1>3 DEF Chunks
<1>5. Held(d)
  BY <1>1, <1>2, <1>3, <1>4 DEF Held
<1> QED BY <1>2, <1>5 DEF d, f

LEMMA DownloadStep ==
  ASSUME IInv, NEW m \in Managers, NEW l \in Logs, Download(m, l)
  PROVE  IInv'
<1> DEFINE d == Begun(l, [c \in Chunks(l) |-> None])
<1>1. /\ manager = m /\ count < Downloads /\ count' = count + 1 /\ list' = ListDisturbed
      /\ forgotten' = forgotten \cup (IF Running(m) THEN {down[m].call} ELSE {})
      /\ NextBurst(m, d) /\ manager' = manager /\ available' = available
      /\ stream' = stream /\ sending' = sending
  BY DEF Download, Starts
<1>2. Held(d) /\ d.highest = 0 /\ d.log = l /\ (d.calm >= 1 => ~Busy)
  BY <1>1, BegunGood DEF IInv, Types
<1> HIDE DEF d
<1>3. Types /\ WorldInv /\ DownInv
  BY DEF IInv
<1>4. Settled(m, d)
  BY <1>1, <1>2, <1>3, NextBurstGood DEF WorldInv
<1>5. ~Busy => /\ Own(stream, sending, requests, d.log)
               /\ Flow(stream, sending, requests, d.highest)
               /\ \A n \in Managers : ~Running(n)
  BY IdleFacts DEF Busy, Own, Flow
<1>6. m <= manager /\ d.calm \in 0 .. 3
  BY <1>1, <1>2, <1>3, HeldFacts DEF Types
<1>7. WorldInv' /\ DownInv' /\ ResultGood(result')
  BY <1>1, <1>2, <1>3, <1>4, <1>5, <1>6, StepGood DEF WorldInv
<1>8. list' = NoList \/ (manager # 0 /\ list' \in ListShapes /\ list'.calm = FALSE)
  BY <1>1, <1>3, DisturbedList
<1>9. count' \in 0 .. Downloads /\ forgotten' \subseteq 1 .. Downloads
  <2>1. Running(m) => down[m].call \in 1 .. Downloads
    BY <1>3 DEF DownInv, Waits, Held, Shapes
  <2> QED BY <1>1, <1>3, <2>1, ConstantFacts DEF Types
<1>10. Types'
  BY <1>1, <1>3, <1>4, <1>8, <1>9, SettledTypes DEF Types
<1>11. ListInv'
  BY <1>8 DEF ListInv
<1> QED BY <1>7, <1>10, <1>11 DEF IInv

LEMMA RunningFacts ==
  ASSUME IInv, NEW m \in Managers, Running(m)
  PROVE  /\ Types /\ WorldInv /\ DownInv /\ ListInv
         /\ m <= manager /\ Waits(down[m]) /\ Held(down[m])
         /\ m # manager => down[m].calm <= 1
         /\ m = manager /\ down[m].calm >= 1 =>
              /\ Own(stream, sending, requests, down[m].log)
              /\ \A n \in Managers \ {m} : ~Running(n)
         /\ down[m].calm >= 2 => Flow(stream, sending, requests, down[m].highest)
BY DEF IInv, DownInv, Waits

LEMMA TimeoutStep ==
  ASSUME IInv, NEW m \in Managers, Timeout(m)
  PROVE  IInv'
<1> DEFINE d == down[m]
           e == [d EXCEPT !.calm = MinOf(@, 2)]
<1>1. /\ Running(m) /\ AfterBurst(m, e)
      /\ UNCHANGED <<manager, list, available, count, forgotten, stream, sending>>
  BY DEF Timeout, lists, calling
<1>2. /\ Types /\ WorldInv /\ DownInv /\ ListInv /\ Held(d) /\ m <= manager
      /\ m # manager => d.calm <= 1
      /\ m = manager /\ d.calm >= 1 =>
           /\ Own(stream, sending, requests, d.log)
           /\ \A n \in Managers \ {m} : ~Running(n)
      /\ d.calm >= 2 => Flow(stream, sending, requests, d.highest)
  BY <1>1, RunningFacts
<1> HIDE DEF d
<1>3. Held(e) /\ e.calm <= 2 /\ e.calm <= d.calm /\ e.log = d.log /\ e.highest = d.highest
  BY <1>2, HeldLess
<1> HIDE DEF e
<1>4. e.calm \in 0 .. 3 /\ d.calm \in 0 .. 3
  BY <1>2, <1>3, HeldFacts
<1>5. Settled(m, e)
  BY <1>1, <1>2, <1>3, <1>4, AfterBurstGood DEF WorldInv
<1>6. /\ m # manager => Running(m) /\ e.calm <= 1
      /\ m = manager /\ e.calm >= 1 =>
           /\ Own(stream, sending, requests, e.log)
           /\ \A n \in Managers \ {m} : ~Running(n)
      /\ e.calm >= 2 => Flow(stream, sending, requests, e.highest)
  BY <1>1, <1>2, <1>3, <1>4
<1>7. WorldInv' /\ DownInv' /\ ResultGood(result')
  BY <1>1, <1>2, <1>3, <1>5, <1>6, StepGood DEF WorldInv
<1>8. Types'
  BY <1>1, <1>2, <1>5, SettledTypes DEF Types
<1>9. ListInv'
  BY <1>1, <1>2, ListAlone DEF ListInv
<1> QED BY <1>7, <1>8, <1>9 DEF IInv

LEMMA ReceiveDataStep ==
  ASSUME IInv, ReceiveData
  PROVE  IInv'
<1> DEFINE m == manager
           d == down[m]
           p == Head(stream)
<1>1. /\ manager # 0 /\ Running(m) /\ stream # <<>> /\ p.kind # "entry" /\ stream' = Tail(stream)
      /\ \/ p.kind = "data" /\ Chunk(m, d, p)
         \/ p.kind = "data" /\ Throw(m, d, p)
         \/ p.kind = "end" /\ Return(m, Data(d))
      /\ UNCHANGED <<manager, list, available, count, forgotten, sending>>
  BY DEF ReceiveData, lists, calling
<1>2. m \in Managers
  BY <1>1, ConstantFacts DEF IInv, Types, Managers
<1>3. /\ Types /\ WorldInv /\ DownInv /\ ListInv /\ Waits(d) /\ Held(d) /\ m <= manager
      /\ d.calm >= 1 => /\ Own(stream, sending, requests, d.log)
                        /\ \A n \in Managers \ {m} : ~Running(n)
      /\ d.calm >= 2 => Flow(stream, sending, requests, d.highest)
  BY <1>1, <1>2, RunningFacts
<1>4. /\ stream \in Seq(Packets) /\ requests \in Seq(Asked) /\ sending \in Sendings
      /\ Tail(stream) \in Seq(Packets) /\ p \in Packets /\ p = stream[1] /\ 1 \in DOMAIN stream
      /\ \A k \in DOMAIN stream : k \in Nat \ {0}
  BY <1>1, <1>3, TailFacts DEF WorldInv
<1> HIDE DEF d, p
<1>5. /\ d.calm \in 0 .. 3 /\ d.highest \in Nat /\ Size[d.log] \in Nat /\ Stored[d.log] \in Nat
      /\ Stored[d.log] <= Size[d.log] /\ d.burstEnd \in Nat /\ d.lastHighest \in Nat
      /\ Chunks(d.log) = 0 .. Size[d.log] - 1
  BY <1>3, HeldFacts
<1>6. d.calm >= 1 => p.log = d.log
  BY <1>1, <1>3, <1>4 DEF Own
<1>7. d.calm >= 2 => p.at <= d.highest
  <2>1. d.calm >= 2 => Joins(stream, 1, d.highest, p.at)
    BY <1>1, <1>3, <1>4 DEF Flow
  <2> QED BY <1>4, <2>1 DEF Joins
<1>8. d.calm >= 1 => Own(stream', sending', requests, d.log)
  BY <1>1, <1>3, <1>4, OwnTail
<1>9. ASSUME NEW g \in Nat, d.highest <= g, p.kind = "data" => p.at + 1 <= g, d.calm >= 2
      PROVE  Flow(stream', sending', requests, g)
  BY <1>1, <1>3, <1>4, <1>5, <1>9, FlowTail
<1>10. p.at \in Nat /\ (p.kind = "data" => p.at < Stored[p.log]) /\ (p.kind = "end" => p.at >= Stored[p.log])
  BY <1>4 DEF Packets
<1>11. ASSUME NEW e, Held(e), Settled(m, e), e.log = d.log, e.calm = d.calm,
              e.calm >= 2 => Flow(stream', sending', requests, e.highest)
       PROVE  IInv'
  <2>1. e.calm >= 1 => /\ Own(stream', sending', requests, e.log)
                      /\ \A n \in Managers \ {m} : ~Running(n)
    BY <1>3, <1>8, <1>11
  <2>2. manager' = manager /\ stream' \in Seq(Packets) /\ sending' \in Sendings
    BY <1>1, <1>4
  <2>3. WorldInv' /\ DownInv' /\ ResultGood(result')
    BY <1>2, <1>3, <1>11, <2>1, <2>2, StepGood
  <2>4. /\ manager' = manager /\ count' \in 0 .. Downloads /\ available' \subseteq Logs
        /\ forgotten' \subseteq 1 .. Downloads
        /\ list' = NoList \/ (manager # 0 /\ list' \in ListShapes)
    BY <1>1, <1>3 DEF Types
  <2>5. Types'
    BY <1>3, <1>11, <2>4, SettledTypes
  <2>6. ListInv'
    BY <1>1, <1>2, <1>3, ListAlone DEF ListInv
  <2> QED BY <2>3, <2>5, <2>6 DEF IInv
<1>12. CASE p.kind = "data" /\ Chunk(m, d, p)
  <2> DEFINE e == Placed(d, p)
  <2>1. /\ p.at \in Chunks(d.log)
        /\ IF e.highest >= e.burstEnd \/ e.highest >= Size[e.log] THEN AfterBurst(m, e)
           ELSE down' = [down EXCEPT ![m] = e] /\ result' = Null /\ UNCHANGED requests
    BY <1>12 DEF Chunk
  <2>2. /\ Waits(e) /\ e.log = d.log /\ e.calm = d.calm /\ e.lastHighest = d.lastHighest
        /\ e.burstEnd = d.burstEnd /\ e.highest = MaxOf(d.highest, p.at + 1)
    BY <1>3, <1>4, <1>6, <1>7, <1>12, <2>1, PlacedGood
  <2> HIDE DEF e
  <2>3. e.highest \in Nat /\ d.highest <= e.highest /\ p.at + 1 <= e.highest
    BY <1>5, <1>10, <2>2 DEF MaxOf
  <2>4. e.calm >= 2 => Flow(stream', sending', requests, e.highest)
    BY <1>9, <2>2, <2>3
  <2>5. Held(e)
    BY <2>2 DEF Waits
  <2>6. CASE /\ e.highest >= e.burstEnd \/ e.highest >= Size[e.log]
             /\ AfterBurst(m, e)
    <3>1. e.calm = 3 => e.highest >= Size[e.log] \/ e.highest > e.lastHighest
      BY <1>5, <2>2, <2>3, <2>6 DEF Waits
    <3>2. Settled(m, e)
      BY <1>4, <2>5, <2>6, <3>1, AfterBurstGood
    <3> QED BY <1>11, <2>2, <2>4, <2>5, <3>2
  <2>7. CASE down' = [down EXCEPT ![m] = e] /\ result' = Null /\ requests' = requests
    <3>1. Settled(m, e)
      BY <1>4, <2>2, <2>7, NullGood DEF Settled
    <3> QED BY <1>11, <2>2, <2>4, <2>5, <3>1
  <2> QED BY <2>1, <2>6, <2>7
<1>13. CASE p.kind = "data" /\ Throw(m, d, p)
  <2>1. p.at \notin Chunks(d.log) /\ result' = Null /\ requests' = requests
        /\ down' = [down EXCEPT ![m] = NoDownload]
    BY <1>13 DEF Throw
  <2>2. ~(d.calm >= 2)
    BY <1>5, <1>6, <1>10, <1>13, <2>1
  <2>3. Settled(m, d)
    BY <1>4, <2>1, NullGood DEF Settled
  <2> QED BY <1>3, <1>11, <2>2, <2>3
<1>14. CASE p.kind = "end" /\ Return(m, Data(d))
  <2>1. d.calm = 3 => d.highest = Stored[d.log]
    BY <1>3, <1>5, <1>6, <1>7, <1>10, <1>14 DEF Held
  <2>2. Settled(m, d)
    BY <1>3, <1>4, <1>14, <2>1, DataGood, ReturnGood
  <2>3. d.calm >= 2 => Flow(stream', sending', requests, d.highest)
    BY <1>5, <1>9, <1>14
  <2> QED BY <1>3, <1>11, <2>2, <2>3
<1> QED BY <1>1, <1>12, <1>13, <1>14

(* What is resolved is a list the user may see.                              *)
LEMMA ResolveFacts ==
  ASSUME Types, list # NoList
  PROVE  /\ list \in ListShapes /\ manager # 0 /\ manager \in Managers
         /\ list.entries \subseteq Logs /\ NLogs \notin list.entries
<1>1. list \in ListShapes /\ manager # 0
  BY DEF Types
<1>2. manager \in Managers
  BY <1>1, ConstantFacts DEF Types, Managers
<1> QED BY <1>1, <1>2, ListShapeFacts

LEMMA CancelStep ==
  ASSUME IInv, Cancel
  PROVE  IInv'
<1> DEFINE m == manager
           d == down[m]
<1>1. /\ m # 0
      /\ \/ Running(m) /\ Return(m, IF d.highest >= Size[d.log] THEN Data(d) ELSE Null)
         \/ ~Running(m) /\ list # NoList /\ result' = Null /\ requests' = requests /\ down' = down
      /\ \/ list # NoList /\ list' = NoList /\ available' = list.entries
         \/ list = NoList /\ list' = list /\ available' = available
      /\ UNCHANGED <<manager, count, forgotten, stream, sending>>
  BY DEF Cancel, Resolve, calling
<1>2. Types /\ WorldInv /\ DownInv /\ m \in Managers
  BY <1>1, ConstantFacts DEF IInv, Types, Managers
<1>3. list' = NoList /\ available' \subseteq Logs /\ ListInv'
  BY <1>1, <1>2, ResolveFacts DEF Types, ListInv
<1>4. CASE Running(m) /\ Return(m, IF d.highest >= Size[d.log] THEN Data(d) ELSE Null)
  <2>1. /\ Held(d) /\ m <= manager
        /\ d.calm >= 1 => /\ Own(stream, sending, requests, d.log)
                          /\ \A n \in Managers \ {m} : ~Running(n)
        /\ d.calm >= 2 => Flow(stream, sending, requests, d.highest)
    BY <1>2, <1>4, RunningFacts
  <2> HIDE DEF d
  <2>2. d.highest >= Size[d.log] /\ d.calm = 3 => d.highest = Stored[d.log]
    BY <2>1, HeldFacts DEF Held
  <2>3. ResultGood(IF d.highest >= Size[d.log] THEN Data(d) ELSE Null)
    BY <2>1, <2>2, DataGood, NullGood
  <2>4. Settled(m, d)
    BY <1>2, <1>4, <2>3, ReturnGood DEF WorldInv
  <2>5. WorldInv' /\ DownInv' /\ ResultGood(result')
    BY <1>1, <1>2, <2>1, <2>4, StepGood DEF WorldInv
  <2>6. Types'
    BY <1>1, <1>2, <1>3, <2>4, SettledTypes DEF Types
  <2> QED BY <1>3, <2>5, <2>6 DEF IInv
<1>5. CASE result' = Null /\ requests' = requests /\ down' = down
  <2>1. Types' /\ WorldInv' /\ DownInv'
    BY <1>1, <1>2, <1>3, <1>5 DEF Types, WorldInv, DownInv, Running
  <2> QED BY <1>3, <1>5, <2>1, NullGood DEF IInv
<1> QED BY <1>1, <1>4, <1>5

(* Something happens to every download under way.                            *)
LEMMA DisturbedDown ==
  ASSUME Types, DownInv, down' = DownDisturbed
  PROVE  /\ DOMAIN down' = Managers /\ down' = [m \in Managers |-> down'[m]]
         /\ \A m \in Managers :
              /\ Running(m)' = Running(m)
              /\ Running(m) => /\ Waits(down'[m]) /\ down'[m].calm <= 1
                               /\ down'[m].calm \in 0 .. 3
                               /\ down'[m].log = down[m].log /\ down'[m].calm <= down[m].calm
<1>1. DOMAIN down' = Managers /\ down' = [m \in Managers |-> down'[m]]
  BY DEF DownDisturbed
<1>2. ASSUME NEW m \in Managers
      PROVE  /\ Running(m)' = Running(m)
             /\ Running(m) => /\ Waits(down'[m]) /\ down'[m].calm <= 1
                              /\ down'[m].calm \in 0 .. 3
                              /\ down'[m].log = down[m].log /\ down'[m].calm <= down[m].calm
  <2>1. CASE Running(m)
    <3> DEFINE d == down[m]
               e == [d EXCEPT !.calm = MinOf(@, 1)]
    <3>1. down'[m] = e
      BY <2>1 DEF DownDisturbed
    <3>2. Waits(d)
      BY <2>1 DEF DownInv
    <3> HIDE DEF d
    <3>3. /\ Held(e) /\ e.calm <= 1 /\ e.calm <= d.calm
          /\ e.log = d.log /\ e.highest = d.highest /\ e.lastHighest = d.lastHighest
          /\ e.burstEnd = d.burstEnd /\ e.failures = d.failures
      BY <3>2, HeldLess DEF Waits
    <3> HIDE DEF e
    <3>4. e.calm \in 0 .. 3 /\ e # NoDownload
      BY <3>3, HeldFacts
    <3>5. Waits(e)
      BY <3>2, <3>3, <3>4 DEF Waits
    <3> QED BY <2>1, <3>1, <3>3, <3>4, <3>5 DEF Running, d
  <2>2. CASE ~Running(m)
    <3>1. down'[m] = down[m]
      BY <2>2 DEF DownDisturbed
    <3> QED BY <2>2, <3>1 DEF Running
  <2> QED BY <2>1, <2>2
<1> QED BY <1>1, <1>2

LEMMA ListRequestStep ==
  ASSUME IInv, ListRequest
  PROVE  IInv'
<1>1. /\ list = NoList /\ manager < Lists /\ manager' = manager + 1
      /\ list' = [entries |-> {}, calm |-> ~Busy]
      /\ requests' = Request("List", None, 1, NLogs + 1)
      /\ down' = DownDisturbed /\ result' = Null
      /\ UNCHANGED <<available, count, forgotten, stream, sending>>
  BY DEF ListRequest, calling
<1>2. Types /\ WorldInv /\ DownInv /\ manager \in Nat /\ manager' \in 0 .. Lists /\ manager' # 0
  BY <1>1, ConstantFacts DEF IInv, Types
<1> DEFINE x == [op |-> "List", log |-> None, from |-> 1, end |-> NLogs + 1]
<1>3. x \in Asked /\ x.op = "List"
  BY ConstantFacts DEF Asked, None
<1>4. /\ requests' \in Seq(Asked)
      /\ \A k \in DOMAIN requests' : requests'[k] = x \/ \E j \in DOMAIN requests : requests'[k] = requests[j]
  BY <1>1, <1>2, <1>3, RequestFacts DEF WorldInv
<1> HIDE DEF x
<1>5. /\ DOMAIN down' = Managers /\ down' = [m \in Managers |-> down'[m]]
      /\ \A m \in Managers :
           /\ Running(m)' = Running(m)
           /\ Running(m) => Waits(down'[m]) /\ down'[m].calm <= 1 /\ down'[m].calm \in 0 .. 3
  BY <1>1, <1>2, DisturbedDown
<1>6. DownInv'
  <2> SUFFICES ASSUME NEW m \in Managers, Running(m)'
               PROVE  /\ m <= manager' /\ m # manager' /\ Waits(down'[m]) /\ down'[m].calm <= 1
                      /\ ~(down'[m].calm >= 2)
    BY DEF DownInv
  <2>1. Running(m) /\ m \in Nat
    BY <1>5 DEF Managers
  <2>2. m <= manager
    BY <1>2, <2>1 DEF DownInv
  <2> QED BY <1>1, <1>2, <1>5, <2>1, <2>2
<1>7. Types'
  <2>1. (~Busy) \in BOOLEAN
    OBVIOUS
  <2>2. list' \in ListShapes
    BY <1>1, <2>1 DEF ListShapes
  <2> QED BY <1>1, <1>2, <1>5, <2>2 DEF Types
<1>8. ListInv'
  <2> SUFFICES ASSUME ~Busy
               PROVE  ListFlow(stream', sending', requests', list'.entries) /\ \A m \in Managers : ~Running(m)'
    BY <1>1 DEF ListInv
  <2>1. /\ stream = <<>> /\ sending = Idle /\ \A i \in DOMAIN requests : requests[i].op = "End"
        /\ \A m \in Managers : ~Running(m)
    BY DEF Busy
  <2>2. \A k \in DOMAIN requests' : requests'[k].op # "Data"
    BY <1>3, <1>4, <2>1
  <2>3. ListFlow(stream', sending', requests', list'.entries)
    BY <1>1, <2>1, <2>2, IdleFacts DEF ListFlow
  <2> QED BY <1>5, <2>1, <2>3
<1>9. WorldInv'
  BY <1>1, <1>2, <1>4 DEF WorldInv
<1> QED BY <1>1, <1>6, <1>7, <1>8, <1>9, NullGood DEF IInv

LEMMA ReceiveEntryStep ==
  ASSUME IInv, ReceiveEntry
  PROVE  IInv'
<1> DEFINE p == Head(stream)
           es == list.entries \cup {p.log}
<1>1. /\ list # NoList /\ stream # <<>> /\ p.kind = "entry" /\ stream' = Tail(stream) /\ result' = Null
      /\ \/ p.log = NLogs /\ list' = NoList /\ available' = es
         \/ p.log # NLogs /\ list' = [list EXCEPT !.entries = es] /\ available' = available
      /\ UNCHANGED <<manager, down, count, forgotten, requests, sending>>
  BY DEF ReceiveEntry, Entry, Resolve, calling
<1>2. Types /\ WorldInv /\ DownInv /\ ListInv /\ list \in ListShapes
  BY <1>1, ResolveFacts DEF IInv
<1>3. /\ stream \in Seq(Packets) /\ requests \in Seq(Asked) /\ sending \in Sendings
      /\ Tail(stream) \in Seq(Packets) /\ p \in Packets /\ p = stream[1]
  BY <1>1, <1>2, TailFacts DEF WorldInv
<1> HIDE DEF p
<1>4. p.log \in Logs
  BY <1>3 DEF Packets
<1>5. es \subseteq Logs /\ (p.log # NLogs => es \in SUBSET (1 .. NLogs - 1))
  <2>1. list.entries \subseteq Logs /\ list.entries \subseteq 1 .. NLogs - 1
    BY <1>2, ListShapeFacts
  <2>2. p.log # NLogs => p.log \in 1 .. NLogs - 1
    BY <1>4, ConstantFacts DEF Logs
  <2> QED BY <1>4, <2>1, <2>2
<1>6. list.entries \subseteq es /\ p.log \in es
  OBVIOUS
<1> HIDE DEF es
<1>7. Types'
  <2>1. list' = NoList \/ (manager # 0 /\ list' \in ListShapes)
    BY <1>1, <1>2, <1>5, ListShapeFacts, ResolveFacts
  <2>2. available' \subseteq Logs
    BY <1>1, <1>2, <1>5 DEF Types
  <2> QED BY <1>1, <1>2, <2>1, <2>2 DEF Types
<1>8. WorldInv'
  BY <1>1, <1>3 DEF WorldInv
<1>9. DownInv'
  <2>1. ASSUME NEW m \in Managers, Running(m)
        PROVE  /\ down[m].calm >= 2 => Flow(stream', sending', requests', down[m].highest)
               /\ m = manager /\ down[m].calm >= 1 =>
                    /\ Own(stream', sending', requests', down[m].log)
                    /\ \A n \in Managers \ {m} : ~Running(n)
    <3>1. down[m].highest \in Nat
      BY <1>2, <2>1, HeldFacts DEF DownInv, Waits
    <3>2. /\ down[m].calm >= 2 => Flow(stream, sending, requests, down[m].highest)
          /\ m = manager /\ down[m].calm >= 1 =>
               /\ Own(stream, sending, requests, down[m].log)
               /\ \A n \in Managers \ {m} : ~Running(n)
      BY <1>2, <2>1 DEF DownInv
    <3> QED BY <1>1, <1>3, <3>1, <3>2, FlowTail, OwnTail, SMTT(30)
  <2>2. \A m \in Managers : Running(m)' = Running(m)
    BY <1>1 DEF Running
  <2> QED BY <1>1, <1>2, <2>1, <2>2 DEF DownInv
<1>10. ListInv'
  <2> SUFFICES ASSUME list' # NoList, list'.calm = TRUE
               PROVE  /\ ListFlow(stream', sending', requests', list'.entries)
                      /\ \A m \in Managers : ~Running(m)'
    BY DEF ListInv
  <2>1. list' = [list EXCEPT !.entries = es] /\ p.log # NLogs
    BY <1>1
  <2>2. list'.entries = es /\ list'.calm = list.calm
    BY <1>2, <1>5, <2>1, ListShapeFacts
  <2>3. ListFlow(stream, sending, requests, list.entries) /\ \A m \in Managers : ~Running(m)
    BY <1>1, <1>2, <2>2 DEF ListInv
  <2>4. ListFlow(Tail(stream), sending, requests, es)
    BY <1>1, <1>3, <1>6, <2>3, ListedTail
  <2> QED BY <1>1, <2>2, <2>3, <2>4 DEF Running
<1> QED BY <1>1, <1>7, <1>8, <1>9, <1>10, NullGood DEF IInv

LEMMA ListTimeoutStep ==
  ASSUME IInv, ListTimeout
  PROVE  IInv'
<1>1. /\ list # NoList /\ list' = NoList /\ available' = list.entries /\ result' = Null
      /\ UNCHANGED <<manager, down, count, forgotten, requests, stream, sending>>
  BY DEF ListTimeout, Resolve, calling
<1>2. Types /\ WorldInv /\ DownInv /\ list.entries \subseteq Logs
  BY <1>1, ResolveFacts DEF IInv
<1>3. Types' /\ WorldInv' /\ DownInv' /\ ListInv'
  BY <1>1, <1>2 DEF Types, WorldInv, DownInv, ListInv, Running
<1> QED BY <1>1, <1>3, NullGood DEF IInv

LEMMA AcceptStep ==
  ASSUME IInv, Accept
  PROVE  IInv'
<1> DEFINE q == Head(requests)
<1>1. /\ requests # <<>> /\ requests' = Tail(requests)
      /\ \/ q.op = "End" /\ sending' = Idle
         \/ /\ q.op # "End"
            /\ sending' = [kind |-> q.op, log |-> q.log, next |-> q.from, end |-> q.end]
      /\ result' = Null
      /\ UNCHANGED <<manager, list, available, down, count, forgotten, stream>>
  BY DEF Accept, client, lists, calling
<1>2. Types /\ WorldInv /\ DownInv /\ ListInv
  BY DEF IInv
<1>3. /\ q \in Asked /\ q = requests[1] /\ 1 \in DOMAIN requests /\ Tail(requests) \in Seq(Asked)
      /\ \A k \in DOMAIN Tail(requests) : Tail(requests)[k] = requests[k + 1] /\ k + 1 \in DOMAIN requests
  BY <1>1, <1>2, TailFacts DEF WorldInv
<1> HIDE DEF q
<1>4. /\ sending' \in Sendings
      /\ sending'.kind = "Data" => q.op = "Data" /\ sending'.log = q.log /\ sending'.next = q.from
      /\ sending'.kind = "List" => sending'.next = 1
      /\ sending'.kind # "Data" \/ q.op = "Data"
  <2>1. CASE q.op = "End" /\ sending' = Idle
    BY <2>1, IdleFacts
  <2>2. CASE q.op # "End" /\ sending' = [kind |-> q.op, log |-> q.log, next |-> q.from, end |-> q.end]
    <3>1. /\ q.op \in {"List", "Data"} /\ q.log \in Nat /\ q.from \in Nat /\ q.end \in Nat
          /\ q.op = "List" => q.from = 1 /\ q.end = NLogs + 1
          /\ q.op = "Data" => q.log \in Logs
      BY <1>3, <2>2 DEF Asked
    <3>2. 1 \in Logs
      BY ConstantFacts DEF Logs
    <3>3. /\ sending' \in [kind : {"idle", "List", "Data"}, log : Nat, next : Nat, end : Nat]
          /\ sending'.kind = q.op /\ sending'.log = q.log /\ sending'.next = q.from /\ sending'.end = q.end
      BY <2>2, <3>1
    <3> QED BY <3>1, <3>2, <3>3 DEF Sendings
  <2> QED BY <1>1, <2>1, <2>2
<1>5. WorldInv' /\ Types'
  BY <1>1, <1>2, <1>3, <1>4 DEF WorldInv, Types
<1>6. ASSUME NEW l, Own(stream, sending, requests, l)
      PROVE  Own(stream', sending', requests', l)
  BY <1>1, <1>3, <1>4, <1>6 DEF Own
<1>7. ASSUME NEW h, Flow(stream, sending, requests, h)
      PROVE  Flow(stream', sending', requests', h)
  BY <1>1, <1>3, <1>4, <1>7 DEF Flow, Joins
<1>8. ASSUME NEW es, ListFlow(stream, sending, requests, es)
      PROVE  ListFlow(stream', sending', requests', es)
  BY <1>1, <1>3, <1>4, <1>8 DEF ListFlow, Listed
<1>9. DownInv' /\ ListInv'
  BY <1>1, <1>2, <1>6, <1>7, <1>8 DEF DownInv, ListInv, Running
<1> QED BY <1>1, <1>5, <1>9, NullGood DEF IInv

LEMMA StreamStep ==
  ASSUME IInv, Stream
  PROVE  IInv'
<1> DEFINE l == sending.log
           n == sending.next
           end == sending.kind = "Data" /\ n >= Stored[l]
           x == IF sending.kind = "List" THEN [kind |-> "entry", log |-> n, at |-> 0]
                ELSE [kind |-> IF end THEN "end" ELSE "data", log |-> l, at |-> n]
<1>1. /\ sending # Idle /\ stream' = Append(stream, x)
      /\ sending' = IF end \/ n + 1 >= sending.end THEN Idle ELSE [sending EXCEPT !.next = n + 1]
      /\ result' = Null
      /\ UNCHANGED <<manager, list, available, down, count, forgotten, requests>>
  BY DEF Stream, client, lists, calling
<1>2. Types /\ WorldInv /\ DownInv /\ ListInv
  BY DEF IInv
<1>3. stream \in Seq(Packets) /\ requests \in Seq(Asked) /\ sending \in Sendings
  BY <1>2 DEF WorldInv
<1>4. /\ sending.kind \in {"List", "Data"} /\ n \in Nat /\ sending.end \in Nat
      /\ sending.kind = "List" => n \in Logs /\ sending.end = NLogs + 1
      /\ sending.kind = "Data" => l \in Logs /\ Stored[l] \in Nat
  BY <1>1, <1>3, ConstantFacts DEF Sendings
<1>5. /\ x \in Packets
      /\ x.kind # "entry" => sending.kind = "Data" /\ x.log = l /\ x.at = n
      /\ x.kind = "entry" => sending.kind = "List" /\ x.log = n
      /\ x.kind = "end" => end
      /\ sending.kind = "List" => x.kind = "entry"
      /\ sending.kind = "Data" => x.kind = IF end THEN "end" ELSE "data"
  <2>1. CASE sending.kind = "List"
    BY <1>4, <2>1 DEF Packets
  <2>2. CASE sending.kind = "Data" /\ end
    BY <1>4, <2>2 DEF Packets
  <2>3. CASE sending.kind = "Data" /\ ~end
    BY <1>4, <2>3 DEF Packets
  <2> QED BY <1>4, <2>1, <2>2, <2>3
<1>6. /\ sending' \in Sendings
      /\ sending'.kind = "Data" => /\ sending.kind = "Data" /\ x.kind = "data"
                                   /\ sending'.log = l /\ sending'.next = n + 1
      /\ sending'.kind = "List" => /\ sending.kind = "List" /\ sending'.next = n + 1
  <2>1. CASE sending' = Idle
    BY <2>1, IdleFacts
  <2>2. CASE ~end /\ n + 1 < sending.end /\ sending' = [sending EXCEPT !.next = n + 1]
    <3> HIDE DEF x, l
    <3>1. /\ sending' \in [kind : {"idle", "List", "Data"}, log : Nat, next : Nat, end : Nat]
          /\ sending'.kind = sending.kind /\ sending'.log = sending.log
          /\ sending'.next = n + 1 /\ sending'.end = sending.end
      BY <1>3, <1>4, <2>2 DEF Sendings
    <3>2. sending.kind = "List" => n + 1 \in Logs
      BY <1>4, <2>2, ConstantFacts DEF Logs
    <3>3. sending' \in Sendings
      BY <1>4, <3>1, <3>2 DEF Sendings, l
    <3> QED BY <1>5, <2>2, <3>1, <3>3 DEF l
  <2>3. \/ sending' = Idle
        \/ ~end /\ n + 1 < sending.end /\ sending' = [sending EXCEPT !.next = n + 1]
    BY <1>1, <1>4
  <2> QED BY <2>1, <2>2, <2>3
<1> HIDE DEF x, end
<1>7. WorldInv' /\ Types'
  BY <1>1, <1>2, <1>3, <1>5, <1>6, AppendFacts DEF WorldInv, Types
<1>8. ASSUME NEW k, Own(stream, sending, requests, k)
      PROVE  Own(stream', sending', requests', k)
  <2>1. /\ DOMAIN stream = 1 .. Len(stream) /\ DOMAIN stream' = 1 .. Len(stream) + 1 /\ Len(stream) \in Nat
        /\ \A i \in 1 .. Len(stream) : stream'[i] = stream[i]
        /\ stream'[Len(stream) + 1] = x
    BY <1>1, <1>3, <1>5, AppendFacts
  <2>2. \A i \in DOMAIN stream' : i \in 1 .. Len(stream) \/ i = Len(stream) + 1
    BY <2>1
  <2>3. \A i \in DOMAIN stream' : stream'[i].kind # "entry" => stream'[i].log = k
    BY <1>5, <1>8, <2>1, <2>2 DEF Own
  <2> QED BY <1>1, <1>6, <1>8, <2>3 DEF Own
<1>9. ASSUME NEW h, Flow(stream, sending, requests, h)
      PROVE  Flow(stream', sending', requests', h)
  BY <1>1, <1>3, <1>5, <1>6, <1>9, FlowStream
<1>10. ASSUME NEW es, ListFlow(stream, sending, requests, es)
       PROVE  ListFlow(stream', sending', requests', es)
  <2>1. sending.kind # "Data"
    BY <1>10 DEF ListFlow
  <2> QED BY <1>1, <1>3, <1>5, <1>6, <1>10, <2>1, ListedStream
<1>11. DownInv' /\ ListInv'
  BY <1>1, <1>2, <1>8, <1>9, <1>10 DEF DownInv, ListInv, Running
<1> QED BY <1>1, <1>7, <1>11, NullGood DEF IInv

LEMMA LoseStep ==
  ASSUME IInv, LoseRequest \/ LosePacket
  PROVE  IInv'
<1>1. /\ down' = DownDisturbed /\ list' = ListDisturbed /\ result' = Null
      /\ UNCHANGED <<manager, available, count, forgotten, sending>>
      /\ \/ requests # <<>> /\ requests' = Tail(requests) /\ stream' = stream
         \/ stream # <<>> /\ stream' = Tail(stream) /\ requests' = requests
  BY DEF LoseRequest, LosePacket, Disturbs, calling
<1>2. Types /\ WorldInv /\ DownInv /\ ListInv
  BY DEF IInv
<1>3. stream \in Seq(Packets) /\ requests \in Seq(Asked) /\ sending \in Sendings
  BY <1>2 DEF WorldInv
<1>4. requests # <<>> =>
        /\ Tail(requests) \in Seq(Asked)
        /\ \A k \in DOMAIN Tail(requests) : Tail(requests)[k] = requests[k + 1] /\ k + 1 \in DOMAIN requests
  BY <1>3, TailFacts
<1>5. WorldInv'
  <2>1. stream # <<>> => Tail(stream) \in Seq(Packets)
    BY <1>3, TailFacts
  <2> QED BY <1>1, <1>3, <1>4, <2>1 DEF WorldInv
<1>6. ASSUME NEW l, Own(stream, sending, requests, l)
      PROVE  Own(stream', sending', requests', l)
  <2>1. CASE requests # <<>> /\ requests' = Tail(requests) /\ stream' = stream
    BY <1>1, <1>4, <1>6, <2>1 DEF Own
  <2>2. CASE stream # <<>> /\ stream' = Tail(stream) /\ requests' = requests
    BY <1>1, <1>3, <1>6, <2>2, OwnTail
  <2> QED BY <1>1, <2>1, <2>2
<1>7. /\ DOMAIN down' = Managers /\ down' = [m \in Managers |-> down'[m]]
      /\ \A m \in Managers :
           /\ Running(m)' = Running(m)
           /\ Running(m) => /\ Waits(down'[m]) /\ down'[m].calm <= 1 /\ down'[m].calm \in 0 .. 3
                            /\ down'[m].log = down[m].log /\ down'[m].calm <= down[m].calm
  BY <1>1, <1>2, DisturbedDown
<1>8. DownInv'
  <2> SUFFICES ASSUME NEW m \in Managers, Running(m)'
               PROVE  /\ m <= manager' /\ Waits(down'[m]) /\ down'[m].calm <= 1
                      /\ ~(down'[m].calm >= 2)
                      /\ m = manager' /\ down'[m].calm >= 1 =>
                           /\ Own(stream', sending', requests', down'[m].log)
                           /\ \A n \in Managers \ {m} : ~Running(n)'
    BY DEF DownInv
  <2>1. Running(m) /\ Waits(down'[m]) /\ down'[m].calm <= 1 /\ down'[m].calm \in 0 .. 3
        /\ down'[m].log = down[m].log /\ down'[m].calm <= down[m].calm
    BY <1>7
  <2>2. /\ m <= manager /\ down[m].calm \in 0 .. 3
        /\ m = manager /\ down[m].calm >= 1 =>
             Own(stream, sending, requests, down[m].log) /\ \A n \in Managers \ {m} : ~Running(n)
    BY <1>2, <2>1, HeldFacts DEF DownInv, Waits
  <2>3. down'[m].calm >= 1 => down[m].calm >= 1
    BY <2>1, <2>2
  <2>4. ~(down'[m].calm >= 2)
    BY <2>1
  <2> QED BY <1>1, <1>6, <1>7, <2>1, <2>2, <2>3, <2>4
<1>9. list' = NoList \/ (manager # 0 /\ list' \in ListShapes /\ list'.calm = FALSE)
  BY <1>1, <1>2, DisturbedList
<1>10. Types' /\ ListInv'
  BY <1>1, <1>2, <1>7, <1>9 DEF Types, ListInv
<1> QED BY <1>1, <1>5, <1>8, <1>10, NullGood DEF IInv

-----------------------------------------------------------------------------
(* The theorems.                                                             *)

LEMMA InitGood == Init => IInv
<1> SUFFICES ASSUME Init PROVE IInv
  OBVIOUS
<1>1. /\ manager = 0 /\ list = NoList /\ available = {}
      /\ down = [m \in Managers |-> NoDownload]
      /\ result = Null /\ count = 0 /\ forgotten = {}
      /\ requests = <<>> /\ stream = <<>> /\ sending = Idle
  BY DEF Init
<1>2. Types
  BY <1>1, ConstantFacts DEF Types
<1>3. WorldInv
  BY <1>1, IdleFacts DEF WorldInv
<1>4. DownInv /\ ListInv
  BY <1>1 DEF DownInv, ListInv, Running
<1> QED BY <1>1, <1>2, <1>3, <1>4, NullGood DEF IInv

LEMMA StutterGood ==
  ASSUME IInv, UNCHANGED vars
  PROVE  IInv'
<1>1. UNCHANGED <<manager, list, available, down, count, forgotten, result, requests, stream, sending>>
  BY DEF vars, client, lists, calling
<1>2. Types' /\ WorldInv'
  BY <1>1 DEF IInv, Types, WorldInv
<1>3. DownInv' /\ ListInv'
  BY <1>1 DEF IInv, DownInv, ListInv, Running
<1> QED BY <1>1, <1>2, <1>3 DEF IInv, ResultGood

LEMMA NextGood ==
  ASSUME IInv, [Next]_vars
  PROVE  IInv'
<1>1. ASSUME NEW m \in Managers, NEW l \in Logs, Download(m, l) PROVE IInv'
  BY <1>1, DownloadStep
<1>2. ASSUME NEW m \in Managers, Timeout(m) PROVE IInv'
  BY <1>2, TimeoutStep
<1>3. CASE ListTimeout
  BY <1>3, ListTimeoutStep
<1>4. CASE ListRequest
  BY <1>4, ListRequestStep
<1>5. CASE ReceiveEntry
  BY <1>5, ReceiveEntryStep
<1>6. CASE ReceiveData
  BY <1>6, ReceiveDataStep
<1>7. CASE Cancel
  BY <1>7, CancelStep
<1>8. CASE Accept
  BY <1>8, AcceptStep
<1>9. CASE Stream
  BY <1>9, StreamStep
<1>10. CASE LoseRequest \/ LosePacket
  BY <1>10, LoseStep
<1>11. CASE Rest \/ UNCHANGED vars
  BY <1>11, StutterGood DEF Rest
<1> QED BY <1>1, <1>2, <1>3, <1>4, <1>5, <1>6, <1>7, <1>8, <1>9, <1>10, <1>11 DEF Next, Timers

(* The inductive invariant holds in every reachable state, with any number   *)
(* of lists and downloads and any losses.                                    *)
THEOREM LogInvariance == Spec => []IInv
<1>1. Init => IInv
  BY InitGood
<1>2. IInv /\ [Next]_vars => IInv'
  BY NextGood
<1> QED BY <1>1, <1>2, PTL DEF Spec

(* The state of the list and of every download keeps its type and bounds:    *)
(* nothing is placed outside the file and no download outlives its retries.  *)
THEOREM LogTypeCorrect == Spec => []TypeOK
<1>1. IInv => TypeOK
  <2> SUFFICES ASSUME IInv PROVE TypeOK
    OBVIOUS
  <2>1. Types /\ DownInv
    BY DEF IInv
  <2>2. list = NoList \/ (manager # 0 /\ list.entries \subseteq 1 .. NLogs - 1)
    BY <2>1, ListShapeFacts DEF Types
  <2>3. ASSUME NEW m \in Managers, Running(m)
        PROVE  /\ m <= manager /\ down[m].log \in Logs /\ down[m].call \in 1 .. Downloads
               /\ down[m].file \in [Chunks(down[m].log) -> Logs \cup {None}]
               /\ down[m].highest \in 0 .. Size[down[m].log]
               /\ down[m].lastHighest \in 0 .. down[m].highest
               /\ down[m].burstEnd \in 0 .. Size[down[m].log]
               /\ down[m].failures \in 0 .. MaxRetries - 1
    <3>1. m <= manager /\ Waits(down[m])
      BY <2>1, <2>3 DEF DownInv
    <3>2. down[m].call \in 1 .. Downloads
      BY <3>1 DEF Waits, Held, Shapes
    <3> QED BY <3>1, <3>2, HeldFacts, ConstantFacts, SMTT(30) DEF Waits, Held, Marks
  <2> QED BY <2>1, <2>2, <2>3 DEF Types, TypeOK
<1> QED BY <1>1, LogInvariance, PTL

(* "Download a specific log by ID": a download that began with nothing else  *)
(* about returns chunks of no other log.                                     *)
THEOREM OwnChunksOnly == Spec => []OwnLog
<1>1. IInv => OwnLog
  BY DEF IInv, ResultGood, OwnLog
<1> QED BY <1>1, LogInvariance, PTL

(* The retry loop, which asks again from the first gap, leaves no hole in    *)
(* what it returns when the link has lost nothing.                           *)
THEOREM NoHoleWithoutLoss == Spec => []HolesOnlyFromLoss
<1>1. IInv => HolesOnlyFromLoss
  BY DEF IInv, ResultGood, HolesOnlyFromLoss
<1> QED BY <1>1, LogInvariance, PTL

(* A download that nothing disturbed returns the whole log.                  *)
THEOREM WholeLog == Spec => []WholeWhenUndisturbed
<1>1. IInv => WholeWhenUndisturbed
  BY DEF IInv, ResultGood, WholeWhenUndisturbed
<1> QED BY <1>1, LogInvariance, PTL

(* "If we've received all entries, resolve immediately": a list that nothing *)
(* disturbed and that has its last entry has them all.                       *)
THEOREM ListComplete == Spec => ListWhole
<1> DEFINE A == list # NoList /\ list.calm /\ list' = NoList /\ NLogs \in available' =>
                  available' = Logs
<1>1. IInv /\ [Next]_vars => [A]_vars
  <2> SUFFICES ASSUME IInv, Next, list # NoList, list.calm, list' = NoList, NLogs \in available'
               PROVE  available' = Logs
    OBVIOUS
  <2>1. /\ Types /\ list \in ListShapes /\ NLogs \notin list.entries
        /\ list.entries \subseteq 1 .. NLogs - 1
    BY ResolveFacts, ListShapeFacts DEF IInv
  <2>2. list' # list
    OBVIOUS
  <2>3. CASE ReceiveEntry
    <3> DEFINE p == Head(stream)
    <3>1. /\ stream # <<>> /\ p.kind = "entry"
          /\ \/ p.log = NLogs /\ available' = list.entries \cup {p.log}
             \/ p.log # NLogs /\ list' = [list EXCEPT !.entries = list.entries \cup {p.log}]
      BY <2>3 DEF ReceiveEntry, Entry, Resolve
    <3>2. stream \in Seq(Packets) /\ ListFlow(stream, sending, requests, list.entries)
      <4>1. list.calm = TRUE
        BY <2>1, ListShapeFacts
      <4> QED BY <4>1 DEF IInv, WorldInv, ListInv
    <3>3. p \in Packets /\ p = stream[1] /\ 1 \in DOMAIN stream /\ \A k \in DOMAIN stream : k \in Nat \ {0}
      BY <3>1, <3>2, TailFacts
    <3> HIDE DEF p
    <3>4. p.log \in Logs
      BY <3>3 DEF Packets
    <3>5. p.log # NLogs => FALSE
      <4> SUFFICES ASSUME p.log # NLogs PROVE FALSE
        OBVIOUS
      <4>1. list.entries \cup {p.log} \in SUBSET (1 .. NLogs - 1)
        BY <2>1, <3>4, ConstantFacts DEF Logs
      <4>2. list' \in ListShapes
        BY <2>1, <3>1, <4>1, ListShapeFacts
      <4> QED BY <4>2, ListShapeFacts
    <3>6. Listed(stream, 1, list.entries, NLogs)
      BY <3>1, <3>2, <3>3, <3>5 DEF ListFlow
    <3>7. \A y \in 1 .. NLogs - 1 : y \in list.entries
      BY <3>3, <3>6 DEF Listed
    <3>8. available' = list.entries \cup {NLogs}
      BY <3>1, <3>5
    <3>9. \A y \in 1 .. NLogs : y \in 1 .. NLogs - 1 \/ y = NLogs
      BY ConstantFacts
    <3>10. \A y \in list.entries : y \in 1 .. NLogs
      BY <2>1, ConstantFacts
    <3>11. NLogs \in 1 .. NLogs
      BY ConstantFacts
    <3> QED BY <3>7, <3>8, <3>9, <3>10, <3>11 DEF Logs
  <2>4. CASE ListTimeout
    BY <2>1, <2>4 DEF ListTimeout, Resolve
  <2>5. CASE Cancel
    BY <2>1, <2>5 DEF Cancel, Resolve
  <2>6. ~ListRequest
    BY DEF ListRequest
  <2>7. list' # ListDisturbed
    BY <2>1, DisturbedList
  <2>8. ASSUME NEW m \in Managers, NEW l \in Logs PROVE ~Download(m, l)
    BY <2>7 DEF Download, Starts
  <2>9. ~LoseRequest /\ ~LosePacket
    BY <2>7 DEF LoseRequest, LosePacket, Disturbs
  <2>10. ~ReceiveData /\ ~Accept /\ ~Stream /\ ~Rest
    BY <2>2 DEF ReceiveData, Accept, Stream, Rest, vars, client, lists
  <2>11. ASSUME NEW m \in Managers PROVE ~Timeout(m)
    BY <2>2 DEF Timeout, lists, calling
  <2> QED BY <2>3, <2>4, <2>5, <2>6, <2>8, <2>9, <2>10, <2>11 DEF Next, Timers
<1> QED BY <1>1, LogInvariance, PTL DEF Spec, ListWhole
=============================================================================
