-------------------------- MODULE FtpDownloadProofs --------------------------
(***************************************************************************)
(* Proofs about FtpDownload, for every file, size estimate, chunk size,    *)
(* retry bound, sequence modulus and link window.                          *)
(***************************************************************************)
EXTENDS FtpDownload, TLAPS, WellFoundedInduction

-----------------------------------------------------------------------------
(* The inductive invariant.                                                  *)

(* The least a returned file may hold when the FC reported the size d.       *)
Floor(d) == MinOf(d, FileLen)

(* The requests on the link carry the sequence number of their age.          *)
Back(age) == IF age <= seqNumber THEN seqNumber - age ELSE seqNumber + SeqMod - age

LinkInv ==
  /\ link \subseteq Requests
  /\ seqNumber \in 0 .. SeqMod - 1
  /\ pendingSeq \in {None, seqNumber}
  /\ \A r \in link : r.seq = Back(r.age)

(* The youngest request is the one the phase awaits.                         *)
Youngest(op, off) == \A r \in link : r.age = 0 => r.op = op /\ r.offset = off

AwaitInv ==
  /\ pc = "open" => Youngest("Open", 0)
  /\ pc = "patch" => Youngest("Read", Current(patch.todo)[1])
  /\ pc = "read" => Youngest("Read", offset)

(* A buffer holds bytes of the file only, and an end it has been told is no  *)
(* truncation.                                                               *)
Parts == {[i \in S |-> File[i]] : S \in SUBSET (0 .. FileLen - 1)}

Buffers(d) ==
  {b \in [data : Parts, size : Nat, eof : Nat \cup {None}, limit : Nat, over : BOOLEAN] :
     b.eof # None => b.eof >= Floor(d)}

Sweeps == [cursor : Nat, start : Nat, reached : Nat, gained : BOOLEAN, any : BOOLEAN,
           barren : Nat, heard : BOOLEAN]

(* The ranges of a round of the gap loop; a probe starts at the reported     *)
(* size or past it.                                                          *)
Rounds(d) ==
  {p \in [todo : SUBSET (Nat \X Nat), probing : BOOLEAN, progressed : BOOLEAN] :
     p.probing => \A h \in p.todo : h[1] >= Floor(d)}

PhaseInv ==
  /\ pc \in {"idle", "reset", "open", "reopen", "burst", "patch", "read",
             "terminate", "done"}
  /\ retry \in 0 .. MaxRetries - 1
  /\ declared \in Nat
  /\ buf \in Buffers(declared)
  /\ sweep \in Sweeps
  /\ patch \in Rounds(declared)
  /\ offset \in Nat
  /\ pc \in {"idle", "reset", "open", "reopen"} => buf.data = NoBytes
  /\ pc \in {"burst", "patch"} => buf.size >= declared
  /\ pc = "patch" => patch.todo # {}
  /\ pc = "read" => buf.eof = None /\ 0 .. offset - 1 \subseteq Held(buf)

(* A returned file is the first n bytes of the file, and they were received. *)
Prefixes(d) ==
  {[ok |-> TRUE, bytes |-> [i \in 0 .. n - 1 |-> File[i]]] : n \in Floor(d) .. FileLen}

ResultInv ==
  \/ result = NoFile
  \/ /\ pc \in {"terminate", "done"}
     /\ result \in Prefixes(declared)
     /\ DOMAIN result.bytes \subseteq Held(buf)

IInv == LinkInv /\ AwaitInv /\ PhaseInv /\ ResultInv

-----------------------------------------------------------------------------
(* Least elements: the CHOOSEs of firstHoleFrom and of the round's order.    *)

(* A nonempty set of naturals has a least element.                           *)
LEMMA LeastNat ==
  ASSUME NEW S \in SUBSET Nat, S # {}
  PROVE  \E x \in S : \A y \in S : x <= y
<1>1. PICK x \in S : \A y \in S : ~(<<y, x>> \in OpToRel(<, Nat))
  BY NatLessThanWellFounded, WFMin
<1>2. ASSUME NEW y \in S, ~(x <= y)
      PROVE  FALSE
  <2>1. <<y, x>> \in Nat \X Nat /\ y < x
    BY <1>2
  <2>2. <<y, x>> \in OpToRel(<, Nat)
    BY <2>1 DEF OpToRel
  <2> QED BY <1>1, <2>2
<1> QED BY <1>2

(* The range a round reads next is one of its ranges.                        *)
LEMMA CurrentIn ==
  ASSUME NEW todo \in SUBSET (Nat \X Nat), todo # {}
  PROVE  Current(todo) \in todo
<1> DEFINE starts == {r[1] : r \in todo}
<1>1. starts \in SUBSET Nat /\ starts # {}
  OBVIOUS
<1>2. PICK x \in starts : \A y \in starts : x <= y
  BY <1>1, LeastNat
<1>3. \E r \in todo : \A q \in todo : r[1] <= q[1]
  BY <1>2
<1> QED BY <1>3 DEF Current

-----------------------------------------------------------------------------
(* The DownloadBuffer.                                                       *)

LEMMA FloorFacts ==
  ASSUME NEW d \in Nat
  PROVE  Floor(d) \in Nat /\ Floor(d) <= d /\ Floor(d) <= FileLen
BY FileAssumption DEF Floor, MinOf

LEMMA PartFacts ==
  ASSUME NEW f \in Parts
  PROVE  /\ DOMAIN f \subseteq 0 .. FileLen - 1
         /\ \A i \in DOMAIN f : f[i] = File[i]
         /\ f = [i \in DOMAIN f |-> File[i]]
BY DEF Parts

LEMMA NewBufferGood ==
  ASSUME NEW d \in Nat
  PROVE  /\ NewBuffer(d) \in Buffers(d)
         /\ NewBuffer(d).size = d
         /\ NewBuffer(d).eof = None
         /\ Held(NewBuffer(d)) = {}
<1>1. NoBytes \in Parts
  <2>1. NoBytes = [i \in {} |-> File[i]]
    BY DEF NoBytes
  <2>2. {} \in SUBSET (0 .. FileLen - 1)
    OBVIOUS
  <2> QED BY <2>1, <2>2 DEF Parts
<1>2. DOMAIN NoBytes = {}
  BY DEF NoBytes
<1> QED BY <1>1, <1>2, ParameterAssumption DEF NewBuffer, Buffers, Held, None

(* markEof keeps the bytes and moves the end no lower than the floor.        *)
LEMMA MarkEofGood ==
  ASSUME NEW d \in Nat, NEW b \in Buffers(d), NEW at \in Nat, at >= Floor(d)
  PROVE  /\ MarkEof(b, at) \in Buffers(d)
         /\ MarkEof(b, at).data = b.data
         /\ MarkEof(b, at).size = b.size
         /\ MarkEof(b, at).eof \in Nat
         /\ b.eof = None => MarkEof(b, at).eof = at
BY FloorFacts DEF MarkEof, Buffers, MinOf, None

(* store() of the file's own bytes at their own place keeps the buffer good, *)
(* forgets nothing and, short of an overrun, holds the chunk afterwards.     *)
LEMMA StoreGood ==
  ASSUME NEW d \in Nat, NEW b \in Buffers(d), NEW off \in Nat, NEW src \in Int,
         NEW len \in Nat,
         len = 0 \/ (src = off /\ off + len <= FileLen)
  PROVE  /\ Store(b, off, src, len) \in Buffers(d)
         /\ Store(b, off, src, len).eof = b.eof
         /\ Store(b, off, src, len).size >= b.size
         /\ Held(b) \subseteq Held(Store(b, off, src, len))
         /\ b.eof = None /\ ~Store(b, off, src, len).over
              => off .. off + len - 1 \subseteq Held(Store(b, off, src, len))
<1> DEFINE end   == MinOf(StoreEnd(b, off, len), b.limit)
           fresh == Gained(b, off, len)
           data  == [i \in Held(b) \cup fresh |->
                       IF i \in fresh THEN File[src + (i - off)] ELSE b.data[i]]
<1>0. /\ b.data \in Parts /\ b.size \in Nat /\ b.eof \in Nat \cup {None}
      /\ b.limit \in Nat /\ b.over \in BOOLEAN
  BY DEF Buffers
<1>1. StoreEnd(b, off, len) \in Nat /\ StoreEnd(b, off, len) <= off + len
  BY <1>0 DEF StoreEnd, MinOf, None
<1>2. end \in Nat /\ end <= off + len
  BY <1>0, <1>1 DEF MinOf
<1>3. fresh \subseteq off .. off + len - 1
  BY <1>2 DEF Gained
<1>4. ASSUME NEW i \in fresh
      PROVE  i \in 0 .. FileLen - 1 /\ src + (i - off) = i
  <2>1. i \in Int /\ off <= i /\ i <= off + len - 1
    BY <1>3
  <2>2. src = off /\ off + len <= FileLen
    BY <2>1
  <2> QED BY <2>1, <2>2, FileAssumption
<1>5. data \in Parts
  <2>1. Held(b) \cup fresh \subseteq 0 .. FileLen - 1
    BY <1>0, <1>4, PartFacts DEF Held
  <2>2. \A i \in Held(b) \cup fresh :
          (IF i \in fresh THEN File[src + (i - off)] ELSE b.data[i]) = File[i]
    BY <1>0, <1>4, PartFacts DEF Held
  <2>3. data = [i \in Held(b) \cup fresh |-> File[i]]
    BY <2>2
  <2> QED BY <2>1, <2>3 DEF Parts
<1>6. MaxOf(b.size, end) \in Nat /\ MaxOf(b.size, end) >= b.size
  BY <1>0, <1>2 DEF MaxOf
<1>7. /\ Store(b, off, src, len).data = data
      /\ Store(b, off, src, len).size = MaxOf(b.size, end)
      /\ Store(b, off, src, len).eof = b.eof
      /\ Store(b, off, src, len).limit = b.limit
      /\ Store(b, off, src, len).over = (b.over \/ StoreEnd(b, off, len) > b.limit)
  BY DEF Store, Buffers
<1>8. Store(b, off, src, len) \in Buffers(d)
  <2>1. Store(b, off, src, len) \in
          [data : Parts, size : Nat, eof : Nat \cup {None}, limit : Nat, over : BOOLEAN]
    BY <1>0, <1>1, <1>5, <1>6 DEF Store, Buffers
  <2> QED BY <2>1, <1>7 DEF Buffers
<1>9. Held(Store(b, off, src, len)) = Held(b) \cup fresh
  BY <1>7 DEF Held
<1>10. ASSUME b.eof = None, ~Store(b, off, src, len).over
       PROVE  off .. off + len - 1 \subseteq Held(b) \cup fresh
  <2>1. ~(StoreEnd(b, off, len) > b.limit)
    BY <1>7, <1>10, Zenon
  <2>2. StoreEnd(b, off, len) = off + len
    BY <1>10 DEF StoreEnd
  <2>3. end = off + len
    BY <1>0, <2>1, <2>2 DEF MinOf
  <2> QED BY <2>3 DEF Gained
<1> QED BY <1>6, <1>7, <1>8, <1>9, <1>10

(* result() of a covered buffer is a prefix of the file, of the right size.  *)
LEMMA ResultGood ==
  ASSUME NEW d \in Nat, NEW b \in Buffers(d), b.eof # None, Missing(b) = {}
  PROVE  Result(b) \in Prefixes(d) /\ DOMAIN Result(b).bytes \subseteq Held(b)
<1>1. b.eof \in Nat /\ b.eof >= Floor(d) /\ Size(b) = b.eof /\ b.data \in Parts
  BY DEF Buffers, Size
<1>2. 0 .. b.eof - 1 \subseteq Held(b)
  BY <1>1 DEF Missing
<1>3. Held(b) \subseteq 0 .. FileLen - 1 /\ \A i \in Held(b) : b.data[i] = File[i]
  BY <1>1, PartFacts DEF Held
<1>4. b.eof <= FileLen
  BY <1>1, <1>2, <1>3, FileAssumption
<1>5. Result(b).bytes = [i \in 0 .. b.eof - 1 |-> File[i]]
  BY <1>1, <1>2, <1>3 DEF Result
<1>6. Result(b) = [ok |-> TRUE, bytes |-> [i \in 0 .. b.eof - 1 |-> File[i]]]
  BY <1>1, <1>2, <1>3 DEF Result
<1>7. b.eof \in Floor(d) .. FileLen
  BY <1>1, <1>4, FloorFacts, FileAssumption
<1> QED BY <1>2, <1>5, <1>6, <1>7 DEF Prefixes

(* firstHoleFrom finds a natural number, no less than asked for, or nothing. *)
LEMMA FirstHoleGood ==
  ASSUME NEW b, NEW from \in Nat, FirstHoleFrom(b, from) # None
  PROVE  FirstHoleFrom(b, from) \in Nat /\ FirstHoleFrom(b, from) >= from
<1> DEFINE holes == {i \in Missing(b) : from <= i}
<1>1. holes \in SUBSET Nat
  BY DEF Missing
<1>2. holes # {}
  BY DEF FirstHoleFrom
<1>3. \E x \in holes : \A y \in holes : x <= y
  BY <1>1, <1>2, LeastNat
<1>4. FirstHoleFrom(b, from) \in holes
  BY <1>2, <1>3 DEF FirstHoleFrom
<1>5. \A i \in holes : i >= from
  BY <1>1
<1> QED BY <1>1, <1>4, <1>5

(* An empty buffer of nonzero size has its first hole at 0 or after.         *)
LEMMA FreshHole ==
  ASSUME NEW d \in Nat, d > 0
  PROVE  FirstHoleFrom(NewBuffer(d), 0) # None /\ Size(NewBuffer(d)) = d
<1> DEFINE holes == {i \in Missing(NewBuffer(d)) : 0 <= i}
<1>1. Missing(NewBuffer(d)) = 0 .. d - 1 /\ Size(NewBuffer(d)) = d
  BY NewBufferGood DEF Missing, Size
<1>2. 0 \in holes /\ holes \in SUBSET Nat
  BY <1>1
<1>3. PICK x \in holes : \A y \in holes : x <= y
  BY <1>2, LeastNat
<1>4. FirstHoleFrom(NewBuffer(d), 0) \in holes
  BY <1>2, <1>3 DEF FirstHoleFrom
<1> QED BY <1>1, <1>2, <1>4 DEF None

(* The size of a buffer whose size covers the announcement is at the floor.  *)
LEMMA SizeGood ==
  ASSUME NEW d \in Nat, NEW b \in Buffers(d), b.size >= d
  PROVE  Size(b) \in Nat /\ Size(b) >= Floor(d)
BY FloorFacts DEF Size, Buffers, None

-----------------------------------------------------------------------------
(* The request layer.                                                        *)

LEMMA NextSeqGood ==
  ASSUME NEW n \in 0 .. SeqMod - 1
  PROVE  NextSeq(n) = IF n + 1 = SeqMod THEN 0 ELSE n + 1
BY ParameterAssumption DEF NextSeq

(* Sending keeps the link's numbering and puts the new request at age 0.     *)
LEMMA TransmitGood ==
  ASSUME LinkInv, NEW op \in {"Reset", "Open", "Read", "Burst", "Terminate"},
         NEW off \in Nat, Transmit(op, off),
         pendingSeq' = None \/ pendingSeq' = NextSeq(seqNumber)
  PROVE  LinkInv' /\ Youngest(op, off)'
<1> DEFINE new == [seq |-> NextSeq(seqNumber), op |-> op, offset |-> off, age |-> 0]
<1>1. NextSeq(seqNumber) \in 0 .. SeqMod - 1 /\ SeqMod \in Nat /\ Window \in Nat \ {0}
  BY NextSeqGood, ParameterAssumption DEF LinkInv
<1>2. seqNumber' = NextSeq(seqNumber) /\ link' = Aged \cup {new}
  BY DEF Transmit
<1>3. new \in Requests /\ new.age = 0 /\ new.seq = Back(0)'
  BY <1>1, <1>2 DEF Requests, Back
<1>4. ASSUME NEW r \in Aged
      PROVE  r \in Requests /\ r.age # 0 /\ r.seq = Back(r.age)'
  <2>1. PICK q \in link : q.age + 1 < Window /\ r = [q EXCEPT !.age = @ + 1]
    BY DEF Aged
  <2>2. q \in Requests /\ q.seq = Back(q.age)
    BY DEF LinkInv
  <2>3. q.age \in Nat /\ q.age + 1 < Window /\ q.seq \in 0 .. SeqMod - 1
    BY <2>1, <2>2, <1>1 DEF Requests
  <2>4. r \in Requests /\ r.age = q.age + 1 /\ r.seq = q.seq
    BY <2>1, <2>2, <2>3, <1>1 DEF Requests
  <2>5. seqNumber \in 0 .. SeqMod - 1 /\ Window <= SeqMod
    BY ParameterAssumption DEF LinkInv
  <2>6. Back(q.age) = Back(q.age + 1)'
    BY <1>1, <1>2, <2>3, <2>5, NextSeqGood DEF Back
  <2> QED BY <2>2, <2>3, <2>4, <2>6
<1>5. link' \subseteq Requests /\ \A r \in link' : r.seq = Back(r.age)'
  BY <1>2, <1>3, <1>4
<1>6. \A r \in link' : r.age = 0 => r.op = op /\ r.offset = off
  BY <1>2, <1>4
<1>7. seqNumber' \in 0 .. SeqMod - 1 /\ pendingSeq' \in {None, seqNumber'}
  BY <1>1, <1>2
<1> QED BY <1>5, <1>6, <1>7 DEF LinkInv, Youngest

(* Only the awaited request can be answered: no reply of an older one bears  *)
(* its number, however long it was under way.                                *)
LEMMA MatchesYoungest ==
  ASSUME LinkInv, NEW r \in link, Matches(r)
  PROVE  r.age = 0
<1>1. r.seq \in 0 .. SeqMod - 1 /\ r.age \in 0 .. Window - 1 /\ seqNumber \in 0 .. SeqMod - 1
  BY DEF LinkInv, Requests
<1>2. NextSeq(r.seq) = NextSeq(seqNumber)
  BY DEF Matches, LinkInv
<1>3. r.seq = seqNumber
  BY <1>1, <1>2, NextSeqGood, ParameterAssumption
<1>4. r.seq = Back(r.age)
  BY DEF LinkInv
<1> QED BY <1>1, <1>3, <1>4, ParameterAssumption DEF Back

-----------------------------------------------------------------------------
(* The continuations establish the invariant in the next state.              *)

LEMMA IdleLocals ==
  ASSUME NEW d \in Nat
  PROVE  NoSweep \in Sweeps /\ NoPatch \in Rounds(d) /\ 0 \in 0 .. MaxRetries - 1
BY ParameterAssumption DEF NoSweep, Sweeps, NoPatch, Rounds

LEMMA TerminateGood ==
  ASSUME LinkInv, declared' \in Nat,
         NEW b \in Buffers(declared'), NEW res,
         res = NoFile \/ (res \in Prefixes(declared') /\ DOMAIN res.bytes \subseteq Held(b)),
         Terminate(b, res)
  PROVE  IInv'
<1>1. LinkInv'
  BY TransmitGood DEF Terminate, SendRequest
<1>2. /\ pc' = "terminate" /\ retry' = 0 /\ buf' = b /\ sweep' = NoSweep
      /\ patch' = NoPatch /\ offset' = 0 /\ result' = res
  BY DEF Terminate
<1>3. AwaitInv'
  BY <1>2 DEF AwaitInv
<1>4. PhaseInv'
  BY <1>2, IdleLocals DEF PhaseInv
<1>5. ResultInv'
  BY <1>2 DEF ResultInv, Held
<1> QED BY <1>1, <1>3, <1>4, <1>5 DEF IInv

LEMMA ReadNextGood ==
  ASSUME LinkInv, declared' \in Nat, result = NoFile,
         NEW b \in Buffers(declared'), NEW off \in Nat,
         b.eof = None, 0 .. off - 1 \subseteq Held(b),
         ReadNext(b, off)
  PROVE  IInv'
<1>1. LinkInv' /\ Youngest("Read", off)'
  BY TransmitGood DEF ReadNext, SendRequest
<1>2. /\ pc' = "read" /\ retry' = 0 /\ buf' = b /\ sweep' = NoSweep
      /\ patch' = NoPatch /\ offset' = off /\ result' = NoFile
  BY DEF ReadNext
<1>3. AwaitInv'
  BY <1>1, <1>2 DEF AwaitInv, Youngest
<1>4. PhaseInv'
  BY <1>2, IdleLocals DEF PhaseInv, Held
<1>5. ResultInv'
  BY <1>2 DEF ResultInv
<1> QED BY <1>1, <1>3, <1>4, <1>5 DEF IInv

LEMMA SequentialGood ==
  ASSUME LinkInv, declared \in Nat, declared' = declared, result = NoFile, Sequential
  PROVE  IInv'
BY NewBufferGood, ReadNextGood DEF Sequential

LEMMA ReadHoleGood ==
  ASSUME LinkInv, declared' \in Nat, result = NoFile,
         NEW b \in Buffers(declared'), b.size >= declared',
         NEW p \in Rounds(declared'), p.todo # {},
         ReadHole(b, p)
  PROVE  IInv'
<1>1. p.todo \in SUBSET (Nat \X Nat) /\ Current(p.todo)[1] \in Nat
  BY CurrentIn DEF Rounds
<1>2. LinkInv' /\ Youngest("Read", Current(p.todo)[1])'
  BY <1>1, TransmitGood DEF ReadHole, SendRequest
<1>3. /\ pc' = "patch" /\ retry' = 0 /\ buf' = b /\ sweep' = NoSweep
      /\ patch' = p /\ offset' = 0 /\ result' = NoFile
  BY DEF ReadHole
<1>4. AwaitInv'
  BY <1>2, <1>3 DEF AwaitInv, Youngest
<1>5. PhaseInv'
  BY <1>3, IdleLocals DEF PhaseInv
<1>6. ResultInv'
  BY <1>3 DEF ResultInv
<1> QED BY <1>2, <1>4, <1>5, <1>6 DEF IInv

LEMMA PatchRoundGood ==
  ASSUME LinkInv, declared \in Nat, declared' = declared, result = NoFile,
         NEW b \in Buffers(declared), b.size >= declared,
         PatchRound(b)
  PROVE  IInv'
<1> DEFINE holes == HoleRanges(b)
           probe == {<<Size(b), Size(b) + ReadSize>>}
           p     == [todo       |-> IF holes = {} THEN probe ELSE holes,
                     probing    |-> holes = {},
                     progressed |-> FALSE]
<1>1. CASE b.over
  BY <1>1, SequentialGood DEF PatchRound
<1>2. CASE ~b.over /\ Complete(b)
  <2>1. Terminate(b, Result(b))
    BY <1>2 DEF PatchRound
  <2> QED BY <1>2, <2>1, ResultGood, TerminateGood DEF Complete
<1>3. CASE ~b.over /\ ~Complete(b)
  <2>1. ReadHole(b, p)
    BY <1>3 DEF PatchRound
  <2>2. holes \in SUBSET (Nat \X Nat)
    BY SizeGood DEF HoleRanges, Missing
  <2>3. probe \in SUBSET (Nat \X Nat) /\ \A h \in probe : h[1] >= Floor(declared)
    BY SizeGood, ParameterAssumption
  <2>4. p \in Rounds(declared) /\ p.todo # {}
    BY <2>2, <2>3 DEF Rounds
  <2> QED BY <2>1, <2>4, ReadHoleGood
<1> QED BY <1>1, <1>2, <1>3

LEMMA PatchNextGood ==
  ASSUME LinkInv, declared \in Nat, declared' = declared, result = NoFile,
         NEW b \in Buffers(declared), b.size >= declared,
         NEW p \in Rounds(declared),
         PatchNext(b, p)
  PROVE  IInv'
<1>1. CASE p.todo # {}
  BY <1>1, ReadHoleGood DEF PatchNext
<1>2. CASE p.todo = {} /\ p.progressed
  BY <1>2, PatchRoundGood DEF PatchNext
<1>3. CASE p.todo = {} /\ ~p.progressed /\ Complete(b)
  BY <1>3, ResultGood, TerminateGood DEF PatchNext, Complete
<1>4. CASE p.todo = {} /\ ~p.progressed /\ ~Complete(b)
  BY <1>4, SequentialGood DEF PatchNext
<1> QED BY <1>1, <1>2, <1>3, <1>4

LEMMA SweepNextGood ==
  ASSUME LinkInv, declared' \in Nat, result = NoFile,
         NEW b \in Buffers(declared'), b.size >= declared',
         NEW s \in Sweeps,
         declared' = declared \/ (FirstHoleFrom(b, s.cursor) # None /\ s.cursor < Size(b) /\ s.barren < 2),
         SweepNext(b, s)
  PROVE  IInv'
<1> DEFINE start == FirstHoleFrom(b, s.cursor)
<1>1. CASE s.cursor < Size(b) /\ s.barren < 2 /\ start # None
  <2>1. start \in Nat
    BY <1>1, FirstHoleGood DEF Sweeps
  <2>2. /\ pc' = "burst" /\ SendBurst(start) /\ retry' = 0 /\ buf' = b
        /\ patch' = NoPatch /\ offset' = 0 /\ result' = NoFile
        /\ sweep' = [s EXCEPT !.start = start, !.reached = start, !.gained = FALSE,
                              !.heard = FALSE]
    BY <1>1 DEF SweepNext
  <2>3. LinkInv'
    BY <2>1, <2>2, TransmitGood DEF SendBurst
  <2>4. sweep' \in Sweeps
    BY <2>1, <2>2 DEF Sweeps
  <2>5. PhaseInv'
    BY <2>2, <2>4, IdleLocals DEF PhaseInv
  <2>6. AwaitInv' /\ ResultInv'
    BY <2>2 DEF AwaitInv, ResultInv
  <2> QED BY <2>3, <2>5, <2>6 DEF IInv
<1>2. CASE ~(s.cursor < Size(b) /\ s.barren < 2 /\ start # None)
  <2>1. PatchRound(b) /\ declared' = declared
    BY <1>2 DEF SweepNext
  <2> QED BY <2>1, PatchRoundGood
<1> QED BY <1>1, <1>2

LEMMA FinishBurstGood ==
  ASSUME LinkInv, declared \in Nat, declared' = declared, result = NoFile,
         NEW b \in Buffers(declared), b.size >= declared,
         NEW s \in Sweeps, NEW reason,
         FinishBurst(b, s, reason)
  PROVE  IInv'
<1> DEFINE any  == s.any \/ s.gained
           next == [s EXCEPT !.any = any,
                             !.barren = IF s.gained THEN 0 ELSE @ + 1,
                             !.cursor = MaxOf(s.reached, s.start + 1)]
<1>1. CASE reason = "unsupported" /\ ~any
  BY <1>1, SequentialGood DEF FinishBurst
<1>2. CASE ~(reason = "unsupported" /\ ~any) /\ reason = "eof"
  BY <1>2, PatchRoundGood DEF FinishBurst
<1>3. CASE ~(reason = "unsupported" /\ ~any) /\ reason # "eof"
  <2>1. SweepNext(b, next)
    BY <1>3 DEF FinishBurst
  <2>2. s.gained \in BOOLEAN /\ s.any \in BOOLEAN /\ s.barren \in Nat
        /\ s.reached \in Nat /\ s.start \in Nat
    BY DEF Sweeps
  <2>3. any \in BOOLEAN
    BY <2>2
  <2>4. (IF s.gained THEN 0 ELSE s.barren + 1) \in Nat
    BY <2>2
  <2>5. MaxOf(s.reached, s.start + 1) \in Nat
    BY <2>2 DEF MaxOf
  <2>6. next \in Sweeps
    <3> HIDE DEF any
    <3> QED BY <2>3, <2>4, <2>5 DEF Sweeps
  <2> QED BY <2>1, <2>6, SweepNextGood
<1> QED BY <1>1, <1>2, <1>3

-----------------------------------------------------------------------------
(* What an awaited request can be answered with.                             *)

(* A read is answered about the offset it asked for.                         *)
LEMMA ReadAnswer ==
  ASSUME LinkInv, NEW off \in Nat, Youngest("Read", off), NEW ans \in Answers
  PROVE  ans = NoReply \/ ans \in ReadReplies(off)
<1>1. CASE ans # NoReply
  <2>1. PICK r \in link : Matches(r) /\ ans \in Replies(r)
    BY <1>1 DEF Answers
  <2>2. r.op = "Read" /\ r.offset = off
    BY <2>1, MatchesYoungest DEF Youngest
  <2> QED BY <2>1, <2>2 DEF Replies
<1> QED BY <1>1

LEMMA OpenAnswer ==
  ASSUME LinkInv, Youngest("Open", 0), NEW ans \in Answers
  PROVE  ans = NoReply \/ ans \in OpenReplies
<1>1. CASE ans # NoReply
  <2>1. PICK r \in link : Matches(r) /\ ans \in Replies(r)
    BY <1>1 DEF Answers
  <2>2. r.op = "Open"
    BY <2>1, MatchesYoungest DEF Youngest
  <2> QED BY <2>1, <2>2 DEF Replies
<1> QED BY <1>1

(* A chunk holds the file's bytes at the offset asked for; an empty one or a *)
(* short one past the announced size lies at the end of the file.            *)
LEMMA ChunkFacts ==
  ASSUME NEW off \in Nat, NEW ans,
         ans = NoReply \/ ans \in ReadReplies(off), IsChunk(ans), declared \in Nat
  PROVE  /\ ans.len \in Nat /\ ans.src \in Int
         /\ ans.len = 0 => off >= FileLen
         /\ ans.len # 0 => ans.src = off /\ off + ans.len <= FileLen
         /\ ans.len # 0 /\ ans.len < ReadSize /\ off + ans.len >= declared
              => off + ans.len = FileLen
<1>1. ans # NoReply
  BY DEF IsChunk, NoReply, Nak
<1>2. CASE \E len \in ChunkLens(off, FALSE) : ans = Ack("Read", off, len, FALSE, 0)
  <2>1. PICK len \in ChunkLens(off, FALSE) : ans = Ack("Read", off, len, FALSE, 0)
    BY <1>2
  <2>2. /\ len \in Nat \ {0} /\ off + len <= FileLen
        /\ len = ReadSize \/ off + len = FileLen \/ off + len < declared
    BY ParameterAssumption DEF ChunkLens
  <2>3. ans.len = len /\ ans.src = off
    BY <2>1 DEF Ack
  <2> QED BY <2>2, <2>3, FileAssumption, ParameterAssumption
<1>3. CASE ans = Nak("Read", "Fail")
  BY <1>3 DEF IsChunk, Nak
<1>4. CASE ans = Nak("Read", "EOF") /\ off >= FileLen
  BY <1>4 DEF Nak
<1>5. ans \in {Ack("Read", off, len, FALSE, 0) : len \in ChunkLens(off, FALSE)}
        \/ ans = Nak("Read", "Fail")
        \/ (ans = Nak("Read", "EOF") /\ off >= FileLen)
  BY <1>1 DEF ReadReplies
<1> QED BY <1>2, <1>3, <1>4, <1>5

(* A burst packet holds the file's bytes at its own offset; one that is      *)
(* short and last, or short and past the announced size, ends the file.      *)
LEMMA BurstFacts ==
  ASSUME LinkInv, NEW r \in link, r.op = "Burst", NEW rep \in Replies(r), rep.ack,
         declared \in Nat
  PROVE  /\ rep.src \in Nat /\ rep.len \in Nat /\ rep.src + rep.len <= FileLen
         /\ 0 < rep.len /\ rep.len < ReadSize /\ (rep.last \/ rep.src + rep.len >= declared)
              => rep.src + rep.len = FileLen
<1>1. r.offset \in Nat
  BY DEF LinkInv, Requests
<1>2. rep \in BurstReplies(r.offset)
  BY DEF Replies
<1>3. PICK src \in r.offset .. FileLen, last \in BOOLEAN :
        \E len \in {0} \cup ChunkLens(src, last) : rep = Ack("Burst", src, len, last, 0)
  BY <1>2 DEF BurstReplies, Nak
<1>4. PICK len \in {0} \cup ChunkLens(src, last) : rep = Ack("Burst", src, len, last, 0)
  BY <1>3
<1>5. rep.src = src /\ rep.len = len /\ rep.last = last
  BY <1>4 DEF Ack
<1>6. /\ len \in Nat /\ src \in Nat /\ src + len <= FileLen
      /\ \/ len = 0
         \/ len = ReadSize
         \/ src + len = FileLen
         \/ ~last /\ src + len < declared
  BY <1>1, <1>4, FileAssumption, ParameterAssumption DEF ChunkLens
<1>7. 0 < len /\ len < ReadSize /\ (last \/ src + len >= declared) => src + len = FileLen
  BY <1>6, ParameterAssumption, FileAssumption
<1> QED BY <1>5, <1>6, <1>7

-----------------------------------------------------------------------------
(* Each step preserves the invariant.                                        *)

(* downloadFile returns what it has already settled on.                      *)
LEMMA ReturnGood ==
  ASSUME IInv, NEW res, Return(res),
         res = NoFile \/ (res \in Prefixes(declared) /\ DOMAIN res.bytes \subseteq Held(buf))
  PROVE  IInv'
<1>1. /\ pc' = "done" /\ pendingSeq' = None /\ result' = res
      /\ UNCHANGED <<link, seqNumber, retry, declared, buf, sweep, patch, offset>>
  BY DEF Return
<1>2. LinkInv'
  BY <1>1 DEF IInv, LinkInv, Back
<1>3. AwaitInv'
  BY <1>1 DEF AwaitInv
<1>4. PhaseInv'
  BY <1>1 DEF IInv, PhaseInv
<1>5. ResultInv'
  BY <1>1 DEF ResultInv, Held
<1> QED BY <1>2, <1>3, <1>4, <1>5 DEF IInv

(* The same request again, one attempt later, in a phase that awaits it.     *)
LEMMA ResendGood ==
  ASSUME IInv, NEW op \in {"Open", "Read"}, NEW off \in Nat,
         ~LastTry, Resend(op, off),
         \/ pc = "open" /\ op = "Open" /\ off = 0
         \/ pc = "patch" /\ op = "Read" /\ off = Current(patch.todo)[1]
         \/ pc = "read" /\ op = "Read" /\ off = offset
  PROVE  IInv'
<1>1. /\ retry' = retry + 1
      /\ UNCHANGED <<pc, declared, buf, sweep, patch, offset, result>>
      /\ SendRequest(op, off)
  BY DEF Resend
<1>2. LinkInv' /\ Youngest(op, off)'
  BY <1>1, TransmitGood DEF SendRequest, IInv
<1>3. AwaitInv'
  BY <1>1, <1>2 DEF AwaitInv, Youngest
<1>4. retry' \in 0 .. MaxRetries - 1
  BY <1>1, ParameterAssumption DEF IInv, PhaseInv, LastTry
<1>5. PhaseInv'
  BY <1>1, <1>4 DEF IInv, PhaseInv, Held
<1>6. ResultInv'
  BY <1>1 DEF IInv, ResultInv, Held
<1> QED BY <1>2, <1>3, <1>5, <1>6 DEF IInv

(* A request that only changes the phase, with no attempt or one counted.    *)
LEMMA AdvanceGood ==
  ASSUME IInv, pc \in {"idle", "reset", "open", "reopen"},
         NEW to \in {"reset", "open", "reopen"},
         pc' = to, SendRequest(IF to = "open" THEN "Open" ELSE "Reset", 0),
         retry' \in 0 .. MaxRetries - 1,
         UNCHANGED <<declared, buf, sweep, patch, offset, result>>
  PROVE  IInv'
<1> DEFINE op == IF to = "open" THEN "Open" ELSE "Reset"
<1>1. LinkInv' /\ Youngest(op, 0)'
  BY TransmitGood DEF SendRequest, IInv
<1>2. AwaitInv'
  BY <1>1 DEF AwaitInv, Youngest
<1>3. PhaseInv'
  BY DEF IInv, PhaseInv
<1>4. ResultInv'
  BY DEF IInv, ResultInv, Held
<1> QED BY <1>1, <1>2, <1>3, <1>4 DEF IInv

LEMMA OpenAcceptedGood ==
  ASSUME IInv, NEW ans \in Answers, OpenAccepted(ans)
  PROVE  IInv'
<1> DEFINE b == NewBuffer(ans.size)
<1>1. pc = "open" /\ ans.ack /\ declared' = ans.size /\ LinkInv /\ Youngest("Open", 0)
  BY DEF OpenAccepted, IInv, AwaitInv
<1>2. ans.size \in Nat
  <2>1. ans \in OpenReplies
    BY <1>1, OpenAnswer DEF NoReply, Nak
  <2>a. \A err : ans # Nak("Open", err)
    BY <1>1 DEF Nak
  <2>2. PICK hint \in SizeHints : ans = Ack("Open", 0, 0, FALSE, hint)
    BY <2>1, <2>a DEF OpenReplies
  <2> QED BY <2>2, ParameterAssumption DEF Ack
<1>3. result = NoFile
  BY <1>1 DEF IInv, ResultInv
<1>4. b \in Buffers(declared') /\ b.size = declared' /\ b.eof = None /\ Held(b) = {}
  BY <1>1, <1>2, NewBufferGood
<1>5. CASE ans.size = 0
  <2>1. Terminate(b, Result(b))
    BY <1>5 DEF OpenAccepted
  <2>2. Result(b) \in Prefixes(declared')
    <3>1. Result(b) = [ok |-> TRUE, bytes |-> [i \in 0 .. 0 - 1 |-> File[i]]]
      BY <1>1, <1>4, <1>5 DEF Result, Size
    <3>2. 0 \in Floor(declared') .. FileLen
      BY <1>1, <1>5, FloorFacts, FileAssumption
    <3> QED BY <3>1, <3>2 DEF Prefixes
  <2>3. DOMAIN Result(b).bytes = {}
    BY <1>1, <1>4, <1>5 DEF Result, Size
  <2> QED BY <1>1, <1>2, <1>4, <2>1, <2>2, <2>3, TerminateGood
<1>6. CASE ans.size # 0
  <2>1. SweepNext(b, NoSweep)
    BY <1>6 DEF OpenAccepted
  <2>2. FirstHoleFrom(b, NoSweep.cursor) # None /\ NoSweep.cursor < Size(b)
          /\ NoSweep.barren < 2
    BY <1>2, <1>6, FreshHole DEF NoSweep
  <2>3. NoSweep \in Sweeps
    BY <1>2, IdleLocals
  <2> QED BY <1>1, <1>2, <1>3, <1>4, <2>1, <2>2, <2>3, SweepNextGood
<1> QED BY <1>5, <1>6

LEMMA OpenRefusedGood ==
  ASSUME IInv, NEW ans \in Answers, OpenRefused(ans)
  PROVE  IInv'
<1>1. pc = "open" /\ retry \in 0 .. MaxRetries - 1
  BY DEF OpenRefused, IInv, PhaseInv
<1>2. CASE Return(NoFile)
  BY <1>2, ReturnGood
<1>3. CASE /\ pc' = "reopen"
           /\ SendRequest("Reset", 0)
           /\ UNCHANGED <<retry, declared, buf, sweep, patch, offset, result>>
  BY <1>1, <1>3, AdvanceGood
<1>4. CASE ~LastTry /\ Resend("Open", 0)
  BY <1>1, <1>4, ResendGood
<1> QED BY <1>2, <1>3, <1>4 DEF OpenRefused

LEMMA ReopenGood ==
  ASSUME IInv, NEW ans, Reopen(ans)
  PROVE  IInv'
<1>1. CASE LastTry
  BY <1>1, ReturnGood DEF Reopen
<1>2. CASE ~LastTry
  <2>1. /\ pc = "reopen" /\ pc' = "open" /\ SendRequest("Open", 0)
        /\ retry' = retry + 1
        /\ UNCHANGED <<declared, buf, sweep, patch, offset, result>>
    BY <1>2 DEF Reopen
  <2>2. retry' \in 0 .. MaxRetries - 1
    BY <1>2, <2>1, ParameterAssumption DEF LastTry, IInv, PhaseInv
  <2> QED BY <2>1, <2>2, AdvanceGood
<1> QED BY <1>1, <1>2

(* The phases that read the file have returned nothing yet.                  *)
LEMMA Fetching ==
  ASSUME IInv, pc \in {"burst", "patch", "read"}
  PROVE  /\ LinkInv /\ declared \in Nat /\ buf \in Buffers(declared)
         /\ result = NoFile
         /\ pc # "read" => buf.size >= declared
BY DEF IInv, PhaseInv, ResultInv

LEMMA BurstDataGood ==
  ASSUME IInv, NEW r \in link, r.op = "Burst", NEW rep \in Replies(r), BurstData(rep)
  PROVE  IInv'
<1> DEFINE stored == BurstStored(buf, rep)
           short  == 0 < rep.len /\ rep.len < ReadSize
                       /\ (rep.last \/ rep.src + rep.len >= declared)
           marked == IF short THEN MarkEof(buf, rep.src + rep.len) ELSE buf
           s      == [sweep EXCEPT !.gained  = @ \/ stored.fresh,
                                   !.reached = MaxOf(@, rep.src + rep.len),
                                   !.heard   = TRUE]
<1>1. pc = "burst" /\ rep.ack /\ declared' = declared
  BY DEF BurstData
<1>2. /\ LinkInv /\ declared \in Nat /\ buf \in Buffers(declared)
      /\ result = NoFile /\ buf.size >= declared
  BY <1>1, Fetching
<1>3. /\ rep.src \in Nat /\ rep.len \in Nat /\ rep.src + rep.len <= FileLen
      /\ short => rep.src + rep.len = FileLen
  BY <1>1, <1>2, BurstFacts
<1>4. marked \in Buffers(declared) /\ marked.size = buf.size
  BY <1>2, <1>3, MarkEofGood, FloorFacts
<1>5. stored.buf = Store(marked, rep.src, rep.src, rep.len)
      /\ stored.fresh = (Gained(marked, rep.src, rep.len) # {})
  BY DEF BurstStored
<1>6. stored.buf \in Buffers(declared) /\ stored.buf.size >= declared
  <2>1. Store(marked, rep.src, rep.src, rep.len) \in Buffers(declared)
        /\ Store(marked, rep.src, rep.src, rep.len).size >= marked.size
    BY <1>2, <1>3, <1>4, StoreGood
  <2>2. \A b \in Buffers(declared) : b.size \in Nat
    BY DEF Buffers
  <2> HIDE DEF marked
  <2> QED BY <1>2, <1>4, <1>5, <2>1, <2>2
<1>7. s \in Sweeps
  <2> DEFINE gained  == sweep.gained \/ stored.fresh
             reached == MaxOf(sweep.reached, rep.src + rep.len)
  <2>1. /\ sweep \in Sweeps /\ sweep.gained \in BOOLEAN /\ sweep.reached \in Nat
        /\ stored.fresh \in BOOLEAN /\ rep.src + rep.len \in Nat
    BY <1>3, <1>5 DEF IInv, PhaseInv, Sweeps
  <2>2. gained \in BOOLEAN /\ reached \in Nat
    BY <2>1 DEF MaxOf
  <2>3. s = [sweep EXCEPT !.gained = gained, !.reached = reached, !.heard = TRUE]
    OBVIOUS
  <2> HIDE DEF s, gained, reached
  <2> QED BY <2>1, <2>2, <2>3 DEF Sweeps
<1> HIDE DEF stored, s
<1>8. CASE rep.last
  <2>1. FinishBurst(stored.buf, s, "complete")
    BY <1>8 DEF BurstData, stored, s
  <2> QED BY <1>1, <1>2, <1>6, <1>7, <2>1, FinishBurstGood
<1>9. CASE ~rep.last
  <2>1. /\ buf' = stored.buf /\ sweep' = s
        /\ UNCHANGED <<pc, link, seqNumber, pendingSeq, retry, patch, offset, result>>
    BY <1>9 DEF BurstData, stored, s
  <2>2. LinkInv'
    BY <1>2, <2>1 DEF LinkInv, Back
  <2>3. AwaitInv'
    BY <1>1, <2>1 DEF AwaitInv
  <2>4. PhaseInv'
    BY <1>1, <1>2, <1>6, <1>7, <2>1 DEF IInv, PhaseInv
  <2>5. ResultInv'
    BY <1>2, <2>1 DEF ResultInv
  <2> QED BY <2>2, <2>3, <2>4, <2>5 DEF IInv
<1> QED BY <1>8, <1>9

(* A burst that ends without data: refused, idle or unsent.                  *)
LEMMA BurstOverGood ==
  ASSUME IInv, pc = "burst", NEW reason, FinishBurst(buf, sweep, reason),
         declared' = declared
  PROVE  IInv'
<1>1. sweep \in Sweeps
  BY DEF IInv, PhaseInv
<1> QED BY <1>1, Fetching, FinishBurstGood

LEMMA PatchChunkGood ==
  ASSUME IInv, NEW ans \in Answers, PatchChunk(ans)
  PROVE  IInv'
<1> DEFINE hole   == Current(patch.todo)
           off    == hole[1]
           end    == off + ans.len
           last   == ans.len < ReadSize /\ (ans.len = 0 \/ end >= declared)
           marked == IF last THEN MarkEof(buf, end) ELSE buf
           rest   == IF ~last /\ off + ReadSize < hole[2]
                     THEN {<<off + ReadSize, hole[2]>>} ELSE {}
           stored == Store(marked, off, ans.src, ans.len)
           more   == patch.progressed \/ Gained(marked, off, ans.len) # {}
                                      \/ marked.eof # buf.eof
           p      == [patch EXCEPT !.todo = (@ \ {hole}) \cup rest, !.progressed = more]
<1>1. pc = "patch" /\ IsChunk(ans) /\ declared' = declared /\ PatchNext(stored, p)
  BY DEF PatchChunk
<1>2. /\ LinkInv /\ declared \in Nat /\ buf \in Buffers(declared)
      /\ result = NoFile /\ buf.size >= declared
  BY <1>1, Fetching
<1>3. patch \in Rounds(declared) /\ patch.todo # {} /\ Youngest("Read", off)
  BY <1>1 DEF IInv, PhaseInv, AwaitInv
<1>4. patch.todo \in SUBSET (Nat \X Nat) /\ hole \in patch.todo
  BY <1>3, CurrentIn DEF Rounds
<1>5. off \in Nat /\ hole[2] \in Nat
  BY <1>4
<1>6. ans = NoReply \/ ans \in ReadReplies(off)
  BY <1>2, <1>3, <1>5, ReadAnswer
<1>7. /\ ans.len \in Nat /\ ans.src \in Int
      /\ ans.len = 0 => off >= FileLen
      /\ ans.len # 0 => ans.src = off /\ off + ans.len <= FileLen
      /\ last => end >= FileLen
  <2>1. /\ ans.len \in Nat /\ ans.src \in Int
        /\ ans.len = 0 => off >= FileLen
        /\ ans.len # 0 => ans.src = off /\ off + ans.len <= FileLen
        /\ ans.len # 0 /\ ans.len < ReadSize /\ off + ans.len >= declared
             => off + ans.len = FileLen
    BY <1>1, <1>2, <1>5, <1>6, ChunkFacts
  <2> QED BY <2>1, <1>5, FileAssumption
<1>8. marked \in Buffers(declared) /\ marked.size = buf.size
  <2>1. end \in Nat
    BY <1>5, <1>7
  <2>2. last => end >= FileLen
    BY <1>7
  <2> HIDE DEF last, end
  <2>3. last => end >= Floor(declared)
    BY <1>2, <2>1, <2>2, FloorFacts, FileAssumption
  <2> QED BY <1>2, <2>1, <2>3, MarkEofGood
<1>9. stored \in Buffers(declared) /\ stored.size >= declared
  <2>1. stored \in Buffers(declared) /\ stored.size >= marked.size
    BY <1>2, <1>5, <1>7, <1>8, StoreGood
  <2>2. \A b \in Buffers(declared) : b.size \in Nat
    BY DEF Buffers
  <2> HIDE DEF marked, stored
  <2> QED BY <1>2, <1>8, <2>1, <2>2
<1>10. p \in Rounds(declared)
  <2>1. rest \in SUBSET (Nat \X Nat) /\ \A h \in rest : h[1] >= off
    BY <1>5, ParameterAssumption
  <2>2. patch.probing => off >= Floor(declared)
    BY <1>3, <1>4 DEF Rounds
  <2>3. patch.probing => \A h \in (patch.todo \ {hole}) \cup rest : h[1] >= Floor(declared)
    BY <1>2, <1>3, <1>4, <1>5, <2>1, <2>2, FloorFacts DEF Rounds
  <2>4. more \in BOOLEAN
    BY <1>3 DEF Rounds
  <2> HIDE DEF more, rest
  <2> QED BY <1>3, <1>4, <2>1, <2>3, <2>4 DEF Rounds
<1> HIDE DEF stored, p
<1> QED BY <1>1, <1>2, <1>9, <1>10, PatchNextGood

LEMMA PatchFailedGood ==
  ASSUME IInv, NEW ans \in Answers, PatchFailed(ans)
  PROVE  IInv'
<1> DEFINE hole == Current(patch.todo)
           b    == IF patch.probing THEN MarkEof(buf, hole[1]) ELSE buf
           more == patch.progressed \/ patch.probing
           p    == [patch EXCEPT !.todo = @ \ {hole}, !.progressed = more]
<1>1. pc = "patch"
  BY DEF PatchFailed
<1>2. /\ LinkInv /\ declared \in Nat /\ buf \in Buffers(declared)
      /\ result = NoFile /\ buf.size >= declared
  BY <1>1, Fetching
<1>3. patch \in Rounds(declared) /\ patch.todo # {}
  BY <1>1 DEF IInv, PhaseInv
<1>4. patch.todo \in SUBSET (Nat \X Nat) /\ hole \in patch.todo /\ hole[1] \in Nat
  BY <1>3, CurrentIn DEF Rounds
<1>5. CASE ~LastTry
  BY <1>1, <1>4, <1>5, ResendGood DEF PatchFailed
<1>6. CASE LastTry
  <2>1. PatchNext(b, p) /\ declared' = declared
    BY <1>6 DEF PatchFailed
  <2>2. b \in Buffers(declared) /\ b.size >= declared
    BY <1>2, <1>3, <1>4, MarkEofGood DEF Rounds
  <2>3. more \in BOOLEAN
    BY <1>3 DEF Rounds
  <2>4. p \in Rounds(declared)
    <3> HIDE DEF more
    <3> QED BY <1>3, <1>4, <2>3 DEF Rounds
  <2> HIDE DEF b, p
  <2> QED BY <1>2, <2>1, <2>2, <2>4, PatchNextGood
<1> QED BY <1>5, <1>6

LEMMA ReadChunkGood ==
  ASSUME IInv, NEW ans \in Answers, ReadChunk(ans)
  PROVE  IInv'
<1> DEFINE end    == offset + ans.len
           stored == Store(buf, offset, ans.src, ans.len)
           whole  == MarkEof(stored, end)
           cut    == MarkEof(buf, offset)
<1>1. pc = "read" /\ IsChunk(ans) /\ declared' = declared
  BY DEF ReadChunk
<1>2. /\ LinkInv /\ declared \in Nat /\ buf \in Buffers(declared)
      /\ result = NoFile
  BY <1>1, Fetching
<1>3. /\ offset \in Nat /\ buf.eof = None /\ 0 .. offset - 1 \subseteq Held(buf)
      /\ Youngest("Read", offset)
  BY <1>1 DEF IInv, PhaseInv, AwaitInv
<1>4. ans = NoReply \/ ans \in ReadReplies(offset)
  BY <1>2, <1>3, ReadAnswer
<1>5. /\ ans.len \in Nat /\ ans.src \in Int
      /\ ans.len = 0 => offset >= FileLen
      /\ ans.len # 0 => ans.src = offset /\ offset + ans.len <= FileLen
  BY <1>1, <1>2, <1>3, <1>4, ChunkFacts
<1>6. /\ stored \in Buffers(declared) /\ stored.eof = None
      /\ Held(buf) \subseteq Held(stored)
      /\ ~stored.over => offset .. end - 1 \subseteq Held(stored)
  BY <1>2, <1>3, <1>5, StoreGood
<1>7. CASE ans.len = 0
  <2>1. Terminate(cut, Result(cut))
    BY <1>1, <1>7 DEF ReadChunk
  <2>2. /\ cut \in Buffers(declared) /\ cut.data = buf.data /\ cut.eof = offset
    BY <1>2, <1>3, <1>5, <1>7, MarkEofGood, FloorFacts, FileAssumption, SMTT(30)
  <2>3. cut.eof # None /\ Missing(cut) = {}
    BY <1>3, <2>2 DEF Missing, Size, Held, None
  <2> HIDE DEF cut
  <2> QED BY <1>1, <1>2, <2>1, <2>2, <2>3, ResultGood, TerminateGood
<1> HIDE DEF stored
<1>8. CASE ans.len # 0 /\ stored.over
  <2>1. Terminate(stored, NoFile)
    BY <1>1, <1>8 DEF ReadChunk, stored
  <2> QED BY <1>1, <1>2, <1>6, <2>1, TerminateGood
<1>9. 0 .. end - 1 \subseteq Held(stored) \/ stored.over
  BY <1>3, <1>5, <1>6
<1>10. CASE ans.len # 0 /\ ~stored.over /\ ans.len < ReadSize /\ end >= declared
  <2>1. Terminate(whole, Result(whole))
    BY <1>1, <1>10 DEF ReadChunk, stored
  <2>2. end \in Nat /\ end >= Floor(declared)
    BY <1>2, <1>3, <1>5, <1>10, FloorFacts
  <2>3. whole \in Buffers(declared) /\ whole.data = stored.data /\ whole.eof = end
    BY <1>2, <1>6, <2>2, MarkEofGood
  <2>4. whole.eof # None /\ Missing(whole) = {}
    BY <1>9, <1>10, <2>2, <2>3 DEF Missing, Size, Held, None
  <2> HIDE DEF whole
  <2> QED BY <1>1, <1>2, <2>1, <2>3, <2>4, ResultGood, TerminateGood
<1>11. CASE ans.len # 0 /\ ~stored.over /\ ~(ans.len < ReadSize /\ end >= declared)
  <2>1. ReadNext(stored, end)
    BY <1>1, <1>11 DEF ReadChunk, stored
  <2>2. end \in Nat
    BY <1>3, <1>5
  <2> QED BY <1>1, <1>2, <1>6, <1>9, <1>11, <2>1, <2>2, ReadNextGood
<1> QED BY <1>7, <1>8, <1>10, <1>11

LEMMA ReadFailedGood ==
  ASSUME IInv, NEW ans, ReadFailed(ans)
  PROVE  IInv'
<1> DEFINE whole == MarkEof(buf, offset)
<1>1. pc = "read"
  BY DEF ReadFailed
<1>2. /\ LinkInv /\ declared \in Nat /\ buf \in Buffers(declared)
      /\ result = NoFile
  BY <1>1, Fetching
<1>3. offset \in Nat /\ buf.eof = None /\ 0 .. offset - 1 \subseteq Held(buf)
  BY <1>1 DEF IInv, PhaseInv
<1>4. CASE ~LastTry
  BY <1>1, <1>3, <1>4, ResendGood DEF ReadFailed
<1>5. CASE LastTry /\ offset >= declared
  <2>1. Terminate(whole, Result(whole)) /\ declared' = declared
    BY <1>5 DEF ReadFailed
  <2>2. whole \in Buffers(declared) /\ whole.data = buf.data /\ whole.eof = offset
    BY <1>2, <1>3, <1>5, MarkEofGood, FloorFacts
  <2>3. whole.eof # None /\ Missing(whole) = {}
    BY <1>3, <2>2 DEF Missing, Size, Held, None
  <2> HIDE DEF whole
  <2> QED BY <1>2, <2>1, <2>2, <2>3, ResultGood, TerminateGood
<1>6. CASE LastTry /\ ~(offset >= declared)
  <2>1. Terminate(buf, NoFile) /\ declared' = declared
    BY <1>6 DEF ReadFailed
  <2> QED BY <1>2, <2>1, TerminateGood
<1> QED BY <1>4, <1>5, <1>6

-----------------------------------------------------------------------------
(* The invariant of the specification.                                       *)

LEMMA InitGood == Init => IInv
<1> SUFFICES ASSUME Init PROVE IInv
  OBVIOUS
<1>1. LinkInv
  BY ParameterAssumption DEF Init, LinkInv
<1>2. AwaitInv
  BY DEF Init, AwaitInv
<1>3. PhaseInv
  <2>1. NewBuffer(0).data = NoBytes
    BY DEF NewBuffer
  <2> QED BY <2>1, IdleLocals, NewBufferGood DEF Init, PhaseInv
<1>4. ResultInv
  BY DEF Init, ResultInv
<1> QED BY <1>1, <1>2, <1>3, <1>4 DEF IInv

LEMMA StutterGood ==
  ASSUME IInv, UNCHANGED vars
  PROVE  IInv'
<1> USE DEF vars
<1>1. LinkInv'
  BY DEF IInv, LinkInv, Back
<1>2. AwaitInv'
  BY DEF IInv, AwaitInv, Youngest
<1>3. PhaseInv'
  BY DEF IInv, PhaseInv, Held
<1>4. ResultInv'
  BY DEF IInv, ResultInv, Held
<1> QED BY <1>1, <1>2, <1>3, <1>4 DEF IInv

LEMMA AnsweredGood ==
  ASSUME IInv, NEW ans \in Answers, Answered(ans)
  PROVE  IInv'
<1>1. CASE ResetDone(ans)
  <2>1. retry' \in 0 .. MaxRetries - 1
    BY <1>1 DEF ResetDone, IInv, PhaseInv
  <2> QED BY <1>1, <2>1, AdvanceGood DEF ResetDone
<1>2. CASE TerminateDone(ans)
  BY <1>2, ReturnGood DEF TerminateDone, IInv, ResultInv
<1> QED BY <1>1, <1>2, OpenAcceptedGood, OpenRefusedGood, ReopenGood, PatchChunkGood,
           PatchFailedGood, ReadChunkGood, ReadFailedGood DEF Answered

(* Time passing changes nothing but what the idle timer has heard.           *)
LEMMA QuietGood ==
  ASSUME IInv, BurstQuiet
  PROVE  IInv'
<1>1. /\ sweep' = [sweep EXCEPT !.heard = FALSE]
      /\ UNCHANGED <<pc, link, seqNumber, pendingSeq, retry, declared, buf, patch, offset,
                     result>>
  BY DEF BurstQuiet
<1>2. LinkInv'
  BY <1>1 DEF IInv, LinkInv, Back
<1>5. AwaitInv'
  BY <1>1 DEF IInv, AwaitInv, Youngest, Back
<1>6. ResultInv'
  BY <1>1 DEF IInv, ResultInv, Held
<1>3. sweep' \in Sweeps
  BY <1>1 DEF IInv, PhaseInv, Sweeps
<1>4. PhaseInv'
  BY <1>1, <1>3 DEF IInv, PhaseInv, Held
<1> QED BY <1>2, <1>4, <1>5, <1>6 DEF IInv

LEMMA NextGood ==
  ASSUME IInv, [Next]_vars
  PROVE  IInv'
<1>1. CASE Begin
  <2>1. retry' \in 0 .. MaxRetries - 1
    BY <1>1 DEF Begin, IInv, PhaseInv
  <2> QED BY <1>1, <2>1, AdvanceGood DEF Begin
<1>2. CASE Resolved
  BY <1>2, AnsweredGood DEF Resolved
<1>3. CASE BurstPacket
  <2>0. PICK r \in link : r.op = "Burst" /\ \E rep \in Replies(r) : BurstReplied(rep)
    BY <1>3 DEF BurstPacket
  <2>1. PICK rep \in Replies(r) : BurstReplied(rep)
    BY <2>0
  <2>2. CASE BurstData(rep)
    BY <2>0, <2>2, BurstDataGood
  <2>3. CASE BurstRefused(rep)
    BY <2>3, BurstOverGood DEF BurstRefused
  <2> QED BY <2>1, <2>2, <2>3 DEF BurstReplied
<1>4. CASE BurstIdle
  BY <1>4, BurstOverGood DEF BurstIdle
<1>5. CASE BurstUnsent
  BY <1>5, BurstOverGood DEF BurstUnsent
<1>6. CASE Finished \/ UNCHANGED vars
  BY <1>6, StutterGood DEF Finished
<1>7. CASE BurstQuiet
  BY <1>7, QuietGood
<1> QED BY <1>1, <1>2, <1>3, <1>4, <1>5, <1>6, <1>7 DEF Next

(* The invariant holds in every state of every download.                     *)
THEOREM Invariance == Spec => []IInv
<1>1. IInv /\ [Next]_vars => IInv'
  BY NextGood
<1> QED BY InitGood, <1>1, PTL DEF Spec

(* Type correctness.                                                         *)
THEOREM TypeCorrect == Spec => []TypeOK
<1>1. IInv => TypeOK
  BY DEF IInv, LinkInv, PhaseInv, Buffers, TypeOK
<1> QED BY <1>1, Invariance, PTL

(* Every byte of a returned file is the FC's byte at that place, for every   *)
(* file and every pattern of lost, repeated, late and reordered replies.     *)
THEOREM Faithful == Spec => []ResultFaithful
<1>1. ASSUME IInv PROVE ResultFaithful
  <2>1. CASE result = NoFile
    BY <2>1 DEF NoFile, ResultFaithful
  <2>2. CASE result \in Prefixes(declared)
    <3>1. PICK n \in Floor(declared) .. FileLen :
            result = [ok |-> TRUE, bytes |-> [i \in 0 .. n - 1 |-> File[i]]]
      BY <2>2 DEF Prefixes
    <3>2. n \in Int /\ n <= FileLen
      BY <1>1, <3>1, FloorFacts, FileAssumption DEF IInv, PhaseInv
    <3> QED BY <3>1, <3>2, FileAssumption DEF ResultFaithful
  <2> QED BY <1>1, <2>1, <2>2 DEF IInv, ResultInv
<1> QED BY <1>1, Invariance, PTL

(* A returned file reaches the announced size or the end of the file.        *)
THEOREM NotTruncated == Spec => []ResultNotTruncated
<1>1. ASSUME IInv PROVE ResultNotTruncated
  <2>1. CASE result = NoFile
    BY <2>1 DEF NoFile, ResultNotTruncated
  <2>2. CASE result \in Prefixes(declared)
    <3>1. PICK n \in Floor(declared) .. FileLen :
            result = [ok |-> TRUE, bytes |-> [i \in 0 .. n - 1 |-> File[i]]]
      BY <2>2 DEF Prefixes
    <3>2. n \in Int /\ n >= MinOf(declared, FileLen) /\ MinOf(declared, FileLen) \in Nat
      BY <1>1, <3>1, FloorFacts, FileAssumption DEF IInv, PhaseInv, Floor
    <3> QED BY <3>1, <3>2 DEF ResultNotTruncated
  <2> QED BY <1>1, <2>1, <2>2 DEF IInv, ResultInv
<1> QED BY <1>1, Invariance, PTL

-----------------------------------------------------------------------------
(* The sweep goes forwards.                                                  *)

LEMMA FinishAdvances ==
  ASSUME NEW b, NEW s \in Sweeps, NEW reason, FinishBurst(b, s, reason), pc' = "burst"
  PROVE  sweep'.start > s.start
<1> DEFINE next == [s EXCEPT !.any = s.any \/ s.gained,
                             !.barren = IF s.gained THEN 0 ELSE @ + 1,
                             !.cursor = MaxOf(s.reached, s.start + 1)]
           start == FirstHoleFrom(b, next.cursor)
<1>1. ~Sequential /\ ~PatchRound(b)
  BY DEF PatchRound, Sequential, ReadNext, ReadHole, Terminate
<1>2. /\ start # None
      /\ sweep' = [next EXCEPT !.start = start, !.reached = start, !.gained = FALSE,
                               !.heard = FALSE]
  BY <1>1 DEF FinishBurst, SweepNext
<1>3. s.start \in Nat /\ s.reached \in Nat
  BY DEF Sweeps
<1>4. next.cursor = MaxOf(s.reached, s.start + 1)
  BY DEF Sweeps
<1>5. next.cursor \in Nat /\ next.cursor > s.start
  BY <1>3, <1>4 DEF MaxOf
<1>6. DOMAIN next = DOMAIN s /\ "start" \in DOMAIN s
  BY DEF Sweeps
<1> HIDE DEF next
<1>7. start \in Nat /\ start >= next.cursor
  BY <1>2, <1>5, FirstHoleGood
<1> HIDE DEF start
<1>8. sweep'.start = start
  BY <1>2, <1>6
<1> QED BY <1>3, <1>5, <1>7, <1>8

LEMMA StepAdvances ==
  ASSUME IInv, [Next]_vars, pc = "burst", pc' = "burst", seqNumber' # seqNumber
  PROVE  sweep'.start > sweep.start
<1>1. sweep \in Sweeps
  BY DEF IInv, PhaseInv
<1>2. ASSUME NEW reason, FinishBurst(buf, sweep, reason)
      PROVE  sweep'.start > sweep.start
  BY <1>1, <1>2, FinishAdvances
<1>3. ASSUME NEW r \in link, r.op = "Burst", NEW rep \in Replies(r), BurstData(rep)
      PROVE  sweep'.start > sweep.start
  <2> DEFINE stored == BurstStored(buf, rep)
             s == [sweep EXCEPT !.gained  = @ \/ stored.fresh,
                                !.reached = MaxOf(@, rep.src + rep.len),
                                !.heard   = TRUE]
  <2>1. stored.fresh \in BOOLEAN
    BY DEF BurstStored
  <2>2. rep.src + rep.len \in Nat
    BY <1>3, BurstFacts, Fetching DEF BurstData
  <2>3. s \in Sweeps /\ s.start = sweep.start
    <3> DEFINE gained  == sweep.gained \/ stored.fresh
               reached == MaxOf(sweep.reached, rep.src + rep.len)
    <3>1. sweep.gained \in BOOLEAN /\ sweep.reached \in Nat
      BY <1>1 DEF Sweeps
    <3>2. gained \in BOOLEAN /\ reached \in Nat
      BY <2>1, <2>2, <3>1 DEF MaxOf
    <3>3. s = [sweep EXCEPT !.gained = gained, !.reached = reached, !.heard = TRUE]
      OBVIOUS
    <3> HIDE DEF s, gained, reached
    <3> QED BY <1>1, <3>2, <3>3 DEF Sweeps
  <2> HIDE DEF stored
  <2> HIDE DEF s
  <2>4. FinishBurst(stored.buf, s, "complete")
    BY <1>3 DEF BurstData, stored, s
  <2> QED BY <2>3, <2>4, FinishAdvances
<1>4. ASSUME NEW ans
      PROVE  ~Answered(ans)
  BY DEF Answered, ResetDone, OpenAccepted, OpenRefused, Reopen, PatchChunk, PatchFailed,
         ReadChunk, ReadFailed, TerminateDone
<1>5. CASE BurstPacket
  <2>1. PICK r \in link : r.op = "Burst" /\ \E rep \in Replies(r) : BurstReplied(rep)
    BY <1>5 DEF BurstPacket
  <2>2. PICK rep \in Replies(r) : BurstReplied(rep)
    BY <2>1
  <2> QED BY <1>2, <1>3, <2>1, <2>2 DEF BurstReplied, BurstRefused
<1>6. CASE BurstIdle \/ BurstUnsent
  BY <1>2, <1>6 DEF BurstIdle, BurstUnsent
<1>7. BurstPacket \/ BurstIdle \/ BurstUnsent
  BY <1>4 DEF Next, Resolved, Begin, BurstQuiet, Finished, vars
<1> QED BY <1>5, <1>6, <1>7

(* Bursts sweep forwards: each starts past where the one before it started,  *)
(* whatever was lost, late or repeated.                                      *)
THEOREM Forwards == Spec => SweepAdvances
<1>1. IInv /\ [Next]_vars
        => [pc = "burst" /\ pc' = "burst" /\ seqNumber' # seqNumber
              => sweep'.start > sweep.start]_vars
  <2> SUFFICES ASSUME IInv, [Next]_vars, pc = "burst", pc' = "burst", seqNumber' # seqNumber
               PROVE  sweep'.start > sweep.start
    OBVIOUS
  <2> QED BY StepAdvances
<1> QED BY <1>1, Invariance, PTL DEF Spec, SweepAdvances

-----------------------------------------------------------------------------
(* downloadFile implements FileTransfer.                                     *)

(* Neither markEof nor store forgets a byte.                                 *)
LEMMA BufferKeeps ==
  ASSUME NEW d, NEW b \in Buffers(d), NEW at, NEW off, NEW src, NEW len, NEW c \in BOOLEAN
  PROVE  /\ (IF c THEN MarkEof(b, at) ELSE b).data = b.data
         /\ Held(b) \subseteq Held(Store(IF c THEN MarkEof(b, at) ELSE b, off, src, len))
<1> DEFINE m == IF c THEN MarkEof(b, at) ELSE b
<1>1. m.data = b.data /\ "data" \in DOMAIN m
  BY DEF MarkEof, Buffers
<1> HIDE DEF m
<1>2. Store(m, off, src, len).data =
        [i \in Held(m) \cup Gained(m, off, len) |->
           IF i \in Gained(m, off, len) THEN File[src + (i - off)] ELSE m.data[i]]
  BY <1>1 DEF Store
<1>3. Held(Store(m, off, src, len)) = Held(m) \cup Gained(m, off, len)
  BY <1>2 DEF Held
<1>4. Held(m) = Held(b)
  BY <1>1 DEF Held
<1> QED BY <1>1, <1>3, <1>4 DEF m

Dropped == buf'.data = NoBytes

(* The continuations go on with the buffer they are given or start over.     *)
LEMMA ContinuationsKeep ==
  ASSUME NEW b, NEW s, NEW p, NEW reason,
         \/ PatchRound(b) \/ PatchNext(b, p) \/ SweepNext(b, s) \/ FinishBurst(b, s, reason)
  PROVE  buf' = b \/ Dropped
<1>1. Sequential => Dropped
  BY DEF Sequential, ReadNext, NewBuffer, Dropped
<1>2. PatchRound(b) => buf' = b \/ Dropped
  BY <1>1 DEF PatchRound, Terminate, ReadHole
<1>3. PatchNext(b, p) => buf' = b \/ Dropped
  BY <1>1, <1>2 DEF PatchNext, Terminate, ReadHole
<1>4. \A t : SweepNext(b, t) => buf' = b \/ Dropped
  BY <1>2 DEF SweepNext
<1>5. FinishBurst(b, s, reason) => buf' = b \/ Dropped
  BY <1>1, <1>2, <1>4 DEF FinishBurst
<1> QED BY <1>2, <1>3, <1>4, <1>5

(* Bytes are only ever added, except when the fallback starts over.          *)
LEMMA StepKeeps ==
  ASSUME IInv, [Next]_vars
  PROVE  Held(buf) \subseteq Held(buf)' \/ Dropped
<1>0. buf \in Buffers(declared)
  BY DEF IInv, PhaseInv
<1>1. CASE buf' = buf
  BY <1>1 DEF Held
<1>2. ASSUME NEW ans, OpenAccepted(ans) PROVE Dropped
  <2>1. NewBuffer(ans.size).data = NoBytes
    BY DEF NewBuffer
  <2> QED BY <1>2, <2>1, ContinuationsKeep DEF OpenAccepted, Terminate, Dropped
<1>3. ASSUME NEW rep, BurstData(rep) PROVE Held(buf) \subseteq Held(buf)' \/ Dropped
  <2>1. buf' = BurstStored(buf, rep).buf \/ Dropped
    BY <1>3, ContinuationsKeep DEF BurstData
  <2>2. Held(buf) \subseteq Held(BurstStored(buf, rep).buf)
    <3> DEFINE c == 0 < rep.len /\ rep.len < ReadSize
                      /\ (rep.last \/ rep.src + rep.len >= declared)
               m == IF c THEN MarkEof(buf, rep.src + rep.len) ELSE buf
    <3>1. BurstStored(buf, rep).buf = Store(m, rep.src, rep.src, rep.len)
      BY DEF BurstStored
    <3>2. c \in BOOLEAN
      OBVIOUS
    <3> HIDE DEF c
    <3>3. Held(buf) \subseteq Held(Store(m, rep.src, rep.src, rep.len))
      BY <1>0, <3>2, BufferKeeps
    <3> QED BY <3>1, <3>3
  <2> QED BY <2>1, <2>2 DEF Held
<1>4. ASSUME NEW rep, BurstRefused(rep) \/ BurstIdle \/ BurstUnsent
      PROVE  buf' = buf \/ Dropped
  BY <1>4, ContinuationsKeep DEF BurstRefused, BurstIdle, BurstUnsent
<1>5. ASSUME NEW ans, PatchChunk(ans) PROVE Held(buf) \subseteq Held(buf)' \/ Dropped
  <2> DEFINE hole == Current(patch.todo)
             end  == hole[1] + ans.len
             c    == ans.len < ReadSize /\ (ans.len = 0 \/ end >= declared)
             m    == IF c THEN MarkEof(buf, end) ELSE buf
  <2>1. buf' = Store(m, hole[1], ans.src, ans.len) \/ Dropped
    BY <1>5, ContinuationsKeep DEF PatchChunk
  <2>2. c \in BOOLEAN
    OBVIOUS
  <2> HIDE DEF c
  <2>3. Held(buf) \subseteq Held(Store(m, hole[1], ans.src, ans.len))
    BY <1>0, <2>2, BufferKeeps
  <2> QED BY <2>1, <2>3 DEF Held
<1>6. ASSUME NEW ans, PatchFailed(ans) PROVE Held(buf) \subseteq Held(buf)' \/ Dropped
  <2> DEFINE at == Current(patch.todo)[1]
             m  == IF patch.probing THEN MarkEof(buf, at) ELSE buf
  <2>1. buf' = m \/ buf' = buf \/ Dropped
    BY <1>6, ContinuationsKeep DEF PatchFailed, Resend
  <2>2. patch.probing \in BOOLEAN
    BY DEF IInv, PhaseInv, Rounds
  <2>3. m.data = buf.data
    BY <1>0, <2>2, BufferKeeps
  <2> QED BY <2>1, <2>3 DEF Held
<1>7. ASSUME NEW ans, ReadChunk(ans) PROVE Held(buf) \subseteq Held(buf)' \/ Dropped
  <2> DEFINE stored == Store(buf, offset, ans.src, ans.len)
             whole  == MarkEof(stored, offset + ans.len)
  <2>1. buf' \in {MarkEof(buf, offset), stored, whole}
    BY <1>7 DEF ReadChunk, Terminate, ReadNext
  <2>2. MarkEof(buf, offset).data = buf.data /\ Held(buf) \subseteq Held(stored)
    BY <1>0, BufferKeeps
  <2>3. "data" \in DOMAIN stored
    BY <1>0 DEF Store, Buffers
  <2>4. whole.data = stored.data
    BY <2>3 DEF MarkEof
  <2> QED BY <2>1, <2>2, <2>4 DEF Held
<1>8. ASSUME NEW ans, ReadFailed(ans) PROVE Held(buf) \subseteq Held(buf)' \/ Dropped
  <2>1. buf' = buf \/ buf' = MarkEof(buf, offset)
    BY <1>8 DEF ReadFailed, Resend, Terminate
  <2>2. MarkEof(buf, offset).data = buf.data
    BY <1>0, BufferKeeps
  <2> QED BY <2>1, <2>2 DEF Held
<1>9. ASSUME NEW ans, ResetDone(ans) \/ OpenRefused(ans) \/ Reopen(ans) \/ TerminateDone(ans)
      PROVE  buf' = buf
  BY <1>9 DEF ResetDone, OpenRefused, Reopen, TerminateDone, Return, Resend
<1>10. Begin \/ BurstQuiet \/ Finished \/ UNCHANGED vars => buf' = buf
  BY DEF Begin, BurstQuiet, Finished, vars
<1> QED BY <1>1, <1>2, <1>3, <1>4, <1>5, <1>6, <1>7, <1>8, <1>9, <1>10
        DEF Next, Resolved, Answered, BurstPacket, BurstReplied

(* The size is learned before the first byte and never changes after.        *)
LEMMA AnnouncedOnce ==
  ASSUME IInv, [Next]_vars
  PROVE  buf.data = NoBytes \/ declared' = declared
<1>1. ASSUME NEW ans, OpenAccepted(ans) PROVE buf.data = NoBytes
  BY <1>1 DEF OpenAccepted, IInv, PhaseInv
<1>2. ASSUME NEW ans, Answered(ans), ~OpenAccepted(ans) PROVE declared' = declared
  BY <1>2 DEF Answered, ResetDone, OpenRefused, Reopen, PatchChunk, PatchFailed, ReadChunk,
              ReadFailed, TerminateDone, Return, Resend
<1>3. ASSUME NEW rep, BurstReplied(rep) PROVE declared' = declared
  BY <1>3 DEF BurstReplied, BurstData, BurstRefused
<1>4. Begin \/ BurstQuiet \/ BurstIdle \/ BurstUnsent \/ Finished \/ UNCHANGED vars
        => declared' = declared
  BY DEF Begin, BurstQuiet, BurstIdle, BurstUnsent, Finished, vars
<1> QED BY <1>1, <1>2, <1>3, <1>4 DEF Next, Resolved, BurstPacket

(* Once a file is returned nothing about it changes.                         *)
LEMMA ReturnedOnce ==
  ASSUME IInv, [Next]_vars, result # NoFile
  PROVE  UNCHANGED <<buf, declared, result>>
<1>1. pc \in {"terminate", "done"}
  BY DEF IInv, ResultInv
<1>2. ASSUME NEW ans, Answered(ans) PROVE UNCHANGED <<buf, declared, result>>
  BY <1>1, <1>2 DEF Answered, ResetDone, OpenAccepted, OpenRefused, Reopen, PatchChunk,
                    PatchFailed, ReadChunk, ReadFailed, TerminateDone, Return
<1>3. ASSUME NEW rep PROVE ~BurstReplied(rep)
  BY <1>1 DEF BurstReplied, BurstData, BurstRefused
<1>4. ~Begin /\ ~BurstQuiet /\ ~BurstIdle /\ ~BurstUnsent
  BY <1>1 DEF Begin, BurstQuiet, BurstIdle, BurstUnsent
<1>5. Finished \/ UNCHANGED vars => UNCHANGED <<buf, declared, result>>
  BY DEF Finished, vars
<1> QED BY <1>2, <1>3, <1>4, <1>5 DEF Next, Resolved, BurstPacket

LEMMA StepRefines ==
  ASSUME IInv, IInv', [Next]_vars
  PROVE  [Transfer!Next]_(Transfer!ftVars)
<1>1. CASE result # NoFile
  BY <1>1, ReturnedOnce DEF Transfer!ftVars
<1>2. CASE result = NoFile
  <2>1. ~result.ok
    BY <1>2 DEF NoFile
  <2>2. declared \in Nat /\ buf.data \in Parts /\ declared' \in Nat /\ buf'.data \in Parts
    BY DEF IInv, PhaseInv, Buffers
  <2>3. Transfer!Learn \/ Transfer!Restart
    BY <2>2, StepKeeps, PartFacts
       DEF Transfer!Learn, Transfer!Restart, Transfer!Nothing, Dropped, NoBytes, Held
  <2>4. buf.data = Transfer!Nothing \/ declared' = declared
    BY AnnouncedOnce DEF Transfer!Nothing, NoBytes
  <2>5. CASE result' = NoFile
    BY <1>2, <2>1, <2>2, <2>3, <2>4, <2>5 DEF Transfer!Next
  <2>6. CASE result' # NoFile
    <3>1. result' \in Prefixes(declared') /\ DOMAIN result'.bytes \subseteq DOMAIN buf'.data
      BY <2>6 DEF IInv, ResultInv, Held
    <3>2. PICK n \in Floor(declared') .. FileLen :
            result' = [ok |-> TRUE, bytes |-> [i \in 0 .. n - 1 |-> File[i]]]
      BY <3>1 DEF Prefixes
    <3>3. n \in 0 .. FileLen /\ (declared' <= n \/ n = FileLen)
      BY <2>2, <3>2, FloorFacts, FileAssumption DEF Floor, MinOf
    <3>4. 0 .. n - 1 \subseteq DOMAIN buf'.data
      BY <3>1, <3>2
    <3>5. [i \in 0 .. n - 1 |-> File[i]] = [i \in 0 .. n - 1 |-> buf'.data[i]]
      BY <2>2, <3>4, PartFacts
    <3>6. Transfer!Deliver
      BY <3>2, <3>3, <3>4, <3>5 DEF Transfer!Deliver
    <3> QED BY <2>1, <2>2, <2>3, <2>4, <3>6 DEF Transfer!Next
  <2> QED BY <2>5, <2>6
<1> QED BY <1>1, <1>2

(* Whatever the link does, downloadFile is a FileTransfer.                   *)
THEOREM Refinement == Spec => Implements
<1>1. Init => Transfer!Init
  BY DEF Init, NewBuffer, NoBytes, NoFile, Transfer!Init, Transfer!Nothing
<1>2. IInv /\ IInv' /\ [Next]_vars => [Transfer!Next]_(Transfer!ftVars)
  BY StepRefines
<1> QED BY <1>1, <1>2, Invariance, PTL DEF Spec, Implements, Transfer!Spec
=============================================================================
