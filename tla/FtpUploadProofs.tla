--------------------------- MODULE FtpUploadProofs ---------------------------
(***************************************************************************)
(* Proofs about FtpUpload, for contents and an old file of any size, any   *)
(* number of retries and links that hold any number of packets.            *)
(***************************************************************************)
EXTENDS FtpUpload, SequenceTheorems, TLAPS

-----------------------------------------------------------------------------
(* The inductive invariant.                                                  *)

Phases == {"idle", "reset", "open", "reopen", "create", "recreate", "write",
           "terminate", "done"}
Ops == {"ResetSessions", "OpenFileWO", "CreateFile", "WriteFile", "TerminateSession"}
Answers == {"Ack", "Fail", "NoSessionsAvailable"}
Requests == [seq : Seqs, op : Ops, at : 0 .. NumChunks]
Replies == [seq : Seqs, ans : Answers]

Types == TypeOK /\ up \in Seq(Requests) /\ down \in Seq(Replies)

(* How many requests ago the one numbered s was sent when the last is n, if  *)
(* it is less than SeqMod; and the number of the request a reply is to.      *)
Age(s, n) == IF s <= n THEN n - s ELSE n + SeqMod - s
Back(n) == IF n = 0 THEN SeqMod - 1 ELSE n - 1

(* The packets on the links u and d are of different requests, the replies   *)
(* of older ones than those still on their way, and in the order the         *)
(* requests were sent, the oldest b requests before the last.                *)
Flight(u, d, n, b) ==
  /\ \A k \in DOMAIN u : Age(u[k].seq, n) <= b
  /\ \A k \in DOMAIN d : Age(Back(d[k].seq), n) <= b
  /\ \A k, l \in DOMAIN u : k < l => Age(u[k].seq, n) > Age(u[l].seq, n)
  /\ \A k, l \in DOMAIN d : k < l => Age(Back(d[k].seq), n) > Age(Back(d[l].seq), n)
  /\ \A k \in DOMAIN d, l \in DOMAIN u : Age(Back(d[k].seq), n) > Age(u[l].seq, n)

(* How many requests may have been sent since the last matching reply when   *)
(* the client is at p in attempt r.                                          *)
Budget(p, r) ==
  CASE p = "idle" -> -1
    [] p \in {"reset", "reopen", "recreate"} -> 0
    [] p = "open" -> r + 1
    [] p = "create" -> MaxRetries + 1 + r
    [] p = "write" -> r
    [] p = "terminate" -> MaxRetries
    [] p = "done" -> 2 * MaxRetries

Opening == {"idle", "reset", "open", "reopen", "create", "recreate"}

ClientInv ==
  /\ pendingSeq = IF pc \in {"idle", "done"} THEN None ELSE seqNumber
  /\ pc \in Opening => chunk = 0
  /\ pc = "write" => chunk < NumChunks
  /\ verdict # "none" => pc \in {"terminate", "done"}

(* While the client is at p with chunk c and verdict v: a write on its way   *)
(* is of that chunk, and nothing on its way to the FC truncates a file that  *)
(* is being written.                                                         *)
Cargo(u, p, c, v) ==
  \A k \in DOMAIN u :
    /\ u[k].op = "WriteFile" => p \notin Opening /\ u[k].at = c
    /\ u[k].op = "CreateFile" =>
         \/ p \in Opening
         \/ p = "done" /\ v # "ok" /\ c = 0
    /\ p = "write" => u[k].op = "WriteFile"

(* A reply that would match says the truth about the chunk on disk.          *)
DownInv ==
  pc = "write" =>
    \A k \in DOMAIN down :
      down[k].seq = NextSeq(seqNumber) /\ down[k].ans = "Ack" => disk[chunk] = "new"

(* The chunks before the current one are on disk.                            *)
DiskInv == \A i \in Places : i < chunk => disk[i] = "new"

IInv ==
  /\ Types
  /\ Flight(up, down, seqNumber, Budget(pc, retry))
  /\ ClientInv
  /\ Cargo(up, pc, chunk, verdict)
  /\ DownInv
  /\ DiskInv
  /\ UploadFaithful
  /\ WrittenInOrder

-----------------------------------------------------------------------------
(* Sequence numbers.                                                         *)

LEMMA ConstantFacts ==
  /\ NumChunks \in Nat /\ OldChunks \in Nat /\ MaxRetries \in Nat /\ MaxRetries > 0
  /\ Window \in Nat /\ Window > 0 /\ SeqMod \in Nat /\ SeqMod > 2 * MaxRetries
  /\ 0 .. NumChunks - 1 \subseteq Places
BY UploadAssumption DEF Places

LEMMA NextSeqIs ==
  ASSUME NEW n \in Seqs
  PROVE  NextSeq(n) = (IF n + 1 = SeqMod THEN 0 ELSE n + 1) /\ NextSeq(n) \in Seqs
<1>1. n \in Nat /\ n + 1 <= SeqMod /\ SeqMod \in Nat /\ SeqMod > 0
  BY ConstantFacts DEF Seqs
<1>2. CASE n + 1 = SeqMod
  <2>1. (n + 1) % SeqMod = 0
    BY <1>1, <1>2
  <2> QED BY <1>1, <1>2, <2>1 DEF NextSeq, Seqs
<1>3. CASE n + 1 < SeqMod
  <2>1. (n + 1) % SeqMod = n + 1
    BY <1>1, <1>3
  <2> QED BY <1>1, <1>3, <2>1 DEF NextSeq, Seqs
<1> QED BY <1>1, <1>2, <1>3

(* A request that is sent makes the others one older.                        *)
LEMMA AgeFacts ==
  ASSUME NEW s \in Seqs, NEW n \in Seqs
  PROVE  /\ Age(s, n) \in Nat /\ Age(s, n) < SeqMod
         /\ Age(s, n) = 0 <=> s = n
         /\ Age(s, n) + 1 < SeqMod => Age(s, NextSeq(n)) = Age(s, n) + 1
         /\ Back(s) \in Seqs /\ NextSeq(Back(s)) = s /\ Back(NextSeq(s)) = s
<1>1. /\ NextSeq(n) = (IF n + 1 = SeqMod THEN 0 ELSE n + 1)
      /\ NextSeq(s) = (IF s + 1 = SeqMod THEN 0 ELSE s + 1)
  BY NextSeqIs
<1>2. s \in Nat /\ n \in Nat /\ s < SeqMod /\ n < SeqMod /\ SeqMod \in Nat /\ SeqMod > 2
  BY ConstantFacts DEF Seqs
<1>3. Back(s) \in Seqs
  BY <1>2 DEF Back, Seqs
<1>4. NextSeq(Back(s)) = (IF Back(s) + 1 = SeqMod THEN 0 ELSE Back(s) + 1)
  BY <1>3, NextSeqIs
<1>5. NextSeq(Back(s)) = s /\ Back(NextSeq(s)) = s
  BY <1>1, <1>2, <1>4 DEF Back
<1>6. Age(s, n) \in Nat /\ Age(s, n) < SeqMod /\ (Age(s, n) = 0 <=> s = n)
  BY <1>2 DEF Age
<1>7. Age(s, n) + 1 < SeqMod => Age(s, NextSeq(n)) = Age(s, n) + 1
  BY <1>1, <1>2 DEF Age
<1> QED BY <1>3, <1>5, <1>6, <1>7

-----------------------------------------------------------------------------
(* The links.                                                                *)

LEMMA TailFacts ==
  ASSUME NEW S, NEW q \in Seq(S), q # <<>>
  PROVE  /\ Tail(q) \in Seq(S) /\ Len(Tail(q)) = Len(q) - 1 /\ Len(q) \in Nat \ {0}
         /\ Head(q) = q[1] /\ 1 \in DOMAIN q /\ Head(q) \in S
         /\ \A k \in DOMAIN Tail(q) : Tail(q)[k] = q[k + 1] /\ k + 1 \in DOMAIN q
         /\ \A k \in DOMAIN q, l \in DOMAIN q : k \in Int /\ l \in Int
BY HeadTailProperties, LenProperties

LEMMA UpFacts ==
  ASSUME NEW u \in Seq(Requests), NEW k \in DOMAIN u
  PROVE  u[k] \in Requests /\ u[k].seq \in Seqs /\ k \in Nat \ {0}
<1>1. u[k] \in Requests /\ k \in Nat \ {0}
  BY LenProperties, ElementOfSeq
<1> QED BY <1>1 DEF Requests

LEMMA DownFacts ==
  ASSUME NEW d \in Seq(Replies), NEW k \in DOMAIN d
  PROVE  /\ d[k] \in Replies /\ d[k].seq \in Seqs /\ Back(d[k].seq) \in Seqs
         /\ k \in Nat \ {0}
<1>1. d[k] \in Replies /\ k \in Nat \ {0}
  BY LenProperties, ElementOfSeq
<1>2. d[k].seq \in Seqs
  BY <1>1 DEF Replies
<1> QED BY <1>1, <1>2, AgeFacts

(* The queue c, but for its last packet, is the queue q without the first    *)
(* off packets.                                                              *)
Shifted(c, q, off) ==
  \A k \in 1 .. Len(c) - 1 : k + off \in DOMAIN q /\ c[k] = q[k + off]

(* A packet is carried behind those that stay on the link.                   *)
LEMMA CarryFacts ==
  ASSUME NEW S, NEW q \in Seq(S), Len(q) <= Window, NEW x \in S
  PROVE  /\ Carry(q, x) \in Seq(S) /\ Len(Carry(q, x)) \in 1 .. Window
         /\ DOMAIN Carry(q, x) = 1 .. Len(Carry(q, x))
         /\ Carry(q, x)[Len(Carry(q, x))] = x
         /\ Shifted(Carry(q, x), q, 0) \/ Shifted(Carry(q, x), q, 1)
<1>1. Window \in Nat /\ Window > 0
  BY ConstantFacts
<1>2. CASE Len(q) < Window
  <2>1. Carry(q, x) = Append(q, x)
    BY <1>2 DEF Carry
  <2>2. /\ Append(q, x) \in Seq(S) /\ Len(Append(q, x)) = Len(q) + 1 /\ Len(q) \in Nat
        /\ DOMAIN q = 1 .. Len(q) /\ DOMAIN Append(q, x) = 1 .. Len(q) + 1
        /\ \A k \in 1 .. Len(q) : Append(q, x)[k] = q[k]
        /\ Append(q, x)[Len(q) + 1] = x
    BY AppendProperties, LenProperties
  <2>3. Shifted(Append(q, x), q, 0)
    BY <2>2 DEF Shifted
  <2> QED BY <1>1, <1>2, <2>1, <2>2, <2>3
<1>3. CASE Len(q) = Window
  <2>1. Carry(q, x) = Append(Tail(q), x)
    BY <1>3 DEF Carry
  <2>2. q # <<>>
    BY <1>1, <1>3
  <2> DEFINE t == Tail(q)
  <2>3. /\ t \in Seq(S) /\ Len(t) = Len(q) - 1 /\ Len(q) \in Nat \ {0}
        /\ \A k \in DOMAIN t : t[k] = q[k + 1] /\ k + 1 \in DOMAIN q
    BY <2>2, TailFacts
  <2> HIDE DEF t
  <2>4. /\ Append(t, x) \in Seq(S) /\ Len(Append(t, x)) = Len(t) + 1
        /\ DOMAIN t = 1 .. Len(t) /\ DOMAIN Append(t, x) = 1 .. Len(t) + 1
        /\ \A k \in 1 .. Len(t) : Append(t, x)[k] = t[k]
        /\ Append(t, x)[Len(t) + 1] = x
    BY <2>3, AppendProperties, LenProperties
  <2>5. Shifted(Append(t, x), q, 1)
    BY <2>3, <2>4 DEF Shifted
  <2>6. Carry(q, x) = Append(t, x)
    BY <2>1 DEF t
  <2> QED BY <1>1, <1>3, <2>3, <2>4, <2>5, <2>6
<1> QED BY <1>1, <1>2, <1>3, LenProperties

LEMMA FlightWeaken ==
  ASSUME NEW u \in Seq(Requests), NEW d \in Seq(Replies), NEW n \in Seqs,
         NEW b \in Int, NEW c \in Int, b <= c, Flight(u, d, n, b)
  PROVE  Flight(u, d, n, c)
<1>1. \A k \in DOMAIN u : u[k].seq \in Seqs
  BY UpFacts
<1>2. \A k \in DOMAIN d : Back(d[k].seq) \in Seqs
  BY DownFacts
<1>3. \A s \in Seqs : Age(s, n) \in Int
  BY AgeFacts
<1> QED BY <1>1, <1>2, <1>3 DEF Flight

LEMMA FlightNothing ==
  ASSUME NEW n, NEW b
  PROVE  Flight(<<>>, <<>>, n, b)
BY DEF Flight

(* Packets that leave the links leave the others in order.                   *)
LEMMA FlightLoses ==
  ASSUME NEW u \in Seq(Requests), NEW d \in Seq(Replies), NEW n, NEW b, Flight(u, d, n, b)
  PROVE  /\ u # <<>> => Flight(Tail(u), d, n, b)
         /\ d # <<>> => Flight(u, Tail(d), n, b)
<1>1. ASSUME u # <<>> PROVE Flight(Tail(u), d, n, b)
  <2>1. \A k \in DOMAIN Tail(u) : k \in Int /\ Tail(u)[k] = u[k + 1] /\ k + 1 \in DOMAIN u
    BY <1>1, TailFacts
  <2> QED BY <2>1 DEF Flight
<1>2. ASSUME d # <<>> PROVE Flight(u, Tail(d), n, b)
  <2>1. \A k \in DOMAIN Tail(d) : k \in Int /\ Tail(d)[k] = d[k + 1] /\ k + 1 \in DOMAIN d
    BY <1>2, TailFacts
  <2> QED BY <2>1 DEF Flight
<1> QED BY <1>1, <1>2

(* A reply to the last request is the last packet on either link.            *)
LEMMA FlightMatch ==
  ASSUME NEW u \in Seq(Requests), NEW d \in Seq(Replies), NEW n \in Seqs, NEW b,
         Flight(u, d, n, b), d # <<>>, Head(d).seq = NextSeq(n)
  PROVE  u = <<>> /\ Tail(d) = <<>>
<1>1. Back(d[1].seq) = n /\ 1 \in DOMAIN d
  BY TailFacts, AgeFacts
<1>2. Age(Back(d[1].seq), n) = 0
  BY <1>1, AgeFacts
<1>3. u = <<>>
  <2>1. SUFFICES ASSUME u # <<>> PROVE FALSE
    OBVIOUS
  <2>2. 1 \in DOMAIN u /\ u[1].seq \in Seqs
    BY <2>1, TailFacts, UpFacts
  <2>3. Age(u[1].seq, n) < 0
    BY <1>1, <1>2, <2>2 DEF Flight
  <2>4. Age(u[1].seq, n) \in Nat
    BY <2>2, AgeFacts
  <2> QED BY <2>3, <2>4
<1>4. Tail(d) = <<>>
  <2>1. SUFFICES ASSUME Tail(d) # <<>> PROVE FALSE
    OBVIOUS
  <2>2. 2 \in DOMAIN d
    <3>1. Tail(d) \in Seq(Replies)
      BY TailFacts
    <3>2. 1 \in DOMAIN Tail(d)
      BY <2>1, <3>1, TailFacts
    <3> QED BY <3>2, TailFacts
  <2>4. Back(d[2].seq) \in Seqs
    BY <2>2, DownFacts
  <2>5. Age(Back(d[2].seq), n) < 0
    BY <1>1, <1>2, <2>2 DEF Flight
  <2>6. Age(Back(d[2].seq), n) \in Nat
    BY <2>4, AgeFacts
  <2> QED BY <2>5, <2>6
<1> QED BY <1>3, <1>4

(* A request is sent: it is the youngest packet, and no reply is to it.      *)
LEMMA FlightSend ==
  ASSUME NEW u \in Seq(Requests), NEW d \in Seq(Replies), NEW n \in Seqs,
         NEW b \in Int, b + 1 < SeqMod, -1 <= b, Flight(u, d, n, b), Len(u) <= Window,
         NEW x \in Requests, x.seq = NextSeq(n)
  PROVE  /\ Flight(Carry(u, x), d, NextSeq(n), b + 1)
         /\ \A k \in DOMAIN d : d[k].seq # NextSeq(NextSeq(n))
<1> DEFINE c == Carry(u, x)
           m == NextSeq(n)
<1>1. /\ c \in Seq(Requests) /\ Len(c) \in Nat \ {0} /\ DOMAIN c = 1 .. Len(c)
      /\ c[Len(c)] = x
  BY CarryFacts
<1>2. PICK off \in {0, 1} : Shifted(c, u, off)
  BY CarryFacts
<1>3. m \in Seqs
  BY NextSeqIs
<1> HIDE DEF c, m
<1>4. Age(x.seq, m) = 0
  BY <1>3, AgeFacts DEF m
<1>5. ASSUME NEW k \in DOMAIN u
      PROVE  Age(u[k].seq, n) \in Nat /\ Age(u[k].seq, m) = Age(u[k].seq, n) + 1
  <2>1. u[k].seq \in Seqs
    BY UpFacts
  <2>2. Age(u[k].seq, n) \in Nat /\ SeqMod \in Nat /\ Age(u[k].seq, n) <= b
    BY <2>1, AgeFacts, ConstantFacts DEF Flight
  <2>3. Age(u[k].seq, n) + 1 < SeqMod
    BY <2>2
  <2> QED BY <2>1, <2>2, <2>3, AgeFacts DEF m
<1>6. ASSUME NEW k \in DOMAIN d
      PROVE  /\ Age(Back(d[k].seq), n) \in Nat
             /\ Age(Back(d[k].seq), m) = Age(Back(d[k].seq), n) + 1
  <2>1. Back(d[k].seq) \in Seqs
    BY DownFacts
  <2>2. Age(Back(d[k].seq), n) \in Nat /\ SeqMod \in Nat /\ Age(Back(d[k].seq), n) <= b
    BY <2>1, AgeFacts, ConstantFacts DEF Flight
  <2>3. Age(Back(d[k].seq), n) + 1 < SeqMod
    BY <2>2
  <2> QED BY <2>1, <2>2, <2>3, AgeFacts DEF m
<1>7. ASSUME NEW k \in DOMAIN c
      PROVE  \/ k = Len(c) /\ Age(c[k].seq, m) = 0
             \/ /\ k \in 1 .. Len(c) - 1 /\ k + off \in DOMAIN u
                /\ Age(c[k].seq, m) = Age(u[k + off].seq, n) + 1
                /\ Age(u[k + off].seq, n) \in Nat
  <2>1. CASE k = Len(c)
    BY <1>1, <1>4, <2>1
  <2>2. CASE k \in 1 .. Len(c) - 1
    BY <1>2, <1>5, <2>2 DEF Shifted
  <2> QED BY <1>1, <2>1, <2>2
<1>8. \A k \in DOMAIN d : Age(Back(d[k].seq), m) # 0
  BY <1>6
<1>9. \A k \in DOMAIN d : d[k].seq # NextSeq(m)
  <2> SUFFICES ASSUME NEW k \in DOMAIN d, d[k].seq = NextSeq(m) PROVE FALSE
    OBVIOUS
  <2>1. Back(d[k].seq) = m
    BY <1>3, AgeFacts
  <2> QED BY <1>3, <1>8, <2>1, AgeFacts
<1>10. Flight(c, d, m, b + 1)
  <2>1. \A k \in DOMAIN c : Age(c[k].seq, m) <= b + 1
    BY <1>7 DEF Flight
  <2>2. \A k \in DOMAIN d : Age(Back(d[k].seq), m) <= b + 1
    BY <1>6 DEF Flight
  <2>3. ASSUME NEW k \in DOMAIN c, NEW l \in DOMAIN c, k < l
        PROVE  Age(c[k].seq, m) > Age(c[l].seq, m)
    <3>1. k \in 1 .. Len(c) - 1 /\ k \in Nat /\ l \in Nat /\ off \in Nat
      BY <1>1, <2>3
    <3>2. /\ k + off \in DOMAIN u
          /\ Age(c[k].seq, m) = Age(u[k + off].seq, n) + 1
          /\ Age(u[k + off].seq, n) \in Nat
      BY <1>1, <1>7, <3>1
    <3>3. CASE l = Len(c)
      <4>1. Age(c[l].seq, m) = 0
        BY <1>1, <1>4, <3>3
      <4> QED BY <3>2, <4>1
    <3>4. CASE l # Len(c)
      <4>1. /\ l + off \in DOMAIN u
            /\ Age(c[l].seq, m) = Age(u[l + off].seq, n) + 1
            /\ Age(u[l + off].seq, n) \in Nat
        BY <1>7, <3>4
      <4>2. Age(u[k + off].seq, n) > Age(u[l + off].seq, n)
        <5>1. k + off < l + off
          BY <2>3, <3>1
        <5> QED BY <3>2, <4>1, <5>1 DEF Flight
      <4> QED BY <3>2, <4>1, <4>2
    <3> QED BY <3>3, <3>4
  <2>4. ASSUME NEW k \in DOMAIN d, NEW l \in DOMAIN d, k < l
        PROVE  Age(Back(d[k].seq), m) > Age(Back(d[l].seq), m)
    BY <1>6, <2>4 DEF Flight
  <2>5. ASSUME NEW k \in DOMAIN d, NEW l \in DOMAIN c
        PROVE  Age(Back(d[k].seq), m) > Age(c[l].seq, m)
    <3>1. CASE Age(c[l].seq, m) = 0
      BY <1>6, <3>1
    <3>2. CASE /\ l + off \in DOMAIN u
               /\ Age(c[l].seq, m) = Age(u[l + off].seq, n) + 1
               /\ Age(u[l + off].seq, n) \in Nat
      BY <1>6, <3>2 DEF Flight
    <3> QED BY <1>7, <3>1, <3>2
  <2> QED BY <2>1, <2>2, <2>3, <2>4, <2>5 DEF Flight
<1> QED BY <1>9, <1>10 DEF c, m

(* A request is answered: of those on the way it was the oldest.             *)
LEMMA FlightServe ==
  ASSUME NEW u \in Seq(Requests), NEW d \in Seq(Replies), NEW n \in Seqs, NEW b \in Int,
         Flight(u, d, n, b), u # <<>>, Len(d) <= Window,
         NEW x \in Replies, x.seq = NextSeq(Head(u).seq)
  PROVE  Flight(Tail(u), Carry(d, x), n, b)
<1> DEFINE c == Carry(d, x)
<1>1. /\ c \in Seq(Replies) /\ Len(c) \in Nat \ {0} /\ DOMAIN c = 1 .. Len(c)
      /\ c[Len(c)] = x
  BY CarryFacts
<1>2. PICK off \in {0, 1} : Shifted(c, d, off)
  BY CarryFacts
<1> HIDE DEF c
<1>3. 1 \in DOMAIN u /\ Head(u) = u[1] /\ u[1].seq \in Seqs
  BY TailFacts, UpFacts
<1>4. Back(x.seq) = u[1].seq
  BY <1>3, AgeFacts
<1>5. ASSUME NEW k \in DOMAIN Tail(u)
      PROVE  Tail(u)[k] = u[k + 1] /\ k + 1 \in DOMAIN u /\ 1 < k + 1
  BY TailFacts, UpFacts
<1>6. ASSUME NEW k \in DOMAIN c
      PROVE  \/ k = Len(c) /\ Back(c[k].seq) = u[1].seq
             \/ k \in 1 .. Len(c) - 1 /\ k + off \in DOMAIN d /\ c[k] = d[k + off]
  BY <1>1, <1>2, <1>4 DEF Shifted
<1>7. \A k \in DOMAIN Tail(u) : Age(Tail(u)[k].seq, n) <= b
  BY <1>5 DEF Flight
<1>8. \A k \in DOMAIN c : Age(Back(c[k].seq), n) <= b
  BY <1>3, <1>6 DEF Flight
<1>9. ASSUME NEW k \in DOMAIN Tail(u), NEW l \in DOMAIN Tail(u), k < l
      PROVE  Age(Tail(u)[k].seq, n) > Age(Tail(u)[l].seq, n)
  <2>1. k \in Nat /\ l \in Nat
    BY TailFacts, UpFacts
  <2>2. k + 1 < l + 1
    BY <1>9, <2>1
  <2> QED BY <1>5, <2>2 DEF Flight
<1>10. ASSUME NEW k \in DOMAIN c, NEW l \in DOMAIN c, k < l
       PROVE  Age(Back(c[k].seq), n) > Age(Back(c[l].seq), n)
  <2>1. k \in Nat /\ l \in Nat /\ off \in Nat /\ k # Len(c)
    BY <1>1, <1>10
  <2>2. k + off \in DOMAIN d /\ c[k] = d[k + off]
    BY <1>6, <2>1
  <2>3. CASE Back(c[l].seq) = u[1].seq
    BY <1>3, <2>2, <2>3 DEF Flight
  <2>4. CASE l + off \in DOMAIN d /\ c[l] = d[l + off]
    <3>1. k + off < l + off
      BY <1>10, <2>1
    <3> QED BY <2>2, <2>4, <3>1 DEF Flight
  <2> QED BY <1>6, <2>3, <2>4
<1>11. ASSUME NEW k \in DOMAIN c, NEW l \in DOMAIN Tail(u)
       PROVE  Age(Back(c[k].seq), n) > Age(Tail(u)[l].seq, n)
  <2>1. Tail(u)[l] = u[l + 1] /\ l + 1 \in DOMAIN u /\ 1 < l + 1
    BY <1>5
  <2>2. CASE Back(c[k].seq) = u[1].seq
    BY <1>3, <2>1, <2>2 DEF Flight
  <2>3. CASE k + off \in DOMAIN d /\ c[k] = d[k + off]
    BY <2>1, <2>3 DEF Flight
  <2> QED BY <1>6, <2>2, <2>3
<1>12. Flight(Tail(u), c, n, b)
  BY <1>7, <1>8, <1>9, <1>10, <1>11 DEF Flight
<1> QED BY <1>12 DEF c

-----------------------------------------------------------------------------
(* The client.                                                               *)

LEMMA BudgetFacts ==
  ASSUME NEW p \in Phases, NEW r \in 0 .. MaxRetries - 1
  PROVE  /\ Budget(p, r) \in Int /\ -1 <= Budget(p, r) /\ Budget(p, r) <= 2 * MaxRetries
         /\ Budget(p, r) < SeqMod
<1>1. MaxRetries \in Nat /\ MaxRetries > 0 /\ SeqMod \in Nat /\ SeqMod > 2 * MaxRetries
  BY ConstantFacts
<1>2. r \in Nat /\ r <= MaxRetries - 1
  BY <1>1
<1> QED BY <1>1, <1>2 DEF Budget, Phases

(* A client step that sends a request, which the next state awaits.          *)
LEMMA SentGood ==
  ASSUME IInv, UNCHANGED fcVars,
         down' \in Seq(Replies), Len(down') <= Window,
         NEW e \in Int, -1 <= e, Flight(up, down', seqNumber, e), e + 1 <= Budget(pc', retry'),
         NEW op \in Ops, NEW at \in 0 .. NumChunks, Send(op, at),
         pc' \in Phases \ {"idle", "done"}, retry' \in 0 .. MaxRetries - 1,
         chunk' \in 0 .. NumChunks, verdict' \in {"none", "ok", "error"},
         pc' \in Opening => chunk' = 0,
         pc' = "write" => chunk' < NumChunks,
         verdict' # "none" => pc' = "terminate",
         op = "WriteFile" => pc' \notin Opening /\ at = chunk',
         op = "CreateFile" => pc' \in Opening,
         pc' = "write" => op = "WriteFile",
         Cargo(up, pc', chunk', verdict'),
         \A i \in Places : i < chunk' => disk[i] = "new",
         verdict' = "ok" => \A i \in 0 .. NumChunks - 1 : disk[i] = "new"
  PROVE  IInv'
<1> DEFINE x == [seq |-> NextSeq(seqNumber), op |-> op, at |-> at]
<1>1. /\ seqNumber' = NextSeq(seqNumber) /\ pendingSeq' = seqNumber'
      /\ up' = Carry(up, x)
      /\ disk' = disk
  BY DEF Send, fcVars
<1>2. /\ seqNumber \in Seqs /\ up \in Seq(Requests) /\ Len(up) <= Window
      /\ disk \in [Places -> {"none", "zero", "old", "new"}]
      /\ WrittenInOrder
  BY DEF IInv, Types, TypeOK
<1>3. NextSeq(seqNumber) \in Seqs
  BY <1>2, NextSeqIs
<1>4. x \in Requests /\ x.seq = NextSeq(seqNumber) /\ x.op = op /\ x.at = at
  BY <1>3 DEF Requests
<1> HIDE DEF x
<1>5. /\ Budget(pc', retry') \in Int /\ Budget(pc', retry') < SeqMod /\ SeqMod \in Nat
      /\ Window \in Nat
  BY BudgetFacts, ConstantFacts
<1>6. /\ up' \in Seq(Requests) /\ Len(up') \in 1 .. Window /\ DOMAIN up' = 1 .. Len(up')
      /\ up'[Len(up')] = x
  <2> DEFINE c == Carry(up, x)
  <2>1. /\ c \in Seq(Requests) /\ Len(c) \in 1 .. Window /\ DOMAIN c = 1 .. Len(c)
        /\ c[Len(c)] = x
    BY <1>2, <1>4, CarryFacts
  <2> HIDE DEF c
  <2> QED BY <1>1, <2>1 DEF c
<1>7. PICK off \in {0, 1} : Shifted(up', up, off)
  <2>1. Shifted(Carry(up, x), up, 0) \/ Shifted(Carry(up, x), up, 1)
    BY <1>2, <1>4, CarryFacts
  <2> QED BY <1>1, <2>1
<1>8. e + 1 < SeqMod
  BY <1>5
<1>9. /\ Flight(up', down', seqNumber', e + 1)
      /\ \A k \in DOMAIN down' : down'[k].seq # NextSeq(seqNumber')
  BY <1>1, <1>2, <1>4, <1>8, FlightSend
<1>10. seqNumber' \in Seqs
  BY <1>1, <1>3
<1>11. Flight(up', down', seqNumber', Budget(pc', retry'))
  BY <1>5, <1>6, <1>9, <1>10, FlightWeaken
<1>12. Cargo(up', pc', chunk', verdict')
  <2> SUFFICES ASSUME NEW k \in DOMAIN up'
               PROVE  \/ up'[k].op = op /\ up'[k].at = at
                      \/ \E j \in DOMAIN up : up'[k] = up[j]
    BY DEF Cargo
  <2>1. CASE k = Len(up')
    BY <1>4, <1>6, <2>1
  <2>2. CASE k \in 1 .. Len(up') - 1
    BY <1>7, <2>2 DEF Shifted
  <2> QED BY <1>6, <2>1, <2>2
<1>13. ClientInv'
  BY <1>1 DEF ClientInv, Phases
<1>14. Types'
  BY <1>1, <1>2, <1>6, <1>10 DEF Types, TypeOK, Phases
<1>15. DownInv'
  BY <1>9 DEF DownInv
<1>16. DiskInv' /\ UploadFaithful' /\ WrittenInOrder'
  BY <1>1, <1>2 DEF DiskInv, UploadFaithful, WrittenInOrder
<1> QED BY <1>11, <1>12, <1>13, <1>14, <1>15, <1>16 DEF IInv

(* uploadFile returns.                                                       *)
LEMMA ReturnGood ==
  ASSUME IInv, UNCHANGED fcVars,
         down' \in Seq(Replies), Len(down') <= Window,
         NEW e \in Int, e <= 2 * MaxRetries, Flight(up, down', seqNumber, e),
         NEW res \in {"none", "ok", "error"}, Return(res), pc' = "done",
         Cargo(up, "done", chunk, res),
         res = "ok" => \A i \in 0 .. NumChunks - 1 : disk[i] = "new"
  PROVE  IInv'
<1>1. /\ retry' = 0 /\ verdict' = res /\ pendingSeq' = None
      /\ chunk' = chunk /\ seqNumber' = seqNumber /\ up' = up
      /\ disk' = disk
  BY DEF Return, fcVars
<1>2. Types /\ WrittenInOrder /\ DiskInv
  BY DEF IInv
<1>3. MaxRetries \in Nat /\ MaxRetries > 0 /\ 2 * MaxRetries \in Int
  BY ConstantFacts
<1>4. Budget(pc', retry') = 2 * MaxRetries
  BY DEF Budget
<1>5. Flight(up', down', seqNumber', Budget(pc', retry'))
  <2>1. Flight(up, down', seqNumber, 2 * MaxRetries)
    BY <1>2, <1>3, FlightWeaken DEF Types, TypeOK
  <2> QED BY <1>1, <1>4, <2>1
<1>6. Types'
  BY <1>1, <1>2, <1>3 DEF Types, TypeOK
<1>7. ClientInv'
  BY <1>1 DEF ClientInv, Opening
<1>8. DownInv'
  BY DEF DownInv
<1>9. DiskInv' /\ UploadFaithful' /\ WrittenInOrder'
  BY <1>1, <1>2 DEF DiskInv, UploadFaithful, WrittenInOrder
<1>10. Cargo(up', pc', chunk', verdict')
  BY <1>1
<1> QED BY <1>5, <1>6, <1>7, <1>8, <1>9, <1>10 DEF IInv

(* What the steps below have in common.                                      *)
LEMMA ClientFacts ==
  ASSUME IInv
  PROVE  /\ pc \in Phases /\ retry \in 0 .. MaxRetries - 1 /\ retry \in Nat
         /\ chunk \in 0 .. NumChunks /\ chunk \in Nat
         /\ verdict \in {"none", "ok", "error"}
         /\ pc \in Opening => chunk = 0
         /\ pc = "write" => chunk < NumChunks
         /\ verdict # "none" => pc \in {"terminate", "done"}
         /\ Cargo(up, pc, chunk, verdict) /\ DiskInv /\ UploadFaithful
         /\ up \in Seq(Requests) /\ seqNumber \in Seqs
         /\ MaxRetries \in Nat /\ MaxRetries > 0 /\ NumChunks \in Nat
BY ConstantFacts DEF IInv, Types, TypeOK, ClientInv, Phases

LEMMA AgainGood ==
  ASSUME IInv, UNCHANGED fcVars,
         down' \in Seq(Replies), Len(down') <= Window,
         NEW e \in Int, -1 <= e, e <= Budget(pc, retry), Flight(up, down', seqNumber, e),
         NEW p \in {"open", "create", "write"}, Again(p),
         pc = p \/ (pc = "reopen" /\ p = "open") \/ (pc = "recreate" /\ p = "create")
  PROVE  IInv'
<1>1. /\ retry + 1 < MaxRetries /\ pc' = p /\ retry' = retry + 1
      /\ Send(Request(p), chunk) /\ chunk' = chunk /\ verdict' = verdict
  BY ClientFacts DEF Again, LastTry
<1>2. retry' \in 0 .. MaxRetries - 1
  BY <1>1, ClientFacts
<1>3. e + 1 <= Budget(pc', retry')
  BY <1>1, ClientFacts DEF Budget
<1>4. Request(p) \in Ops /\ (Request(p) = "WriteFile" <=> p = "write")
  BY DEF Request, Ops
<1>5. Cargo(up, pc', chunk', verdict')
  BY <1>1, ClientFacts DEF Cargo, Opening
<1>6. pc' \in Phases \ {"idle", "done"} /\ chunk' \in 0 .. NumChunks
  BY <1>1, ClientFacts DEF Phases
<1>7. verdict' = "none"
  BY <1>1, ClientFacts
<1>8. /\ pc' \in Opening => chunk' = 0
      /\ pc' = "write" => chunk' < NumChunks
  BY <1>1, ClientFacts DEF Opening
<1>9. \A i \in Places : i < chunk' => disk[i] = "new"
  BY <1>1, ClientFacts DEF DiskInv
<1> HIDE DEF Again
<1> QED BY <1>1, <1>2, <1>3, <1>4, <1>5, <1>6, <1>7, <1>8, <1>9, ClientFacts, SentGood DEF Opening

LEMMA WriteNextGood ==
  ASSUME IInv, UNCHANGED fcVars,
         down' \in Seq(Replies), Len(down') <= Window, up = <<>>,
         Flight(up, down', seqNumber, -1),
         NEW c \in Nat, WriteNext(c), pc \notin {"terminate", "done"},
         (c = 0 /\ chunk = 0) \/ c = chunk + 1,
         \A i \in Places : i < c => disk[i] = "new"
  PROVE  IInv'
<1>1. \A p, d, v : Cargo(up, p, d, v)
  BY DEF Cargo
<1>2. verdict = "none"
  BY ClientFacts
<1>3. CASE c < NumChunks
  <2>1. /\ pc' = "write" /\ retry' = 0 /\ chunk' = c /\ verdict' = "none"
        /\ Send("WriteFile", c)
    BY <1>2, <1>3 DEF WriteNext, Attempt, Request
  <2>2. c \in 0 .. NumChunks /\ retry' \in 0 .. MaxRetries - 1
    BY <1>3, <2>1, ClientFacts
  <2>3. -1 + 1 <= Budget(pc', retry')
    BY <2>1 DEF Budget
  <2>4. pc' \in Phases \ {"idle", "done"} /\ pc' \notin Opening /\ "WriteFile" \in Ops
    BY <2>1 DEF Phases, Opening, Ops
  <2> QED BY <1>1, <1>3, <2>1, <2>2, <2>3, <2>4, SentGood
<1>4. CASE ~(c < NumChunks)
  <2>1. /\ pc' = "terminate" /\ retry' = 0 /\ chunk' = chunk /\ verdict' = "ok"
        /\ Send("TerminateSession", 0)
    BY <1>4 DEF WriteNext, Close
  <2>2. 0 \in 0 .. NumChunks /\ retry' \in 0 .. MaxRetries - 1
    BY <2>1, ClientFacts
  <2>3. -1 + 1 <= Budget(pc', retry')
    BY <2>1, ClientFacts DEF Budget
  <2>4. pc' \in Phases \ {"idle", "done"} /\ pc' \notin Opening /\ "TerminateSession" \in Ops
    BY <2>1 DEF Phases, Opening, Ops
  <2>5. \A i \in 0 .. NumChunks - 1 : i \in Places /\ i < c
    BY <1>4, ConstantFacts
  <2>6. \A i \in Places : i < chunk' => disk[i] = "new"
    BY <2>1, ClientFacts DEF DiskInv
  <2>7. \A i \in 0 .. NumChunks - 1 : disk[i] = "new"
    BY <2>5
  <2> QED BY <1>1, <2>1, <2>2, <2>3, <2>4, <2>6, <2>7, ClientFacts, SentGood
<1> QED BY <1>3, <1>4

LEMMA GiveUpGood ==
  ASSUME IInv, UNCHANGED fcVars,
         down' \in Seq(Replies), Len(down') <= Window,
         NEW e \in Int, -1 <= e, e <= Budget(pc, retry), Flight(up, down', seqNumber, e),
         GiveUp
  PROVE  IInv'
<1>1. CASE pc = "open" /\ Attempt("create", 0)
  <2>1. /\ pc' = "create" /\ retry' = 0 /\ chunk' = 0 /\ verdict' = "none" /\ chunk = 0
        /\ Send("CreateFile", 0)
    BY <1>1, ClientFacts DEF Attempt, Request, Opening
  <2>2. 0 \in 0 .. NumChunks /\ retry' \in 0 .. MaxRetries - 1
    BY <2>1, ClientFacts
  <2>3. e + 1 <= Budget(pc', retry')
    BY <1>1, <2>1, ClientFacts DEF Budget
  <2>4. pc' \in Phases \ {"idle", "done"} /\ pc' \in Opening /\ "CreateFile" \in Ops
    BY <2>1 DEF Phases, Opening, Ops
  <2>5. Cargo(up, pc', chunk', verdict')
    BY <1>1, <2>1, ClientFacts DEF Cargo, Opening
  <2>6. \A i \in Places : i < chunk' => disk[i] = "new"
    BY <2>1, ClientFacts DEF DiskInv
  <2> QED BY <2>1, <2>2, <2>3, <2>4, <2>5, <2>6, SentGood
<1>2. CASE pc = "create" /\ Return("error")
  <2>1. pc' = "done" /\ chunk = 0
    BY <1>2, ClientFacts DEF Return, Opening
  <2>2. e <= 2 * MaxRetries
    BY ClientFacts, BudgetFacts
  <2>3. Cargo(up, "done", chunk, "error")
    BY <1>2, <2>1, ClientFacts DEF Cargo, Opening
  <2> QED BY <1>2, <2>1, <2>2, <2>3, ReturnGood
<1>3. CASE pc = "write" /\ Close("error")
  <2>1. /\ pc' = "terminate" /\ retry' = 0 /\ chunk' = chunk /\ verdict' = "error"
        /\ Send("TerminateSession", 0)
    BY <1>3 DEF Close
  <2>2. 0 \in 0 .. NumChunks /\ retry' \in 0 .. MaxRetries - 1
    BY <2>1, ClientFacts
  <2>3. e + 1 <= Budget(pc', retry')
    BY <1>3, <2>1, ClientFacts DEF Budget
  <2>4. pc' \in Phases \ {"idle", "done"} /\ pc' \notin Opening /\ "TerminateSession" \in Ops
    BY <2>1 DEF Phases, Opening, Ops
  <2>5. Cargo(up, pc', chunk', verdict')
    BY <1>3, <2>1, <2>4, ClientFacts DEF Cargo
  <2>6. \A i \in Places : i < chunk' => disk[i] = "new"
    BY <2>1, ClientFacts DEF DiskInv
  <2> QED BY <2>1, <2>2, <2>3, <2>4, <2>5, <2>6, ClientFacts, SentGood
<1> QED BY <1>1, <1>2, <1>3 DEF GiveUp

(* The awaited request resolves to ans, to a reply only if nothing else is   *)
(* on the links.                                                             *)
LEMMA ResolvedGood ==
  ASSUME IInv, UNCHANGED fcVars,
         down' \in Seq(Replies), Len(down') <= Window,
         NEW e \in Int, -1 <= e, e <= Budget(pc, retry), Flight(up, down', seqNumber, e),
         NEW ans, Resolved(ans),
         ans # "TimedOut" => e = -1 /\ up = <<>>,
         pc = "write" /\ ans = "Ack" => disk[chunk] = "new"
  PROVE  IInv'
<1>1. CASE ResetDone
  <2>1. /\ pc = "reset" /\ pc' = "open" /\ retry' = 0 /\ chunk' = 0 /\ verdict' = "none"
        /\ chunk = 0 /\ Send("OpenFileWO", 0)
    BY <1>1, ClientFacts DEF ResetDone, Attempt, Request, Opening
  <2>2. 0 \in 0 .. NumChunks /\ retry' \in 0 .. MaxRetries - 1
    BY <2>1, ClientFacts
  <2>3. e + 1 <= Budget(pc', retry')
    BY <2>1, ClientFacts DEF Budget
  <2>4. pc' \in Phases \ {"idle", "done"} /\ pc' \in Opening /\ "OpenFileWO" \in Ops
    BY <2>1 DEF Phases, Opening, Ops
  <2>5. Cargo(up, pc', chunk', verdict')
    BY <2>1, ClientFacts DEF Cargo, Opening
  <2>6. \A i \in Places : i < chunk' => disk[i] = "new"
    BY <2>1, ClientFacts DEF DiskInv
  <2> QED BY <2>1, <2>2, <2>3, <2>4, <2>5, <2>6, SentGood
<1>2. CASE Accepted(ans)
  <2>1. ans = "Ack" /\ e = -1 /\ up = <<>> /\ Flight(up, down', seqNumber, -1)
    BY <1>2 DEF Accepted
  <2>2. CASE pc \in {"open", "create"} /\ WriteNext(0)
    <3>1. chunk = 0 /\ \A i \in Places : i < 0 => disk[i] = "new"
      BY <2>2, ClientFacts DEF DiskInv, Opening
    <3> QED BY <2>1, <2>2, <3>1, WriteNextGood
  <2>3. CASE pc = "write" /\ WriteNext(chunk + 1)
    <3>1. \A i \in Places : i \in Int
      BY DEF Places
    <3>2. \A i \in Places : i < chunk + 1 => disk[i] = "new"
      BY <2>1, <2>3, <3>1, ClientFacts DEF DiskInv
    <3>3. chunk + 1 \in Nat
      BY ClientFacts
    <3> QED BY <2>1, <2>3, <3>2, <3>3, WriteNextGood
  <2> QED BY <1>2, <2>2, <2>3 DEF Accepted
<1>3. CASE TimedOut(ans)
  <2>1. CASE pc \in {"open", "create", "write"} /\ Again(pc)
    BY <2>1, AgainGood
  <2>2. CASE GiveUp
    BY <2>2, GiveUpGood
  <2> QED BY <1>3, <2>1, <2>2 DEF TimedOut
<1>4. CASE Refused(ans)
  <2>1. CASE /\ ans = "NoSessionsAvailable"
             /\ pc \in {"open", "create"}
             /\ pc' = (IF pc = "open" THEN "reopen" ELSE "recreate")
             /\ Send("ResetSessions", 0)
             /\ UNCHANGED <<retry, chunk, verdict>>
    <3>1. e = -1 /\ up = <<>> /\ chunk = 0 /\ chunk' = 0 /\ verdict' = "none"
      BY <2>1, ClientFacts DEF Opening
    <3>2. retry' \in 0 .. MaxRetries - 1 /\ 0 \in 0 .. NumChunks
      BY <2>1, ClientFacts
    <3>3. e + 1 <= Budget(pc', retry')
      BY <2>1, <3>1 DEF Budget
    <3>4. pc' \in Phases \ {"idle", "done"} /\ pc' \in Opening /\ "ResetSessions" \in Ops
          /\ pc' # "write"
      BY <2>1 DEF Phases, Opening, Ops
    <3>5. Cargo(up, pc', chunk', verdict')
      BY <3>1 DEF Cargo
    <3>6. \A i \in Places : i < chunk' => disk[i] = "new"
      BY <3>1, ClientFacts DEF DiskInv
    <3> QED BY <2>1, <3>1, <3>2, <3>3, <3>4, <3>5, <3>6, SentGood
  <2>2. CASE GiveUp
    BY <2>2, GiveUpGood
  <2> QED BY <1>4, <2>1, <2>2 DEF Refused
<1>5. CASE ResetAgain
  <2>1. CASE pc = "reopen" /\ Again("open")
    BY <2>1, AgainGood
  <2>2. CASE pc = "recreate" /\ Again("create")
    BY <2>2, AgainGood
  <2>3. CASE pc = "reopen" /\ Attempt("create", 0)
    <3>1. /\ pc' = "create" /\ retry' = 0 /\ chunk' = 0 /\ verdict' = "none" /\ chunk = 0
          /\ Send("CreateFile", 0)
      BY <2>3, ClientFacts DEF Attempt, Request, Opening
    <3>2. 0 \in 0 .. NumChunks /\ retry' \in 0 .. MaxRetries - 1
      BY <3>1, ClientFacts
    <3>3. e + 1 <= Budget(pc', retry')
      BY <2>3, <3>1, ClientFacts DEF Budget
    <3>4. pc' \in Phases \ {"idle", "done"} /\ pc' \in Opening /\ "CreateFile" \in Ops
      BY <3>1 DEF Phases, Opening, Ops
    <3>5. Cargo(up, pc', chunk', verdict')
      BY <2>3, <3>1, ClientFacts DEF Cargo, Opening
    <3>6. \A i \in Places : i < chunk' => disk[i] = "new"
      BY <3>1, ClientFacts DEF DiskInv
    <3> QED BY <3>1, <3>2, <3>3, <3>4, <3>5, <3>6, SentGood
  <2>4. CASE pc = "recreate" /\ Return("error")
    <3>1. pc' = "done" /\ chunk = 0
      BY <2>4, ClientFacts DEF Return, Opening
    <3>2. e <= 2 * MaxRetries
      BY ClientFacts, BudgetFacts
    <3>3. Cargo(up, "done", chunk, "error")
      BY <2>4, <3>1, ClientFacts DEF Cargo, Opening
    <3> QED BY <2>4, <3>1, <3>2, <3>3, ReturnGood
  <2> QED BY <1>5, <2>1, <2>2, <2>3, <2>4 DEF ResetAgain
<1>6. CASE Closed
  <2>1. pc = "terminate" /\ Return(verdict) /\ pc' = "done"
    BY <1>6 DEF Closed, Return
  <2>2. e <= 2 * MaxRetries
    BY ClientFacts, BudgetFacts
  <2>3. Cargo(up, "done", chunk, verdict)
    BY <2>1, ClientFacts DEF Cargo, Opening
  <2> QED BY <2>1, <2>2, <2>3, ClientFacts, ReturnGood DEF UploadFaithful
<1> QED BY <1>1, <1>2, <1>3, <1>4, <1>5, <1>6 DEF Resolved

LEMMA CallGood == IInv /\ Call => IInv'
<1> SUFFICES ASSUME IInv, Call PROVE IInv'
  OBVIOUS
<1>1. /\ pc = "idle" /\ pc' = "reset" /\ Send("ResetSessions", 0)
      /\ retry' = retry /\ chunk' = chunk /\ verdict' = verdict /\ down' = down
      /\ UNCHANGED fcVars
  BY DEF Call, fcVars
<1>2. /\ chunk = 0 /\ verdict = "none" /\ Budget(pc, retry) = -1
      /\ down \in Seq(Replies) /\ Len(down) <= Window
      /\ Flight(up, down, seqNumber, -1)
  BY <1>1, ClientFacts DEF Budget, Opening, IInv, Types, TypeOK
<1>3. 0 \in 0 .. NumChunks /\ retry' \in 0 .. MaxRetries - 1 /\ -1 + 1 <= Budget(pc', retry')
  BY <1>1, ClientFacts DEF Budget
<1>4. pc' \in Phases \ {"idle", "done"} /\ pc' \in Opening /\ "ResetSessions" \in Ops
  BY <1>1 DEF Phases, Opening, Ops
<1>5. Cargo(up, pc', chunk', verdict')
  BY <1>1, ClientFacts DEF Cargo, Opening
<1>6. \A i \in Places : i < chunk' => disk[i] = "new"
  BY <1>1, ClientFacts DEF DiskInv
<1> QED BY <1>1, <1>2, <1>3, <1>4, <1>5, <1>6, SentGood

(* The links lose a packet, or the client drops a reply: all else stays.     *)
LEMMA LostGood ==
  ASSUME IInv, UNCHANGED <<clientVars, fcVars>>,
         \/ up # <<>> /\ up' = Tail(up) /\ down' = down
         \/ down # <<>> /\ down' = Tail(down) /\ up' = up
  PROVE  IInv'
<1>1. /\ pc' = pc /\ retry' = retry /\ chunk' = chunk /\ seqNumber' = seqNumber
      /\ pendingSeq' = pendingSeq /\ verdict' = verdict /\ disk' = disk
  BY DEF clientVars, fcVars
<1>2. /\ up \in Seq(Requests) /\ down \in Seq(Replies) /\ Len(up) <= Window
      /\ Len(down) <= Window /\ Window \in Nat /\ TypeOK
  BY ConstantFacts DEF IInv, Types, TypeOK
<1>3. Flight(up, down, seqNumber, Budget(pc, retry)) /\ Cargo(up, pc, chunk, verdict) /\ DownInv
  BY DEF IInv
<1>4. ClientInv' /\ DiskInv' /\ UploadFaithful' /\ WrittenInOrder'
  BY <1>1 DEF IInv, ClientInv, DiskInv, UploadFaithful, WrittenInOrder
<1>5. Flight(up', down', seqNumber', Budget(pc', retry'))
  BY <1>1, <1>2, <1>3, FlightLoses
<1>6. CASE up # <<>> /\ up' = Tail(up) /\ down' = down
  <2>1. /\ up' \in Seq(Requests) /\ Len(up') = Len(up) - 1 /\ Len(up) \in Nat
        /\ \A k \in DOMAIN up' : up'[k] = up[k + 1] /\ k + 1 \in DOMAIN up
    BY <1>2, <1>6, TailFacts
  <2>2. Types'
    <3>1. Len(up') <= Window
      BY <1>2, <2>1
    <3> QED BY <1>1, <1>2, <1>6, <2>1, <3>1 DEF Types, TypeOK
  <2>3. Cargo(up', pc', chunk', verdict')
    BY <1>1, <1>3, <2>1 DEF Cargo
  <2>4. DownInv'
    BY <1>1, <1>3, <1>6 DEF DownInv
  <2> QED BY <1>4, <1>5, <2>2, <2>3, <2>4 DEF IInv
<1>7. CASE down # <<>> /\ down' = Tail(down) /\ up' = up
  <2>1. /\ down' \in Seq(Replies) /\ Len(down') = Len(down) - 1 /\ Len(down) \in Nat
        /\ \A k \in DOMAIN down' : down'[k] = down[k + 1] /\ k + 1 \in DOMAIN down
    BY <1>2, <1>7, TailFacts
  <2>2. Types'
    <3>1. Len(down') <= Window
      BY <1>2, <2>1
    <3> QED BY <1>1, <1>2, <1>7, <2>1, <3>1 DEF Types, TypeOK
  <2>3. Cargo(up', pc', chunk', verdict')
    BY <1>1, <1>3, <1>7
  <2>4. DownInv'
    BY <1>1, <1>3, <2>1 DEF DownInv
  <2> QED BY <1>4, <1>5, <2>2, <2>3, <2>4 DEF IInv
<1> QED BY <1>6, <1>7

LEMMA ReceiveGood == IInv /\ Receive => IInv'
<1> SUFFICES ASSUME IInv, Receive PROVE IInv'
  OBVIOUS
<1>1. /\ down # <<>> /\ down' = Tail(down) /\ UNCHANGED fcVars
      /\ IF Matches(Head(down)) THEN Resolved(Head(down).ans) ELSE UNCHANGED <<clientVars, up>>
  BY DEF Receive, fcVars
<1>2. /\ up \in Seq(Requests) /\ down \in Seq(Replies) /\ Len(down) <= Window
      /\ Window \in Nat /\ seqNumber \in Seqs
      /\ Flight(up, down, seqNumber, Budget(pc, retry)) /\ ClientInv /\ DownInv
  BY ConstantFacts DEF IInv, Types, TypeOK
<1>3. CASE Matches(Head(down))
  <2>1. pendingSeq = seqNumber /\ Head(down).seq = NextSeq(seqNumber)
    BY <1>2, <1>3 DEF Matches, ClientInv
  <2>2. up = <<>> /\ down' = <<>>
    BY <1>1, <1>2, <2>1, FlightMatch
  <2>3. Head(down) \in Replies /\ Head(down) = down[1] /\ 1 \in DOMAIN down
    BY <1>1, <1>2, TailFacts
  <2>4. Head(down).ans # "TimedOut"
    BY <2>3 DEF Replies, Answers
  <2>5. pc = "write" /\ Head(down).ans = "Ack" => disk[chunk] = "new"
    BY <1>2, <2>1, <2>3 DEF DownInv
  <2>6. down' \in Seq(Replies) /\ Len(down') <= Window
    BY <1>2, <2>2
  <2>7. Flight(up, down', seqNumber, -1)
    BY <2>2, FlightNothing
  <2>8. -1 <= Budget(pc, retry)
    BY BudgetFacts, ClientFacts
  <2> HIDE DEF Resolved
  <2> QED BY <1>1, <1>3, <2>2, <2>4, <2>5, <2>6, <2>7, <2>8, ResolvedGood
<1>4. CASE ~Matches(Head(down))
  BY <1>1, <1>4, LostGood
<1> QED BY <1>3, <1>4

LEMMA TimeoutGood == IInv /\ Timeout => IInv'
<1> SUFFICES ASSUME IInv, Timeout PROVE IInv'
  OBVIOUS
<1>1. Resolved("TimedOut") /\ down' = down /\ UNCHANGED fcVars
  BY DEF Timeout, fcVars
<1>2. /\ down \in Seq(Replies) /\ Len(down) <= Window
      /\ Flight(up, down, seqNumber, Budget(pc, retry))
  BY DEF IInv, Types, TypeOK
<1>3. Budget(pc, retry) \in Int /\ -1 <= Budget(pc, retry)
  BY BudgetFacts, ClientFacts
<1> QED BY <1>1, <1>2, <1>3, ResolvedGood

-----------------------------------------------------------------------------
(* The FC.                                                                   *)

(* What the FC does to the file while chunk is being written, or none is.    *)
LEMMA WrittenFacts ==
  ASSUME IInv, NEW at \in 0 .. NumChunks, at = chunk
  PROVE  /\ Written(at) \in [Places -> {"none", "zero", "old", "new"}]
         /\ at \in Places => Written(at)[at] = "new"
         /\ \A i \in Places : disk[i] = "new" => Written(at)[i] = "new"
         /\ \A i, j \in Places : Written(at)[j] = "new" /\ i < j => Written(at)[i] = "new"
<1>1. disk \in [Places -> {"none", "zero", "old", "new"}] /\ WrittenInOrder /\ DiskInv
  BY DEF IInv, Types, TypeOK
<1> QED BY <1>1 DEF Written, WrittenInOrder, DiskInv

(* Only an accepted CreateFile or WriteFile changes the file.                *)
LEMMA OutcomeFacts ==
  ASSUME NEW req, req.op \in Ops, NEW o \in Outcomes(req)
  PROVE  /\ o[1] \in Answers
         /\ \/ o[3] = disk /\ (o[1] = "Ack" => req.op # "WriteFile")
            \/ o[3] = NoFile /\ req.op = "CreateFile"
            \/ o[3] = Written(req.at) /\ req.op = "WriteFile"
<1>1. CASE req.op = "OpenFileWO"
  <2>1. \/ o = <<"Fail", fcOpen, disk>>
        \/ o = <<"NoSessionsAvailable", fcOpen, disk>>
        \/ o = <<"Ack", TRUE, disk>>
    BY <1>1 DEF Outcomes
  <2>2. CASE o = <<"Fail", fcOpen, disk>>
    <3>1. o[1] = "Fail" /\ o[3] = disk
      BY <2>2
    <3> QED BY <1>1, <3>1 DEF Answers
  <2>3. CASE o = <<"NoSessionsAvailable", fcOpen, disk>>
    <3>1. o[1] = "NoSessionsAvailable" /\ o[3] = disk
      BY <2>3
    <3> QED BY <1>1, <3>1 DEF Answers
  <2>4. CASE o = <<"Ack", TRUE, disk>>
    <3>1. o[1] = "Ack" /\ o[3] = disk
      BY <2>4
    <3> QED BY <1>1, <3>1 DEF Answers
  <2> QED BY <2>1, <2>2, <2>3, <2>4
<1>2. CASE req.op = "CreateFile"
  <2>1. \/ o = <<"Fail", fcOpen, disk>>
        \/ o = <<"NoSessionsAvailable", fcOpen, disk>>
        \/ o = <<"Ack", TRUE, NoFile>>
    BY <1>2 DEF Outcomes
  <2>2. CASE o = <<"Fail", fcOpen, disk>>
    <3>1. o[1] = "Fail" /\ o[3] = disk
      BY <2>2
    <3> QED BY <1>2, <3>1 DEF Answers
  <2>3. CASE o = <<"NoSessionsAvailable", fcOpen, disk>>
    <3>1. o[1] = "NoSessionsAvailable" /\ o[3] = disk
      BY <2>3
    <3> QED BY <1>2, <3>1 DEF Answers
  <2>4. CASE o = <<"Ack", TRUE, NoFile>>
    <3>1. o[1] = "Ack" /\ o[3] = NoFile
      BY <2>4
    <3> QED BY <1>2, <3>1 DEF Answers
  <2> QED BY <2>1, <2>2, <2>3, <2>4
<1>3. CASE req.op = "WriteFile"
  <2>1. \/ o = <<"Fail", fcOpen, disk>>
        \/ o = <<"Ack", TRUE, Written(req.at)>>
    BY <1>3 DEF Outcomes
  <2>2. CASE o = <<"Fail", fcOpen, disk>>
    <3>1. o[1] = "Fail" /\ o[3] = disk
      BY <2>2
    <3> QED BY <1>3, <3>1 DEF Answers
  <2>3. CASE o = <<"Ack", TRUE, Written(req.at)>>
    <3>1. o[1] = "Ack" /\ o[3] = Written(req.at)
      BY <2>3
    <3> QED BY <1>3, <3>1 DEF Answers
  <2> QED BY <2>1, <2>2, <2>3
<1>4. CASE req.op \in {"ResetSessions", "TerminateSession"}
  <2>1. \/ o = <<"Fail", fcOpen, disk>>
        \/ o = <<"Ack", FALSE, disk>>
    BY <1>4 DEF Outcomes
  <2>2. CASE o = <<"Fail", fcOpen, disk>>
    <3>1. o[1] = "Fail" /\ o[3] = disk
      BY <2>2
    <3> QED BY <1>4, <3>1 DEF Answers
  <2>3. CASE o = <<"Ack", FALSE, disk>>
    <3>1. o[1] = "Ack" /\ o[3] = disk
      BY <2>3
    <3> QED BY <1>4, <3>1 DEF Answers
  <2> QED BY <2>1, <2>2, <2>3
<1> QED BY <1>1, <1>2, <1>3, <1>4 DEF Ops

LEMMA ServeGood == IInv /\ Serve => IInv'
<1> SUFFICES ASSUME IInv, Serve PROVE IInv'
  OBVIOUS
<1> DEFINE req == Head(up)
<1>1. PICK o \in Outcomes(req) :
        /\ up # <<>> /\ up' = Tail(up)
        /\ disk' = o[3]
        /\ down' = Carry(down, [seq |-> NextSeq(req.seq), ans |-> o[1]])
  BY DEF Serve
<1>2. /\ pc' = pc /\ retry' = retry /\ chunk' = chunk /\ seqNumber' = seqNumber
      /\ pendingSeq' = pendingSeq /\ verdict' = verdict
  BY DEF Serve, clientVars
<1>3. /\ up \in Seq(Requests) /\ down \in Seq(Replies) /\ Len(up) <= Window
      /\ Len(down) <= Window /\ Window \in Nat /\ TypeOK
  BY ConstantFacts DEF IInv, Types, TypeOK
<1>4. Flight(up, down, seqNumber, Budget(pc, retry)) /\ Cargo(up, pc, chunk, verdict) /\ DownInv
  BY DEF IInv
<1>5. /\ up' \in Seq(Requests) /\ Len(up') = Len(up) - 1 /\ Len(up) \in Nat
      /\ req = up[1] /\ 1 \in DOMAIN up /\ req \in Requests
      /\ \A k \in DOMAIN up' : up'[k] = up[k + 1] /\ k + 1 \in DOMAIN up
  BY <1>1, <1>3, TailFacts
<1> HIDE DEF req
<1>6. /\ req.seq \in Seqs /\ req.op \in Ops /\ req.at \in 0 .. NumChunks
      /\ req.op = "WriteFile" => pc \notin Opening /\ req.at = chunk
      /\ req.op = "CreateFile" => pc \in Opening \/ (pc = "done" /\ verdict # "ok" /\ chunk = 0)
      /\ pc = "write" => req.op = "WriteFile"
  BY <1>4, <1>5 DEF Cargo, Requests
<1>7. /\ o[1] \in Answers
      /\ \/ o[3] = disk /\ (o[1] = "Ack" => req.op # "WriteFile")
         \/ o[3] = NoFile /\ req.op = "CreateFile"
         \/ o[3] = Written(req.at) /\ req.op = "WriteFile"
  BY <1>1, <1>6, OutcomeFacts
<1> DEFINE x == [seq |-> NextSeq(req.seq), ans |-> o[1]]
<1>8. x \in Replies /\ x.seq = NextSeq(req.seq) /\ x.ans = o[1]
  BY <1>6, <1>7, NextSeqIs DEF Replies
<1>9. down' = Carry(down, x)
  BY <1>1
<1> HIDE DEF x
<1>10. /\ down' \in Seq(Replies) /\ Len(down') \in 1 .. Window /\ DOMAIN down' = 1 .. Len(down')
       /\ down'[Len(down')] = x
  <2> DEFINE c == Carry(down, x)
  <2>1. /\ c \in Seq(Replies) /\ Len(c) \in 1 .. Window /\ DOMAIN c = 1 .. Len(c)
        /\ c[Len(c)] = x
    BY <1>3, <1>8, CarryFacts
  <2> HIDE DEF c
  <2> QED BY <1>9, <2>1 DEF c
<1>11. PICK off \in {0, 1} : Shifted(down', down, off)
  <2>1. Shifted(Carry(down, x), down, 0) \/ Shifted(Carry(down, x), down, 1)
    BY <1>3, <1>8, CarryFacts
  <2> QED BY <1>9, <2>1
<1>12. Flight(up', down', seqNumber', Budget(pc', retry'))
  <2>1. Budget(pc, retry) \in Int /\ seqNumber \in Seqs
    BY BudgetFacts, ClientFacts
  <2> QED BY <1>1, <1>2, <1>3, <1>4, <1>8, <1>9, <2>1, FlightServe DEF req
<1>13. Cargo(up', pc', chunk', verdict')
  BY <1>2, <1>4, <1>5 DEF Cargo
<1>14. /\ disk' \in [Places -> {"none", "zero", "old", "new"}]
       /\ WrittenInOrder' /\ DiskInv' /\ UploadFaithful'
       /\ pc = "write" => \A i \in Places : disk[i] = "new" => disk'[i] = "new"
  <2>1. WrittenInOrder /\ DiskInv /\ UploadFaithful
    BY DEF IInv
  <2>2. CASE disk' = disk
    BY <1>2, <1>3, <2>1, <2>2 DEF WrittenInOrder, DiskInv, UploadFaithful, TypeOK
  <2>3. CASE disk' = NoFile /\ req.op = "CreateFile"
    <3>1. chunk = 0 /\ verdict # "ok" /\ pc # "write"
      BY <1>6, <2>3, ClientFacts DEF Opening
    <3>2. \A i \in Places : disk'[i] = "none"
      BY <2>3 DEF NoFile
    <3>3. \A i \in Places : i \in Nat
      BY DEF Places
    <3> QED BY <1>2, <2>3, <3>1, <3>2, <3>3 DEF WrittenInOrder, DiskInv, UploadFaithful, NoFile
  <2>4. CASE disk' = Written(req.at) /\ req.op = "WriteFile"
    <3>1. req.at = chunk
      BY <1>6, <2>4
    <3>2. /\ disk' \in [Places -> {"none", "zero", "old", "new"}]
          /\ \A i \in Places : disk[i] = "new" => disk'[i] = "new"
          /\ \A i, j \in Places : disk'[j] = "new" /\ i < j => disk'[i] = "new"
      BY <1>6, <2>4, <3>1, WrittenFacts
    <3> QED BY <1>2, <2>1, <3>2, ConstantFacts DEF WrittenInOrder, DiskInv, UploadFaithful
  <2> QED BY <1>1, <1>7, <2>2, <2>3, <2>4
<1>15. DownInv'
  <2> SUFFICES ASSUME pc = "write", NEW k \in DOMAIN down',
                      down'[k].seq = NextSeq(seqNumber), down'[k].ans = "Ack"
               PROVE  disk'[chunk] = "new"
    BY <1>2 DEF DownInv
  <2>1. chunk \in Places
    BY ClientFacts, ConstantFacts
  <2>2. CASE k = Len(down')
    <3>1. o[1] = "Ack" /\ req.op = "WriteFile" /\ req.at = chunk
      BY <1>6, <1>8, <1>10, <2>2
    <3>2. disk' = Written(chunk)
      BY <1>1, <1>7, <3>1
    <3> QED BY <2>1, <3>2, ClientFacts, WrittenFacts
  <2>3. CASE k \in 1 .. Len(down') - 1
    <3>1. disk[chunk] = "new"
      BY <1>4, <1>11, <2>3 DEF DownInv, Shifted
    <3> QED BY <1>14, <2>1, <3>1
  <2> QED BY <1>10, <2>2, <2>3
<1>16. ClientInv'
  BY <1>2 DEF IInv, ClientInv
<1>17. Types'
  BY <1>1, <1>2, <1>3, <1>5, <1>7, <1>10, <1>14 DEF Types, TypeOK
<1> QED BY <1>12, <1>13, <1>14, <1>15, <1>16, <1>17 DEF IInv

LEMMA SameGood ==
  ASSUME IInv, UNCHANGED <<clientVars, up, down, disk>>
  PROVE  IInv'
BY DEF IInv, Types, TypeOK, clientVars, ClientInv, DownInv, DiskInv, UploadFaithful,
       WrittenInOrder

-----------------------------------------------------------------------------
LEMMA InitGood == Init => IInv
<1> SUFFICES ASSUME Init PROVE IInv
  OBVIOUS
<1>1. /\ pc = "idle" /\ retry = 0 /\ chunk = 0 /\ seqNumber = 0 /\ pendingSeq = None
      /\ verdict = "none" /\ up = <<>> /\ down = <<>>
      /\ disk = [i \in Places |-> IF i < OldChunks THEN "old" ELSE "none"]
  BY DEF Init
<1>2. Types
  <2>1. up \in Seq(Requests) /\ down \in Seq(Replies) /\ Len(up) = 0 /\ Len(down) = 0
    BY <1>1
  <2>2. 0 \in Seqs /\ 0 \in 0 .. MaxRetries - 1 /\ 0 \in 0 .. NumChunks /\ 0 <= Window
    BY ConstantFacts DEF Seqs
  <2> QED BY <1>1, <2>1, <2>2 DEF Types, TypeOK
<1>3. Flight(up, down, seqNumber, Budget(pc, retry))
  BY <1>1, FlightNothing
<1>4. ClientInv
  BY <1>1 DEF ClientInv
<1>5. Cargo(up, pc, chunk, verdict) /\ DownInv
  BY <1>1 DEF Cargo, DownInv
<1>6. DiskInv /\ UploadFaithful /\ WrittenInOrder
  <2>1. \A i \in Places : disk[i] # "new" /\ i \in Nat
    BY <1>1 DEF Places
  <2> QED BY <1>1, <2>1 DEF DiskInv, UploadFaithful, WrittenInOrder
<1> QED BY <1>2, <1>3, <1>4, <1>5, <1>6 DEF IInv

LEMMA NextGood == IInv /\ [Next]_vars => IInv'
<1> SUFFICES ASSUME IInv, [Next]_vars PROVE IInv'
  OBVIOUS
<1>1. CASE Call
  BY <1>1, CallGood
<1>2. CASE Receive
  BY <1>2, ReceiveGood
<1>3. CASE Timeout
  BY <1>3, TimeoutGood
<1>4. CASE Serve
  BY <1>4, ServeGood
<1>5. CASE LoseRequest
  BY <1>5, LostGood DEF LoseRequest
<1>6. CASE LoseReply
  BY <1>6, LostGood DEF LoseReply
<1>7. CASE Reboot
  BY <1>7, SameGood DEF Reboot
<1>8. CASE Finished \/ UNCHANGED vars
  <2>1. UNCHANGED <<clientVars, up, down, disk>>
    BY <1>8 DEF Finished, vars, clientVars
  <2> QED BY <2>1, SameGood
<1> QED BY <1>1, <1>2, <1>3, <1>4, <1>5, <1>6, <1>7, <1>8 DEF Next

(* The inductive invariant: at any time only packets of the last few         *)
(* requests are on their way, of increasing age, and all of them about the   *)
(* chunk the client is at.                                                   *)
THEOREM UploadInvariance == Spec => []IInv
<1>1. Init => IInv
  BY InitGood
<1>2. IInv /\ [Next]_vars => IInv'
  BY NextGood
<1> QED BY <1>1, <1>2, PTL DEF Spec

(* The state has its types; offset, retries and sequence number stay in the  *)
(* bounds the loops of uploadFile give them.                                 *)
THEOREM UploadTypeCorrect == Spec => []TypeOK
<1>1. IInv => TypeOK
  BY DEF IInv, Types
<1> QED BY <1>1, UploadInvariance, PTL

(* An upload that returns ok has put every chunk in its place on the FC, and *)
(* no late packet undoes it.                                                 *)
THEOREM SuccessIsWritten == Spec => []UploadFaithful
<1>1. IInv => UploadFaithful
  BY DEF IInv
<1> QED BY <1>1, UploadInvariance, PTL

(* What a failed upload leaves on the FC is a prefix of the contents.        *)
THEOREM PrefixOnly == Spec => []WrittenInOrder
<1>1. IInv => WrittenInOrder
  BY DEF IInv
<1> QED BY <1>1, UploadInvariance, PTL
-----------------------------------------------------------------------------
(* FtpUpload implements FileStore.                                           *)

(* Nothing of the contents is on the FC before the client writes, no request *)
(* to empty the file is about once something may be, and none to write past  *)
(* the contents.                                                             *)
FreshInv ==
  /\ pc \in Opening => \A i \in Places : disk[i] # "new"
  /\ \A k \in DOMAIN up : up[k].op = "WriteFile" => up[k].at < NumChunks
  /\ \A k \in DOMAIN up : up[k].op = "CreateFile" =>
       /\ \A i \in Places : disk[i] # "new"
       /\ \A l \in DOMAIN up : up[l].op # "WriteFile"

(* What every step of the client does: it sends at most one request, and     *)
(* tells its caller at most once.                                            *)
ClientStep ==
  /\ \/ up' = up
     \/ \E op \in Ops, at \in 0 .. NumChunks :
          /\ Send(op, at)
          /\ op = "CreateFile" => pc \in Opening
          /\ op = "WriteFile" => pc' = "write"
  /\ pc' \in Opening => pc \in Opening
  /\ verdict' = verdict \/ (verdict = "none" /\ verdict' \in {"ok", "error"})

LEMMA AttemptSteps ==
  ASSUME NEW p \in {"open", "create", "write"}, NEW c \in 0 .. NumChunks,
         pc' = p, verdict' = verdict, Send(Request(p), c), p # "write" => pc \in Opening
  PROVE  ClientStep
<1>1. /\ Request(p) \in Ops
      /\ Request(p) = "CreateFile" => p = "create"
      /\ Request(p) = "WriteFile" => p = "write"
  BY DEF Request, Ops
<1>2. pc' \in Opening => p # "write"
  BY DEF Opening
<1> QED BY <1>1, <1>2 DEF ClientStep

LEMMA AgainSteps ==
  ASSUME IInv, NEW p \in {"open", "create", "write"}, Again(p), p # "write" => pc \in Opening
  PROVE  ClientStep
<1>1. pc' = p /\ verdict' = verdict /\ Send(Request(p), chunk)
  BY DEF Again
<1>2. chunk \in 0 .. NumChunks
  BY ClientFacts
<1> HIDE DEF Again
<1> QED BY <1>1, <1>2, AttemptSteps

LEMMA CloseSteps ==
  ASSUME IInv, NEW res \in {"ok", "error"}, Close(res), pc \notin {"terminate", "done"}
  PROVE  ClientStep
<1>1. pc' = "terminate" /\ verdict' = res /\ Send("TerminateSession", 0)
  BY DEF Close
<1>2. verdict = "none" /\ 0 \in 0 .. NumChunks
  BY ClientFacts
<1>3. "TerminateSession" \in Ops /\ pc' \notin Opening
  BY <1>1 DEF Ops, Opening
<1> QED BY <1>1, <1>2, <1>3 DEF ClientStep

LEMMA GiveUpSteps ==
  ASSUME IInv, GiveUp
  PROVE  ClientStep
<1>1. CASE pc = "open" /\ Attempt("create", 0)
  <2>1. pc' = "create" /\ verdict' = verdict /\ Send(Request("create"), 0) /\ 0 \in 0 .. NumChunks
    BY <1>1, ClientFacts DEF Attempt
  <2> QED BY <1>1, <2>1, AttemptSteps DEF Opening
<1>2. CASE pc = "create" /\ Return("error")
  BY <1>2, ClientFacts DEF Return, ClientStep, Opening
<1>3. CASE pc = "write" /\ Close("error")
  BY <1>3, CloseSteps
<1> QED BY <1>1, <1>2, <1>3 DEF GiveUp

LEMMA WriteNextSteps ==
  ASSUME IInv, NEW c \in Nat, WriteNext(c), pc \notin {"terminate", "done"}
  PROVE  ClientStep
<1>1. CASE c < NumChunks /\ Attempt("write", c)
  <2>1. pc' = "write" /\ verdict' = verdict /\ Send(Request("write"), c) /\ c \in 0 .. NumChunks
    BY <1>1, ClientFacts DEF Attempt
  <2> QED BY <2>1, AttemptSteps
<1>2. CASE Close("ok")
  BY <1>2, CloseSteps
<1> QED BY <1>1, <1>2 DEF WriteNext

LEMMA ResolvedSteps ==
  ASSUME IInv, NEW ans, Resolved(ans)
  PROVE  ClientStep
<1>1. CASE ResetDone
  <2>1. /\ pc = "reset" /\ pc' = "open" /\ verdict' = verdict /\ Send(Request("open"), 0)
        /\ 0 \in 0 .. NumChunks
    BY <1>1, ClientFacts DEF ResetDone, Attempt
  <2> QED BY <2>1, AttemptSteps DEF Opening
<1>2. CASE Accepted(ans)
  <2>1. CASE pc \in {"open", "create"} /\ WriteNext(0)
    BY <2>1, WriteNextSteps
  <2>2. CASE pc = "write" /\ WriteNext(chunk + 1)
    <3>1. chunk + 1 \in Nat
      BY ClientFacts
    <3> QED BY <2>2, <3>1, WriteNextSteps
  <2> QED BY <1>2, <2>1, <2>2 DEF Accepted
<1>3. CASE TimedOut(ans)
  <2>1. CASE pc \in {"open", "create", "write"} /\ Again(pc)
    BY <2>1, AgainSteps DEF Opening
  <2>2. CASE GiveUp
    BY <2>2, GiveUpSteps
  <2> QED BY <1>3, <2>1, <2>2 DEF TimedOut
<1>4. CASE Refused(ans)
  <2>1. CASE pc \in {"open", "create"} /\ Send("ResetSessions", 0) /\ verdict' = verdict
    <3>1. "ResetSessions" \in Ops /\ 0 \in 0 .. NumChunks /\ pc \in Opening
      BY <2>1, ClientFacts DEF Ops, Opening
    <3> QED BY <2>1, <3>1 DEF ClientStep
  <2>2. CASE GiveUp
    BY <2>2, GiveUpSteps
  <2> QED BY <1>4, <2>1, <2>2 DEF Refused
<1>5. CASE ResetAgain
  <2>1. CASE (pc = "reopen" /\ Again("open")) \/ (pc = "recreate" /\ Again("create"))
    BY <2>1, AgainSteps DEF Opening
  <2>2. CASE pc = "reopen" /\ Attempt("create", 0)
    <3>1. /\ pc' = "create" /\ verdict' = verdict /\ Send(Request("create"), 0)
          /\ 0 \in 0 .. NumChunks
      BY <2>2, ClientFacts DEF Attempt
    <3> QED BY <2>2, <3>1, AttemptSteps DEF Opening
  <2>3. CASE pc = "recreate" /\ Return("error")
    BY <2>3, ClientFacts DEF Return, ClientStep, Opening
  <2> QED BY <1>5, <2>1, <2>2, <2>3 DEF ResetAgain
<1>6. CASE Closed
  BY <1>6 DEF Closed, Return, ClientStep, Opening
<1> QED BY <1>1, <1>2, <1>3, <1>4, <1>5, <1>6 DEF Resolved

(* A step of the client keeps FreshInv.                                      *)
LEMMA ClientFresh ==
  ASSUME IInv, IInv', FreshInv, ClientStep, disk' = disk
  PROVE  FreshInv'
<1>1. pc' \in Opening => \A i \in Places : disk'[i] # "new"
  BY DEF FreshInv, ClientStep
<1>2. CASE up' = up
  BY <1>1, <1>2 DEF FreshInv
<1>3. ASSUME NEW op \in Ops, NEW at \in 0 .. NumChunks, Send(op, at),
             op = "CreateFile" => pc \in Opening,
             op = "WriteFile" => pc' = "write"
      PROVE  FreshInv'
  <2> DEFINE x == [seq |-> NextSeq(seqNumber), op |-> op, at |-> at]
  <2>1. up' = Carry(up, x)
    BY <1>3 DEF Send
  <2>2. /\ up \in Seq(Requests) /\ Len(up) <= Window /\ x \in Requests /\ x.op = op
    <3>1. NextSeq(seqNumber) \in Seqs
      BY ClientFacts, NextSeqIs
    <3> QED BY <3>1 DEF IInv, Types, TypeOK, Requests
  <2> HIDE DEF x
  <2>3. \A k \in DOMAIN up' : up'[k].op = op \/ \E j \in DOMAIN up : up'[k] = up[j]
    <3>1. /\ DOMAIN Carry(up, x) = 1 .. Len(Carry(up, x))
          /\ Len(Carry(up, x)) \in 1 .. Window
          /\ Carry(up, x)[Len(Carry(up, x))] = x
          /\ Shifted(Carry(up, x), up, 0) \/ Shifted(Carry(up, x), up, 1)
      BY <2>2, CarryFacts
    <3>2. \A k \in 1 .. Len(up') - 1 : \E j \in DOMAIN up : up'[k] = up[j]
      BY <2>1, <3>1 DEF Shifted
    <3> QED BY <2>1, <2>2, <3>1, <3>2
  <2>4. /\ Cargo(up, pc, chunk, verdict) /\ Cargo(up', pc', chunk', verdict')
        /\ pc' = "write" => chunk' < NumChunks
    BY DEF IInv, ClientInv
  <2>7. \A k \in DOMAIN up' : up'[k].op = "WriteFile" => up'[k].at < NumChunks
    <3>1. CASE op = "WriteFile"
      BY <1>3, <2>4, <3>1 DEF Cargo, Opening
    <3>2. CASE op # "WriteFile"
      BY <2>3, <3>2 DEF FreshInv
    <3> QED BY <3>1, <3>2
  <2> SUFFICES ASSUME NEW k \in DOMAIN up', up'[k].op = "CreateFile"
               PROVE  /\ \A i \in Places : disk'[i] # "new"
                      /\ \A l \in DOMAIN up' : up'[l].op # "WriteFile"
    BY <1>1, <2>7 DEF FreshInv
  <2>5. pc' # "write" /\ op # "WriteFile"
    BY <1>3, <2>4 DEF Cargo
  <2>6. /\ \A i \in Places : disk[i] # "new"
        /\ \A l \in DOMAIN up : up[l].op # "WriteFile"
    <3>1. CASE op = "CreateFile"
      BY <1>3, <2>4, <3>1 DEF FreshInv, Cargo
    <3>2. CASE op # "CreateFile"
      BY <2>3, <3>2 DEF FreshInv
    <3> QED BY <3>1, <3>2
  <2> QED BY <2>3, <2>5, <2>6
<1> QED BY <1>2, <1>3 DEF ClientStep

(* A step of the client tells its caller the truth, once, or nothing.        *)
LEMMA ClientTells ==
  ASSUME IInv, IInv', ClientStep, disk' = disk
  PROVE  [Store!Next]_(Store!fsVars)
<1>1. verdict' = "ok" => \A c \in 0 .. NumChunks - 1 : disk[c] = "new"
  BY DEF IInv, UploadFaithful
<1> QED BY <1>1 DEF ClientStep, Store!Next, Store!Tell, Store!fsVars

(* The FC empties a file that is not begun, or writes its next chunk.        *)
LEMMA ServeStores ==
  ASSUME IInv, FreshInv, Serve
  PROVE  FreshInv' /\ [Store!Next]_(Store!fsVars)
<1> DEFINE req == Head(up)
<1>1. PICK o \in Outcomes(req) : up # <<>> /\ up' = Tail(up) /\ disk' = o[3]
  BY DEF Serve
<1>2. pc' = pc /\ verdict' = verdict /\ chunk' = chunk
  BY DEF Serve, clientVars
<1>3. /\ up' \in Seq(Requests) /\ req = up[1] /\ 1 \in DOMAIN up /\ req \in Requests
      /\ \A k \in DOMAIN up' : up'[k] = up[k + 1] /\ k + 1 \in DOMAIN up
  BY <1>1, ClientFacts, TailFacts
<1> HIDE DEF req
<1>4. /\ req.op \in Ops
      /\ req.op = "WriteFile" => pc \notin Opening /\ req.at = chunk
      /\ req.op = "CreateFile" => verdict # "ok"
  BY <1>3, ClientFacts DEF Cargo, Requests, Opening
<1>5. \/ disk' = disk
      \/ disk' = NoFile /\ req.op = "CreateFile"
      \/ disk' = Written(req.at) /\ req.op = "WriteFile"
  BY <1>1, <1>4, OutcomeFacts
<1>6. CASE disk' = disk
  BY <1>2, <1>3, <1>6 DEF FreshInv, Store!fsVars
<1>7. CASE disk' = NoFile /\ req.op = "CreateFile"
  <2>1. \A i \in Places : disk[i] # "new"
    BY <1>3, <1>7 DEF FreshInv
  <2>2. Store!Truncate
    BY <1>7, <2>1 DEF Store!Truncate, Store!Chunks, Store!Empty, NoFile, Places
  <2>3. \A i \in Places : disk'[i] # "new"
    BY <1>7 DEF NoFile
  <2> QED BY <1>2, <1>3, <1>4, <1>7, <2>2, <2>3 DEF FreshInv, Store!Next, Store!Change
<1>8. CASE disk' = Written(req.at) /\ req.op = "WriteFile"
  <2>1. req.at = chunk /\ pc' \notin Opening
    BY <1>2, <1>4, <1>8
  <2>2. FreshInv'
    BY <1>3, <1>8, <2>1 DEF FreshInv
  <2>3. disk \in [Places -> {"none", "zero", "old", "new"}] /\ \A i \in Places : i < chunk => disk[i] = "new"
    BY DEF IInv, Types, TypeOK, DiskInv
  <2>4. disk' = [disk EXCEPT ![chunk] = "new"]
    BY <1>8, <2>1, <2>3 DEF Written
  <2>5. chunk \in 0 .. NumChunks - 1 /\ chunk \in Places /\ \A c \in 0 .. chunk - 1 : c \in Places
    BY <1>3, <1>8, <2>1, ClientFacts, ConstantFacts DEF FreshInv
  <2>6. CASE verdict # "ok"
    <3>1. \A c \in 0 .. chunk - 1 : disk[c] = "new"
      BY <2>3, <2>5, ClientFacts
    <3>2. Store!Extend
      BY <2>4, <2>5, <3>1 DEF Store!Extend
    <3> QED BY <1>2, <2>2, <2>6, <3>2 DEF Store!Next, Store!Change
  <2>7. CASE verdict = "ok"
    <3>1. disk' = disk
      BY <2>3, <2>4, <2>5, <2>7, ClientFacts DEF UploadFaithful
    <3> QED BY <1>2, <2>2, <3>1 DEF Store!fsVars
  <2> QED BY <2>6, <2>7
<1> QED BY <1>5, <1>6, <1>7, <1>8

LEMMA StepStores ==
  ASSUME IInv, IInv', FreshInv, [Next]_vars
  PROVE  FreshInv' /\ [Store!Next]_(Store!fsVars)
<1>1. CASE Call
  <2>1. Send("ResetSessions", 0) /\ pc \in Opening /\ verdict' = verdict /\ disk' = disk
    BY <1>1 DEF Call, Opening
  <2>2. ClientStep
    BY <2>1, ClientFacts DEF ClientStep, Ops
  <2> QED BY <2>1, <2>2, ClientFresh, ClientTells
<1>2. CASE Receive /\ Matches(Head(down))
  <2>1. Resolved(Head(down).ans) /\ disk' = disk
    BY <1>2 DEF Receive, fcVars
  <2>2. ClientStep
    BY <2>1, ResolvedSteps
  <2> QED BY <2>1, <2>2, ClientFresh, ClientTells
<1>3. CASE Timeout
  <2>1. Resolved("TimedOut") /\ disk' = disk
    BY <1>3 DEF Timeout
  <2>2. ClientStep
    BY <2>1, ResolvedSteps
  <2> QED BY <2>1, <2>2, ClientFresh, ClientTells
<1>4. CASE Serve
  BY <1>4, ServeStores
<1>5. CASE LoseRequest
  <2>1. up' = Tail(up) /\ up # <<>> /\ pc' = pc /\ verdict' = verdict /\ disk' = disk
    BY <1>5 DEF LoseRequest, clientVars, fcVars
  <2>2. \A k \in DOMAIN up' : up'[k] = up[k + 1] /\ k + 1 \in DOMAIN up
    BY <2>1, ClientFacts, TailFacts
  <2> QED BY <2>1, <2>2 DEF FreshInv, Store!fsVars
<1>6. CASE UNCHANGED <<pc, verdict, up, disk>>
  BY <1>6 DEF FreshInv, Store!fsVars
<1>7. CASE (Receive /\ ~Matches(Head(down))) \/ LoseReply \/ Reboot \/ Finished \/ UNCHANGED vars
  BY <1>6, <1>7 DEF Receive, LoseReply, Reboot, Finished, vars, clientVars, fcVars
<1> QED BY <1>1, <1>2, <1>3, <1>4, <1>5, <1>7 DEF Next

(* uploadFile is a FileStore: it never empties a file it has begun to write, *)
(* leaves no gap in it, tells its caller once, and nothing late undoes a     *)
(* success.                                                                  *)
THEOREM UploadRefinement == Spec => Implements
<1>1. Init => FreshInv /\ Store!Init
  <2> SUFFICES ASSUME Init PROVE FreshInv /\ Store!Init
    OBVIOUS
  <2>1. up = <<>> /\ disk = [i \in Places |-> IF i < OldChunks THEN "old" ELSE "none"]
    BY DEF Init
  <2>2. FreshInv
    BY <2>1 DEF FreshInv
  <2>3. Store!Init
    BY <2>1 DEF Init, Store!Init, Store!Chunks, Places
  <2> QED BY <2>2, <2>3
<1>2. IInv /\ IInv' /\ FreshInv /\ [Next]_vars => FreshInv' /\ [Store!Next]_(Store!fsVars)
  BY StepStores
<1> QED BY <1>1, <1>2, UploadInvariance, PTL DEF Spec, Implements, Store!Spec
=============================================================================
