---------------------------- MODULE MissionProofs ----------------------------
(***************************************************************************)
(* Proofs about Mission, for any fleet, missions of any lengths, any       *)
(* number of calls, and links that hold any number of packets.             *)
(***************************************************************************)
EXTENDS Mission, FunctionTheorems, FiniteSetTheorems, SequenceTheorems, WellFoundedInduction, TLAPS

-----------------------------------------------------------------------------
(* The inductive invariant.                                                  *)

Lengths == Lens \cup {0}
Items == [of : Vehicles \X Nat, seq : Nat]
Messages ==
  [kind : {"request"}, seq : Nat] \cup [kind : {"ack"}, ok : BOOLEAN] \cup
  [kind : {"count"}, n : Lengths] \cup [kind : {"item"}, item : Items]

Numbered(s) == \A i \in DOMAIN s : s[i].seq = i - 1

(* A vehicle that takes a mission has a part of it, and numbers its items.   *)
Sound(f) ==
  /\ f \in [held : Seq(Items), n : Lengths, buf : Seq(Items), asks : Nat]
  /\ Len(f.held) \in Lengths /\ Numbered(f.held) /\ Numbered(f.buf)
  /\ IF f.n = 0 THEN f.buf = <<>> ELSE Len(f.buf) < f.n

WorldInv ==
  /\ wire \in [Vehicles -> Seq(Messages)] /\ \A v \in Vehicles : Len(wire[v]) <= MaxWire
  /\ DOMAIN fc = Vehicles /\ fc = [v \in Vehicles |-> fc[v]]
  /\ \A v \in Vehicles : Sound(fc[v])
  /\ Primary \in open

TimerNames == {"none", "first", "items"}
Ups == [id : 1 .. MaxCalls, for : Vehicles, target : Vehicles, own : BOOLEAN, len : Lens,
        seq : Nat, timer : TimerNames]
Downs == [id : 1 .. MaxCalls, target : Vehicles, expected : Lengths, got : SUBSET Items,
          timer : TimerNames]

Types ==
  /\ up = NoUpload \/
       (up \in Ups /\ up.seq < up.len /\ (up.target # up.for => up.target = Primary))
  /\ down = NoDownload \/
       (down \in Downs /\ \A g, h \in down.got : g.seq = h.seq => g = h)
  /\ clearing \in BOOLEAN /\ alone \in BOOLEAN /\ calls \in 0 .. MaxCalls
  /\ stray \subseteq {"up", "down"} \X {"first", "items"}

(* Nothing is going on at the vehicles other than t.                         *)
Others(W, F, t) == \A v \in Vehicles \ {t} : W[v] = <<>> /\ F[v].n = 0

(* Vehicle f, which the packets q come from, takes the mission of of len     *)
(* items: it has a prefix of it, and all of it when it says so.              *)
Taking(f, q, of, len) ==
  /\ f.n # 0 => f.n = len /\ f.buf = MissionOf(of, Len(f.buf))
  /\ \A k \in DOMAIN q : q[k].kind = "ack" /\ q[k].ok = TRUE =>
       f.n = 0 /\ f.held = MissionOf(of, len)

(* Vehicle f gives its mission to the download d.                            *)
Giving(f, q, d) ==
  /\ f.n = 0
  /\ d.expected \in {0, Len(f.held)}
  /\ \A g \in d.got : \E i \in DOMAIN f.held : g = f.held[i]
  /\ \A k \in DOMAIN q :
       /\ q[k].kind = "count" => q[k].n = Len(f.held)
       /\ q[k].kind = "item" =>
            d.expected # 0 /\ \E i \in DOMAIN f.held : q[k].item = f.held[i]

UpInv ==
  alone = TRUE /\ up # NoUpload =>
    /\ down = NoDownload
    /\ Others(wire, fc, up.target)
    /\ Taking(fc[up.target], wire[up.target], <<up.for, up.id>>, up.len)

DownInv ==
  alone = TRUE /\ down # NoDownload =>
    /\ up = NoUpload
    /\ Others(wire, fc, down.target)
    /\ Giving(fc[down.target], wire[down.target], down)

SentInv ==
  \A e \in sent : alone = TRUE /\ e.kind \in {"uploaded", "shown"} => fc[e.target].held = e.mission

IInv == Types /\ WorldInv /\ UpInv /\ DownInv /\ SentInv

-----------------------------------------------------------------------------
(* What a packet to a vehicle brings about.                                  *)

(* Vehicle v becomes f; it answers r, or nothing that arrives.               *)
Gets(w, v, f, r) ==
  /\ fc' = [fc EXCEPT ![v] = f]
  /\ wire' = w \/ (Len(w[v]) < MaxWire /\ wire' = [w EXCEPT ![v] = Append(@, r)])

(* w is on the wires, and on that of v only some of what was.                *)
OnWires(w) == w \in [Vehicles -> Seq(Messages)] /\ \A v \in Vehicles : Len(w[v]) <= MaxWire

LEMMA SoundFacts ==
  ASSUME NEW f, Sound(f)
  PROVE  /\ f.held \in Seq(Items) /\ f.buf \in Seq(Items) /\ f.n \in Nat /\ f.n \in Lengths /\ f.asks \in Nat
         /\ Len(f.held) \in Nat /\ Len(f.held) \in Lengths /\ Len(f.buf) \in Nat
         /\ DOMAIN f.held = 1 .. Len(f.held) /\ DOMAIN f.buf = 1 .. Len(f.buf)
<1>1. Lengths \subseteq Nat
  BY MissionAssumption DEF Lengths
<1> QED BY <1>1, LenProperties DEF Sound

LEMMA StopsSound ==
  ASSUME NEW f, Sound(f)
  PROVE  Sound(Stops(f)) /\ Stops(f).n = 0 /\ Stops(f).held = f.held
<1> DEFINE g == Stops(f)
<1>1. /\ f \in [held : Seq(Items), n : Lengths, buf : Seq(Items), asks : Nat]
      /\ 0 \in Lengths /\ <<>> \in Seq(Items) /\ Len(f.held) \in Lengths /\ Numbered(f.held)
  BY DEF Sound, Lengths
<1>2. /\ g \in [held : Seq(Items), n : Lengths, buf : Seq(Items), asks : Nat]
      /\ g.held = f.held /\ g.n = 0 /\ g.buf = <<>>
  BY <1>1 DEF Stops
<1> HIDE DEF g
<1>3. Numbered(<<>>)
  BY DEF Numbered
<1>4. Sound(g)
  BY <1>1, <1>2, <1>3 DEF Sound
<1> QED BY <1>2, <1>4 DEF g

LEMMA MessageFacts ==
  /\ \A b \in BOOLEAN : Ack(b) \in Messages /\ Ack(b).kind = "ack" /\ Ack(b).ok = b
  /\ \A q \in Nat : Request(q) \in Messages /\ Request(q).kind = "request" /\ Request(q).seq = q
  /\ \A n \in Lengths : Count(n) \in Messages /\ Count(n).kind = "count" /\ Count(n).n = n
  /\ \A i \in Items : Carry(i) \in Messages /\ Carry(i).kind = "item" /\ Carry(i).item = i
  /\ Ask("list").kind = "list" /\ Ask("clear").kind = "clear"
BY DEF Messages, Ack, Request, Count, Carry, Ask

LEMMA MessageKinds ==
  ASSUME NEW m \in Messages
  PROVE  /\ m.kind \in {"request", "ack", "count", "item"}
         /\ m.kind = "request" => m.seq \in Nat
         /\ m.kind = "ack" => m.ok \in BOOLEAN
         /\ m.kind = "count" => m.n \in Lengths
         /\ m.kind = "item" => m.item \in Items
BY DEF Messages

LEMMA SendCases ==
  ASSUME NEW w, NEW v \in Vehicles, NEW m, Send(w, v, m), WorldInv, NEW f, NEW r, NEW g, NEW o,
         Outcomes(fc[v], m) = {[fc |-> f, reply |-> r], [fc |-> g, reply |-> o]}
  PROVE  Gets(w, v, fc[v], Ack(FALSE)) \/ Gets(w, v, f, r) \/ Gets(w, v, g, o)
<1>1. CASE wire' = w /\ UNCHANGED fc
  <2>1. fc' = [fc EXCEPT ![v] = fc[v]]
    BY <1>1 DEF WorldInv
  <2> QED BY <1>1, <2>1 DEF Gets
<1>2. ASSUME NEW a \in Outcomes(fc[v], m), fc' = [fc EXCEPT ![v] = a.fc],
             wire' = IF Len(w[v]) < MaxWire THEN [w EXCEPT ![v] = Append(@, a.reply)] ELSE w
      PROVE  Gets(w, v, f, r) \/ Gets(w, v, g, o)
  <2>1. Gets(w, v, a.fc, a.reply)
    BY <1>2 DEF Gets
  <2>2. (a.fc = f /\ a.reply = r) \/ (a.fc = g /\ a.reply = o)
    BY <1>2
  <2> QED BY <2>1, <2>2
<1> QED BY <1>1, <1>2 DEF Send

LEMMA SendCount ==
  ASSUME NEW w, NEW v \in Vehicles, NEW n \in Lengths, Send(w, v, Count(n)), WorldInv
  PROVE  \/ Gets(w, v, fc[v], Ack(FALSE))
         \/ Gets(w, v, [fc[v] EXCEPT !.n = n, !.buf = <<>>, !.asks = 0], Request(0))
<1> DEFINE m == Count(n)
           g == [fc[v] EXCEPT !.n = m.n, !.buf = <<>>, !.asks = 0]
<1>1. m.kind = "count" /\ m.n = n
  BY DEF Count
<1> HIDE DEF m
<1>2. Outcomes(fc[v], m) = {[fc |-> g, reply |-> Request(0)], [fc |-> fc[v], reply |-> Ack(FALSE)]}
  BY <1>1 DEF Outcomes
<1> HIDE DEF g
<1>3. Gets(w, v, fc[v], Ack(FALSE)) \/ Gets(w, v, g, Request(0))
  BY <1>2, SendCases DEF m
<1> QED BY <1>1, <1>3 DEF g

LEMMA SendList ==
  ASSUME NEW w, NEW v \in Vehicles, Send(w, v, Ask("list")), WorldInv
  PROVE  \/ Gets(w, v, fc[v], Ack(FALSE))
         \/ Gets(w, v, fc[v], Count(Len(fc[v].held)))
<1> DEFINE m == Ask("list")
<1>1. m.kind = "list"
  BY DEF Ask
<1> HIDE DEF m
<1>2. Outcomes(fc[v], m) = {[fc |-> fc[v], reply |-> Count(Len(fc[v].held))], [fc |-> fc[v], reply |-> Ack(FALSE)]}
  BY <1>1 DEF Outcomes
<1> QED BY <1>2, SendCases DEF m

LEMMA SendClear ==
  ASSUME NEW w, NEW v \in Vehicles, Send(w, v, Ask("clear")), WorldInv
  PROVE  \/ Gets(w, v, fc[v], Ack(FALSE))
         \/ Gets(w, v, Stops([fc[v] EXCEPT !.held = <<>>]), Ack(TRUE))
<1> DEFINE m == Ask("clear")
           g == Stops([fc[v] EXCEPT !.held = <<>>])
<1>1. m.kind = "clear"
  BY DEF Ask
<1> HIDE DEF m
<1>2. Outcomes(fc[v], m) = {[fc |-> g, reply |-> Ack(TRUE)], [fc |-> fc[v], reply |-> Ack(FALSE)]}
  BY <1>1 DEF Outcomes
<1> HIDE DEF g
<1>3. Gets(w, v, fc[v], Ack(FALSE)) \/ Gets(w, v, g, Ack(TRUE))
  BY <1>2, SendCases DEF m
<1> QED BY <1>3 DEF g

LEMMA SendRequest ==
  ASSUME NEW w, NEW v \in Vehicles, NEW q \in Nat, Send(w, v, Request(q)), WorldInv
  PROVE  \/ Gets(w, v, fc[v], Ack(FALSE))
         \/ q < Len(fc[v].held) /\ Gets(w, v, fc[v], Carry(fc[v].held[q + 1]))
<1> DEFINE m == Request(q)
           r == IF m.seq < Len(fc[v].held) THEN Carry(fc[v].held[m.seq + 1]) ELSE Ack(FALSE)
<1>1. m.kind = "request" /\ m.seq = q
  BY DEF Request
<1> HIDE DEF m
<1>2. Outcomes(fc[v], m) = {[fc |-> fc[v], reply |-> r], [fc |-> fc[v], reply |-> r]}
  BY <1>1 DEF Outcomes
<1> HIDE DEF r
<1>3. Gets(w, v, fc[v], Ack(FALSE)) \/ Gets(w, v, fc[v], r)
  BY <1>2, SendCases DEF m
<1> QED BY <1>1, <1>3 DEF r

LEMMA SendItem ==
  ASSUME NEW w, NEW v \in Vehicles, NEW i \in Items, Send(w, v, Carry(i)), WorldInv
  PROVE  LET f == fc[v]
             b == Append(f.buf, i)
         IN  \/ Gets(w, v, f, Ack(FALSE))
             \/ /\ f.n > 0 /\ i.seq = Len(f.buf)
                /\ \/ Gets(w, v, Stops(f), Ack(FALSE))
                   \/ Len(b) = f.n /\ Gets(w, v, Stops([f EXCEPT !.held = b]), Ack(TRUE))
                   \/ Len(b) # f.n /\ Gets(w, v, [f EXCEPT !.buf = b, !.asks = 0], Request(Len(b)))
<1> DEFINE m == Carry(i)
           f == fc[v]
           taken == [f EXCEPT !.buf = Append(@, m.item), !.asks = 0]
           g == IF Len(taken.buf) = f.n THEN Stops([f EXCEPT !.held = taken.buf]) ELSE taken
           o == IF Len(taken.buf) = f.n THEN Ack(TRUE) ELSE Request(Len(taken.buf))
<1>1. m.kind = "item" /\ m.item = i
  BY DEF Carry
<1>2. f \in [held : Seq(Items), n : Lengths, buf : Seq(Items), asks : Nat]
  BY DEF WorldInv, Sound
<1> HIDE DEF m, f
<1>3. taken.buf = Append(f.buf, i) /\ taken = [f EXCEPT !.buf = Append(f.buf, i), !.asks = 0]
  BY <1>1, <1>2
<1>4. (IF Len(taken.buf) = f.n
       THEN [fc |-> Stops([f EXCEPT !.held = taken.buf]), reply |-> Ack(TRUE)]
       ELSE [fc |-> taken, reply |-> Request(Len(taken.buf))]) = [fc |-> g, reply |-> o]
  <2> HIDE DEF taken
  <2>1. CASE Len(taken.buf) = f.n
    BY <2>1
  <2>2. CASE Len(taken.buf) # f.n
    BY <2>2
  <2> QED BY <2>1, <2>2
<1>5. f.n > 0 /\ m.item.seq = Len(f.buf) =>
        Outcomes(f, m) = {[fc |-> g, reply |-> o], [fc |-> Stops(f), reply |-> Ack(FALSE)]}
  BY <1>1, <1>4 DEF Outcomes
<1>6. ~(f.n > 0 /\ m.item.seq = Len(f.buf)) =>
        Outcomes(f, m) = {[fc |-> f, reply |-> Ack(FALSE)], [fc |-> f, reply |-> Ack(FALSE)]}
  BY <1>1 DEF Outcomes
<1>7. \/ Len(taken.buf) = f.n /\ g = Stops([f EXCEPT !.held = taken.buf]) /\ o = Ack(TRUE)
      \/ Len(taken.buf) # f.n /\ g = taken /\ o = Request(Len(taken.buf))
  OBVIOUS
<1> HIDE DEF taken, g, o
<1>8. CASE f.n > 0 /\ m.item.seq = Len(f.buf)
  <2>1. Gets(w, v, f, Ack(FALSE)) \/ Gets(w, v, g, o) \/ Gets(w, v, Stops(f), Ack(FALSE))
    BY <1>5, <1>8, SendCases DEF m, f
  <2> QED BY <1>1, <1>3, <1>7, <1>8, <2>1 DEF f
<1>9. CASE ~(f.n > 0 /\ m.item.seq = Len(f.buf))
  <2>1. Gets(w, v, f, Ack(FALSE))
    BY <1>6, <1>9, SendCases DEF m, f
  <2> QED BY <2>1 DEF f
<1> QED BY <1>8, <1>9

(* The world after it.                                                       *)
LEMMA GetsGood ==
  ASSUME WorldInv, Primary \in open', NEW w, OnWires(w), NEW v \in Vehicles,
         NEW f, Sound(f), NEW r \in Messages, Gets(w, v, f, r)
  PROVE  /\ WorldInv'
         /\ \A u \in Vehicles \ {v} : wire'[u] = w[u] /\ fc'[u] = fc[u]
         /\ fc'[v] = f
         /\ \A k \in DOMAIN wire'[v] : wire'[v][k] = r \/ (k \in DOMAIN w[v] /\ wire'[v][k] = w[v][k])
<1>1. /\ fc'[v] = f /\ \A u \in Vehicles \ {v} : fc'[u] = fc[u]
      /\ DOMAIN fc' = Vehicles /\ fc' = [u \in Vehicles |-> fc'[u]]
  BY DEF Gets, WorldInv
<1>2. \A u \in Vehicles : Sound(fc'[u])
  BY <1>1 DEF WorldInv
<1>3. /\ OnWires(wire')
      /\ \A u \in Vehicles \ {v} : wire'[u] = w[u]
      /\ \A k \in DOMAIN wire'[v] : wire'[v][k] = r \/ (k \in DOMAIN w[v] /\ wire'[v][k] = w[v][k])
  <2>1. CASE wire' = w
    BY <2>1
  <2>2. CASE Len(w[v]) < MaxWire /\ wire' = [w EXCEPT ![v] = Append(@, r)]
    <3>1. w[v] \in Seq(Messages)
      BY DEF OnWires
    <3>2. /\ Append(w[v], r) \in Seq(Messages) /\ Len(Append(w[v], r)) = Len(w[v]) + 1 /\ Len(w[v]) \in Nat
          /\ DOMAIN w[v] = 1 .. Len(w[v]) /\ DOMAIN Append(w[v], r) = 1 .. Len(w[v]) + 1
          /\ \A k \in 1 .. Len(w[v]) : Append(w[v], r)[k] = w[v][k]
          /\ Append(w[v], r)[Len(w[v]) + 1] = r
      BY <3>1, AppendProperties, LenProperties
    <3> DEFINE q == Append(w[v], r)
               n == Len(w[v])
    <3>3. wire'[v] = q /\ \A u \in Vehicles \ {v} : wire'[u] = w[u]
      BY <2>2 DEF OnWires
    <3>4. /\ Len(q) = n + 1 /\ n \in Nat /\ q \in Seq(Messages) /\ DOMAIN w[v] = 1 .. n
          /\ DOMAIN q = 1 .. n + 1 /\ (\A k \in 1 .. n : q[k] = w[v][k]) /\ q[n + 1] = r
      BY <3>2
    <3> HIDE DEF q, n
    <3>5. Len(wire'[v]) <= MaxWire
      BY <2>2, <3>3, <3>4, MissionAssumption DEF n
    <3>6. OnWires(wire')
      BY <2>2, <3>3, <3>5, <3>4 DEF OnWires, q
    <3>7. ASSUME NEW k \in 1 .. n + 1
          PROVE  q[k] = r \/ (k \in DOMAIN w[v] /\ q[k] = w[v][k])
      <4>1. CASE k \in 1 .. n
        BY <3>4, <4>1
      <4>2. CASE k = n + 1
        BY <3>4, <4>2
      <4> QED BY <3>4, <4>1, <4>2
    <3> QED BY <3>3, <3>6, <3>7, <3>4
  <2> QED BY <2>1, <2>2 DEF Gets
<1> QED BY <1>1, <1>2, <1>3 DEF WorldInv, OnWires

(* What is on the wires w is on their way already.                           *)
Less(w) ==
  /\ OnWires(w)
  /\ \A v \in Vehicles :
       /\ wire[v] = <<>> => w[v] = <<>>
       /\ \A k \in DOMAIN w[v] : \E j \in DOMAIN wire[v] : w[v][k] = wire[v][j]

LEMMA LessFacts ==
  ASSUME WorldInv
  PROVE  /\ Less(wire)
         /\ \A v \in Vehicles : Less([wire EXCEPT ![v] = <<>>])
         /\ \A v \in Vehicles : wire[v] # <<>> =>
              /\ Less(Rest(v)) /\ Head(wire[v]) \in Messages
              /\ \E k \in DOMAIN wire[v] : Head(wire[v]) = wire[v][k]
<1>1. OnWires(wire)
  BY DEF WorldInv, OnWires
<1>2. Less(wire)
  BY <1>1 DEF Less
<1>3. ASSUME NEW v \in Vehicles
      PROVE  Less([wire EXCEPT ![v] = <<>>])
  <2> DEFINE w == [wire EXCEPT ![v] = <<>>]
  <2>1. /\ w[v] = <<>> /\ \A u \in Vehicles \ {v} : w[u] = wire[u]
        /\ w \in [Vehicles -> Seq(Messages)]
    BY DEF WorldInv
  <2> HIDE DEF w
  <2>2. Len(w[v]) <= MaxWire /\ DOMAIN w[v] = {}
    BY <2>1, MissionAssumption
  <2>3. Less(w)
    BY <1>1, <2>1, <2>2 DEF Less, OnWires
  <2> QED BY <2>3 DEF w
<1>4. ASSUME NEW v \in Vehicles, wire[v] # <<>>
      PROVE  /\ Less(Rest(v)) /\ Head(wire[v]) \in Messages
             /\ \E k \in DOMAIN wire[v] : Head(wire[v]) = wire[v][k]
  <2> DEFINE q == wire[v]
             w == Rest(v)
  <2>1. q \in Seq(Messages) /\ q # <<>> /\ Len(q) <= MaxWire
    BY <1>4 DEF WorldInv
  <2>2. /\ Tail(q) \in Seq(Messages) /\ Len(Tail(q)) = Len(q) - 1 /\ Len(q) \in Nat \ {0}
        /\ Head(q) = q[1] /\ Head(q) \in Messages /\ DOMAIN q = 1 .. Len(q)
        /\ DOMAIN Tail(q) = 1 .. Len(q) - 1
        /\ \A k \in 1 .. Len(q) - 1 : Tail(q)[k] = q[k + 1]
    BY <2>1, HeadTailProperties, LenProperties
  <2>3. /\ w[v] = Tail(q) /\ \A u \in Vehicles \ {v} : w[u] = wire[u]
        /\ w \in [Vehicles -> Seq(Messages)]
    BY <2>2 DEF Rest, WorldInv
  <2> HIDE DEF w
  <2>4. Len(Tail(q)) <= MaxWire
    BY <2>1, <2>2, MissionAssumption
  <2>5. 1 \in DOMAIN q
    BY <2>2
  <2>6. \A k \in DOMAIN Tail(q) : k + 1 \in DOMAIN q /\ Tail(q)[k] = q[k + 1]
    BY <2>2
  <2>7. \A k \in DOMAIN w[v] : \E j \in DOMAIN wire[v] : w[v][k] = wire[v][j]
    BY <2>3, <2>6
  <2>8. Less(w)
    BY <1>1, <1>4, <2>3, <2>4, <2>7 DEF Less, OnWires
  <2> QED BY <2>2, <2>5, <2>8 DEF w
<1> QED BY <1>2, <1>3, <1>4

(* The upload of the mission of of len items goes on with vehicle t, which   *)
(* becomes f and answers r.                                                  *)
LEMMA UpSend ==
  ASSUME WorldInv, Primary \in open', NEW w, Less(w), NEW t \in Vehicles, NEW of, NEW len,
         Others(wire, fc, t), Taking(fc[t], wire[t], of, len),
         NEW f, Sound(f), NEW r \in Messages, Gets(w, t, f, r),
         f.n # 0 => f.n = len /\ f.buf = MissionOf(of, Len(f.buf)),
         r.kind = "ack" /\ r.ok = TRUE => f.n = 0 /\ f.held = MissionOf(of, len),
         fc[t].n = 0 => f.n = 0 /\ f.held = fc[t].held
  PROVE  Others(wire', fc', t) /\ Taking(fc'[t], wire'[t], of, len)
<1>1. /\ \A u \in Vehicles \ {t} : wire'[u] = w[u] /\ fc'[u] = fc[u]
      /\ fc'[t] = f
      /\ \A k \in DOMAIN wire'[t] : wire'[t][k] = r \/ (k \in DOMAIN w[t] /\ wire'[t][k] = w[t][k])
  BY GetsGood DEF Less
<1>2. \A k \in DOMAIN wire'[t] : wire'[t][k] = r \/ \E j \in DOMAIN wire[t] : wire'[t][k] = wire[t][j]
  BY <1>1 DEF Less
<1>3. Others(wire', fc', t)
  BY <1>1 DEF Others, Less
<1>4. Taking(f, wire'[t], of, len)
  BY <1>2 DEF Taking
<1> QED BY <1>1, <1>3, <1>4

(* The download d goes on as e.                                              *)
LEMMA DownSend ==
  ASSUME WorldInv, Primary \in open', NEW w, Less(w), NEW t \in Vehicles, NEW d, NEW e,
         Others(wire, fc, t), Giving(fc[t], wire[t], d),
         NEW r \in Messages, Gets(w, t, fc[t], r),
         e.expected \in {0, Len(fc[t].held)}, d.expected # 0 => e.expected # 0,
         \A g \in e.got : \E i \in DOMAIN fc[t].held : g = fc[t].held[i],
         r.kind = "count" => r.n = Len(fc[t].held),
         r.kind = "item" => e.expected # 0 /\ \E i \in DOMAIN fc[t].held : r.item = fc[t].held[i]
  PROVE  Others(wire', fc', t) /\ Giving(fc'[t], wire'[t], e)
<1>0. Sound(fc[t])
  BY DEF WorldInv
<1>1. /\ \A u \in Vehicles \ {t} : wire'[u] = w[u] /\ fc'[u] = fc[u]
      /\ fc'[t] = fc[t]
      /\ \A k \in DOMAIN wire'[t] : wire'[t][k] = r \/ (k \in DOMAIN w[t] /\ wire'[t][k] = w[t][k])
  BY <1>0, GetsGood DEF Less
<1>2. \A k \in DOMAIN wire'[t] : wire'[t][k] = r \/ \E j \in DOMAIN wire[t] : wire'[t][k] = wire[t][j]
  BY <1>1 DEF Less
<1>3. Others(wire', fc', t)
  BY <1>1 DEF Others, Less
<1>4. Giving(fc[t], wire'[t], e)
  BY <1>2 DEF Giving
<1> QED BY <1>1, <1>3, <1>4

-----------------------------------------------------------------------------
(* Steps in which packets are only lost or taken, and a transfer at most     *)
(* ends or has its timer set.                                                *)

Softer(x, y, none) ==
  y = none \/ y = x \/ (x # none /\ \E timer \in TimerNames : y = [x EXCEPT !.timer = timer])

LEMMA UpFacts ==
  ASSUME Types, up # NoUpload
  PROVE  /\ up \in Ups /\ up.seq < up.len /\ (up.target # up.for => up.target = Primary)
         /\ up.target \in Vehicles /\ up.for \in Vehicles /\ up.id \in Nat /\ up.id # 0
         /\ up.len \in Lens /\ up.len \in Nat /\ up.len # 0 /\ up.timer \in TimerNames
BY MissionAssumption DEF Types, Ups

LEMMA DownFacts ==
  ASSUME Types, down # NoDownload
  PROVE  /\ down \in Downs /\ (\A g, h \in down.got : g.seq = h.seq => g = h)
         /\ down.target \in Vehicles /\ down.id # 0 /\ down.got \subseteq Items
         /\ down.expected \in Lengths /\ down.timer \in TimerNames
BY MissionAssumption DEF Types, Downs

LEMMA SofterUp ==
  ASSUME Types, Softer(up, up', NoUpload), up' # NoUpload
  PROVE  /\ up # NoUpload
         /\ up'.target = up.target /\ up'.for = up.for /\ up'.id = up.id /\ up'.len = up.len
         /\ up' \in Ups /\ up'.seq = up.seq
<1>1. CASE up' = up
  BY <1>1, UpFacts
<1>2. ASSUME NEW timer \in TimerNames, up # NoUpload, up' = [up EXCEPT !.timer = timer]
      PROVE  /\ up # NoUpload
             /\ up'.target = up.target /\ up'.for = up.for /\ up'.id = up.id /\ up'.len = up.len
             /\ up' \in Ups /\ up'.seq = up.seq
  <2>1. up \in Ups
    BY <1>2, UpFacts
  <2> QED BY <1>2, <2>1 DEF Ups
<1> QED BY <1>1, <1>2 DEF Softer

LEMMA SofterDown ==
  ASSUME Types, Softer(down, down', NoDownload), down' # NoDownload
  PROVE  /\ down # NoDownload
         /\ down'.target = down.target /\ down'.got = down.got /\ down'.expected = down.expected
         /\ down' \in Downs
<1>1. CASE down' = down
  BY <1>1, DownFacts
<1>2. ASSUME NEW timer \in TimerNames, down # NoDownload, down' = [down EXCEPT !.timer = timer]
      PROVE  /\ down # NoDownload
             /\ down'.target = down.target /\ down'.got = down.got /\ down'.expected = down.expected
             /\ down' \in Downs
  <2>1. down \in Downs
    BY <1>2, DownFacts
  <2> QED BY <1>2, <2>1 DEF Downs
<1> QED BY <1>1, <1>2 DEF Softer

LEMMA QuietStep ==
  ASSUME Types, WorldInv, UpInv, DownInv, SentInv',
         fc' = fc, Less(wire'), Primary \in open', alone' = alone, calls' = calls,
         Softer(up, up', NoUpload), Softer(down, down', NoDownload),
         clearing' \in BOOLEAN, stray' \subseteq {"up", "down"} \X {"first", "items"}
  PROVE  IInv'
<1>1. WorldInv'
  BY DEF WorldInv, Less, OnWires
<1>2. ASSUME NEW t \in Vehicles, Others(wire, fc, t)
      PROVE  Others(wire', fc', t)
  BY <1>2 DEF Others, Less
<1>3. UpInv'
  <2> SUFFICES ASSUME alone = TRUE, up' # NoUpload
               PROVE  /\ down' = NoDownload
                      /\ Others(wire', fc', up'.target)
                      /\ Taking(fc'[up'.target], wire'[up'.target], <<up'.for, up'.id>>, up'.len)
    BY DEF UpInv
  <2>1. up # NoUpload /\ up'.target = up.target /\ up'.for = up.for /\ up'.id = up.id /\ up'.len = up.len
    BY SofterUp
  <2>2. up.target \in Vehicles
    BY <2>1, UpFacts
  <2>3. /\ down = NoDownload /\ Others(wire, fc, up.target)
        /\ Taking(fc[up.target], wire[up.target], <<up.for, up.id>>, up.len)
    BY <2>1 DEF UpInv
  <2>4. Taking(fc[up.target], wire'[up.target], <<up.for, up.id>>, up.len)
    BY <2>2, <2>3 DEF Taking, Less
  <2>5. down' = NoDownload
    BY <2>3 DEF Softer
  <2> QED BY <1>2, <2>1, <2>2, <2>3, <2>4, <2>5
<1>4. DownInv'
  <2> SUFFICES ASSUME alone = TRUE, down' # NoDownload
               PROVE  /\ up' = NoUpload
                      /\ Others(wire', fc', down'.target)
                      /\ Giving(fc'[down'.target], wire'[down'.target], down')
    BY DEF DownInv
  <2>1. down # NoDownload /\ down'.target = down.target /\ down'.got = down.got /\ down'.expected = down.expected
    BY SofterDown
  <2>2. down.target \in Vehicles
    BY <2>1, DownFacts
  <2>3. /\ up = NoUpload /\ Others(wire, fc, down.target)
        /\ Giving(fc[down.target], wire[down.target], down)
    BY <2>1 DEF DownInv
  <2>4. Giving(fc[down.target], wire'[down.target], down')
    BY <2>1, <2>2, <2>3 DEF Giving, Less
  <2>5. up' = NoUpload
    BY <2>3 DEF Softer
  <2> QED BY <1>2, <2>1, <2>2, <2>3, <2>4, <2>5
<1>5. Types'
  <2>1. up' = NoUpload \/ (up' \in Ups /\ up'.seq < up'.len /\ (up'.target # up'.for => up'.target = Primary))
    BY SofterUp, UpFacts
  <2>2. down' = NoDownload \/ (down' \in Downs /\ \A g, h \in down'.got : g.seq = h.seq => g = h)
    BY SofterDown, DownFacts
  <2> QED BY <2>1, <2>2 DEF Types
<1> QED BY <1>1, <1>3, <1>4, <1>5 DEF IInv

-----------------------------------------------------------------------------
(* The items of a download in order.                                         *)

LEMMA SmallestNat ==
  ASSUME NEW S \in SUBSET Nat, S # {}
  PROVE  \E x \in S : \A y \in S : x <= y
<1>1. PICK x \in S : \A y \in S : ~(<<y, x>> \in OpToRel(<, Nat))
  BY NatLessThanWellFounded, WFMin
<1>2. ASSUME NEW y \in S, ~(x <= y)
      PROVE  FALSE
  <2>1. <<y, x>> \in Nat \X Nat /\ y < x
    BY <1>2
  <2>2. <<y, x>> \in OpToRel(<, Nat)
    BY <2>1 DEF OpToRel
  <2> QED BY <1>1, <2>2
<1> QED BY <1>2

(* Numbers between 0 and n - 1 that increase n times are 0, 1, 2 ...         *)
LEMMA OneByOne ==
  ASSUME NEW n \in Nat, NEW a \in [1 .. n -> 0 .. n - 1], \A i, j \in 1 .. n : i < j => a[i] < a[j],
         NEW i \in 1 .. n
  PROVE  a[i] = i - 1
<1>1. a[i] >= i - 1
  <2> DEFINE Bad == {k \in 1 .. n : a[k] < k - 1}
  <2> SUFFICES ASSUME a[i] < i - 1 PROVE FALSE
    <3>1. a[i] \in 0 .. n - 1
      OBVIOUS
    <3> QED BY <3>1
  <2>1. i \in Bad
    OBVIOUS
  <2>2. PICK k \in Bad : \A l \in Bad : k <= l
    <3>1. Bad \in SUBSET Nat
      OBVIOUS
    <3> HIDE DEF Bad
    <3> QED BY <2>1, <3>1, SmallestNat
  <2>3. k \in 1 .. n /\ a[k] < k - 1 /\ a[k] \in 0 .. n - 1
    BY <2>2
  <2>4. k - 1 \in 1 .. n /\ k - 1 < k
    BY <2>3
  <2>5. a[k - 1] < a[k] /\ a[k - 1] \in 0 .. n - 1
    BY <2>3, <2>4
  <2>6. a[k - 1] < (k - 1) - 1
    BY <2>3, <2>5
  <2>7. k - 1 \in Bad
    BY <2>4, <2>6
  <2> HIDE DEF Bad
  <2>8. k <= k - 1
    BY <2>2, <2>7
  <2> QED BY <2>3, <2>8
<1>2. a[i] <= i - 1
  <2> DEFINE Bad == {k \in 1 .. n : a[n + 1 - k] > n - k}
  <2> SUFFICES ASSUME a[i] > i - 1 PROVE FALSE
    BY <1>1
  <2>1. n + 1 - i \in Bad
    <3>1. n + 1 - i \in 1 .. n /\ n + 1 - (n + 1 - i) = i /\ n - (n + 1 - i) = i - 1
      OBVIOUS
    <3> QED BY <3>1
  <2>2. PICK k \in Bad : \A l \in Bad : k <= l
    <3>1. Bad \in SUBSET Nat
      OBVIOUS
    <3> HIDE DEF Bad
    <3> QED BY <2>1, <3>1, SmallestNat
  <2>3. k \in 1 .. n /\ a[n + 1 - k] > n - k /\ n + 1 - k \in 1 .. n /\ a[n + 1 - k] \in 0 .. n - 1
    BY <2>2
  <2>4. k - 1 \in 1 .. n /\ n + 1 - (k - 1) \in 1 .. n /\ n + 1 - k < n + 1 - (k - 1)
    BY <2>3
  <2>5. a[n + 1 - k] < a[n + 1 - (k - 1)] /\ a[n + 1 - (k - 1)] \in 0 .. n - 1
    BY <2>3, <2>4
  <2>6. a[n + 1 - (k - 1)] > n - (k - 1)
    BY <2>3, <2>5
  <2>7. k - 1 \in Bad
    BY <2>4, <2>6
  <2> HIDE DEF Bad
  <2>8. k <= k - 1
    BY <2>2, <2>7
  <2> QED BY <2>3, <2>8
<1> QED BY <1>1, <1>2

(* As many items of the mission h as it has, in order, are h.                *)
LEMMA SortedGood ==
  ASSUME NEW h \in Seq(Items), Numbered(h), NEW got,
         \A g \in got : \E i \in DOMAIN h : g = h[i], Cardinality(got) >= Len(h)
  PROVE  Sorted(got) = h
<1> DEFINE n == Len(h)
           S == {h[i] : i \in 1 .. n}
<1>1. n \in Nat /\ DOMAIN h = 1 .. n /\ h = [i \in 1 .. n |-> h[i]] /\ \A i \in 1 .. n : h[i].seq = i - 1
  BY LenProperties DEF Numbered
<1> HIDE DEF n
<1>2. IsFiniteSet(1 .. n) /\ Cardinality(1 .. n) = n
  <2>1. Cardinality(1 .. n) = (IF 1 > n THEN 0 ELSE n - 1 + 1) /\ IsFiniteSet(1 .. n)
    BY <1>1, FS_Interval, SMTT(30)
  <2> QED BY <1>1, <2>1
<1>3. h \in [1 .. n -> S]
  BY <1>1
<1>4. h \in Surjection(1 .. n, S)
  BY <1>3, Fun_IsSurj
<1>5. IsFiniteSet(S) /\ Cardinality(S) <= n
  BY <1>2, <1>4, FS_Surjection
<1>6. got \in SUBSET S
  BY <1>1
<1> HIDE DEF S
<1>7. /\ IsFiniteSet(got) /\ Cardinality(got) <= Cardinality(S)
      /\ Cardinality(S) = Cardinality(got) => S = got
  BY <1>5, <1>6, FS_Subset
<1>8. Cardinality(got) \in Nat /\ Cardinality(S) \in Nat
  BY <1>5, <1>7, FS_CardinalityType
<1>9. Cardinality(got) = n /\ got = S
  BY <1>1, <1>5, <1>7, <1>8 DEF n
<1>10. \E s \in [1 .. n -> got] : \A i, j \in DOMAIN s : i < j => s[i].seq < s[j].seq
  <2>1. \A i, j \in 1 .. n : i < j => h[i].seq < h[j].seq
    BY <1>1
  <2> QED BY <1>1, <1>3, <1>9, <2>1
<1>11. PICK s : s = Sorted(got)
  OBVIOUS
<1>12. s \in [1 .. n -> got] /\ \A i, j \in DOMAIN s : i < j => s[i].seq < s[j].seq
  BY <1>9, <1>10, <1>11 DEF Sorted
<1>13. ASSUME NEW i \in 1 .. n
       PROVE  \E k \in 1 .. n : s[i] = h[k] /\ s[i].seq = k - 1
  <2>1. s[i] \in S
    BY <1>9, <1>12, <1>13
  <2>2. PICK k \in 1 .. n : s[i] = h[k]
    BY <2>1 DEF S
  <2> QED BY <1>1, <2>2
<1> DEFINE a == [i \in 1 .. n |-> s[i].seq]
<1>14. a \in [1 .. n -> 0 .. n - 1]
  <2>1. ASSUME NEW i \in 1 .. n PROVE s[i].seq \in 0 .. n - 1
    BY <1>1, <1>13
  <2> QED BY <2>1
<1>15. \A i, j \in 1 .. n : i < j => a[i] < a[j]
  BY <1>12
<1>16. ASSUME NEW i \in 1 .. n PROVE s[i] = h[i]
  <2>1. a[i] = s[i].seq
    OBVIOUS
  <2> HIDE DEF a
  <2>2. a[i] = i - 1
    BY <1>1, <1>14, <1>15, OneByOne
  <2>3. PICK k \in 1 .. n : s[i] = h[k] /\ s[i].seq = k - 1
    BY <1>13
  <2>4. i - 1 = k - 1
    BY <2>1, <2>2, <2>3
  <2>5. i \in Int /\ k \in Int
    BY <1>1
  <2>6. k = i
    BY <2>4, <2>5
  <2> QED BY <2>3, <2>6
<1>17. s = h
  BY <1>1, <1>12, <1>16
<1> QED BY <1>11, <1>17

-----------------------------------------------------------------------------
(* The steps.                                                                *)

LEMMA TimersFacts ==
  ASSUME Types
  PROVE  /\ Timers("up", up) \subseteq {"up", "down"} \X {"first", "items"}
         /\ Timers("down", down) \subseteq {"up", "down"} \X {"first", "items"}
         /\ up = NoUpload => Timers("up", up) = {}
<1>1. up # NoUpload => up.timer \in TimerNames
  BY UpFacts
<1>2. down # NoDownload => down.timer \in TimerNames
  BY DownFacts
<1>3. NoUpload.id = 0 /\ NoDownload.id = 0
  BY DEF NoUpload, NoDownload
<1> QED BY <1>1, <1>2, <1>3 DEF Timers, TimerNames

LEMMA HearsFacts ==
  ASSUME Types
  PROVE  /\ \A v : Hears(v, up) => up # NoUpload
         /\ \A v : Hears(v, down) => down # NoDownload
BY DEF Hears, NoUpload, NoDownload

(* Nothing that the step reports is a completed transfer.                    *)
LEMMA SentPlain ==
  ASSUME \A e \in sent' : e.kind \in {"failed", "cleared"}
  PROVE  SentInv'
BY DEF SentInv

LEMMA FailedEnd ==
  ASSUME NEW by
  PROVE  UploadEnd(FALSE, by).kind = "failed"
BY DEF UploadEnd

LEMMA SettleFalse ==
  ASSUME NEW by, Settle(FALSE, by, {})
  PROVE  up' = NoUpload /\ \A e \in sent' : e.kind \in {"failed", "cleared"}
BY FailedEnd DEF Settle

LEMMA UploadLateStep ==
  ASSUME NEW kind, UploadLate(kind)
  PROVE  /\ Softer(up, up', NoUpload) /\ Softer(down, down', NoDownload)
         /\ UNCHANGED <<clearing, calls, open, fc, wire, alone>>
         /\ \A e \in sent' : e.kind \in {"failed", "cleared"}
BY SettleFalse DEF UploadLate, Softer, world

LEMMA DownloadLateStep ==
  ASSUME NEW kind, DownloadLate(kind)
  PROVE  /\ Softer(up, up', NoUpload) /\ Softer(down, down', NoDownload)
         /\ UNCHANGED <<clearing, calls, open, fc, wire, alone>>
         /\ \A e \in sent' : e.kind \in {"failed", "cleared"}
BY DEF DownloadLate, Softer, world

(* A step that leaves the links alone.                                       *)
LEMMA AppStep ==
  ASSUME IInv, UNCHANGED <<calls, open, fc, wire, alone>>,
         Softer(up, up', NoUpload), Softer(down, down', NoDownload), clearing' \in BOOLEAN,
         stray' \subseteq {"up", "down"} \X {"first", "items"},
         \A e \in sent' : e.kind \in {"failed", "cleared"}
  PROVE  IInv'
<1>1. Types /\ WorldInv /\ UpInv /\ DownInv
  BY DEF IInv
<1>2. Less(wire') /\ fc' = fc /\ Primary \in open' /\ alone' = alone /\ calls' = calls
  BY <1>1, LessFacts DEF WorldInv
<1>3. SentInv'
  BY SentPlain
<1> QED BY <1>1, <1>2, <1>3, QuietStep

LEMMA TimerStep ==
  ASSUME IInv, TimerFires
  PROVE  IInv'
<1>1. Types
  BY DEF IInv
<1>2. clearing \in BOOLEAN /\ stray \subseteq {"up", "down"} \X {"first", "items"}
  BY <1>1 DEF Types
<1>3. ASSUME NEW t \in stray, stray' = stray \ {t}, Late(t)
      PROVE  IInv'
  <2>1. /\ Softer(up, up', NoUpload) /\ Softer(down, down', NoDownload)
        /\ UNCHANGED <<clearing, calls, open, fc, wire, alone>>
        /\ \A e \in sent' : e.kind \in {"failed", "cleared"}
    BY <1>3, UploadLateStep, DownloadLateStep DEF Late
  <2>2. stray' \subseteq {"up", "down"} \X {"first", "items"} /\ clearing' \in BOOLEAN
    BY <1>2, <1>3, <2>1
  <2> QED BY <2>1, <2>2, AppStep
<1>4. CASE /\ up # NoUpload /\ up.timer # "none"
           /\ IF up.timer = "first" /\ up.seq # 0
              THEN /\ up' = [up EXCEPT !.timer = "none"] /\ sent' = {}
                   /\ UNCHANGED <<down, clearing, writes, calls, world, alone>>
              ELSE UploadLate(up.timer)
           /\ UNCHANGED stray
  <2>1. \/ UploadLate(up.timer)
        \/ /\ up # NoUpload /\ up' = [up EXCEPT !.timer = "none"] /\ sent' = {}
           /\ UNCHANGED <<down, clearing, calls, open, fc, wire, alone>>
    BY <1>4 DEF world
  <2>2. /\ Softer(up, up', NoUpload) /\ Softer(down, down', NoDownload)
        /\ UNCHANGED <<clearing, calls, open, fc, wire, alone>>
        /\ \A e \in sent' : e.kind \in {"failed", "cleared"}
    <3>1. CASE UploadLate(up.timer)
      BY <3>1, UploadLateStep
    <3>2. CASE /\ up # NoUpload /\ up' = [up EXCEPT !.timer = "none"] /\ sent' = {}
               /\ UNCHANGED <<down, clearing, calls, open, fc, wire, alone>>
      <4>1. "none" \in TimerNames
        BY DEF TimerNames
      <4> QED BY <3>2, <4>1 DEF Softer
    <3> QED BY <2>1, <3>1, <3>2
  <2> QED BY <1>2, <1>4, <2>2, AppStep
<1>5. CASE /\ down # NoDownload /\ down.timer # "none"
           /\ IF down.timer = "first" /\ down.got # {}
              THEN /\ down' = [down EXCEPT !.timer = "none"] /\ sent' = {}
                   /\ UNCHANGED <<up, clearing, writes, calls, world, alone>>
              ELSE DownloadLate(down.timer)
           /\ UNCHANGED stray
  <2>1. \/ DownloadLate(down.timer)
        \/ /\ down # NoDownload /\ down' = [down EXCEPT !.timer = "none"] /\ sent' = {}
           /\ UNCHANGED <<up, clearing, calls, open, fc, wire, alone>>
    BY <1>5 DEF world
  <2>2. /\ Softer(up, up', NoUpload) /\ Softer(down, down', NoDownload)
        /\ UNCHANGED <<clearing, calls, open, fc, wire, alone>>
        /\ \A e \in sent' : e.kind \in {"failed", "cleared"}
    <3>1. CASE DownloadLate(down.timer)
      BY <3>1, DownloadLateStep
    <3>2. CASE /\ down # NoDownload /\ down' = [down EXCEPT !.timer = "none"] /\ sent' = {}
               /\ UNCHANGED <<up, clearing, calls, open, fc, wire, alone>>
      <4>1. "none" \in TimerNames
        BY DEF TimerNames
      <4> QED BY <3>2, <4>1 DEF Softer
    <3> QED BY <2>1, <3>1, <3>2
  <2> QED BY <1>2, <1>5, <2>2, AppStep
<1> QED BY <1>3, <1>4, <1>5 DEF TimerFires

LEMMA WrittenStep ==
  ASSUME IInv, NEW w \in writes, Written(w)
  PROVE  IInv'
<1>1. Types /\ clearing \in BOOLEAN /\ stray \subseteq {"up", "down"} \X {"first", "items"}
  BY DEF IInv, Types
<1>2. UNCHANGED <<calls, open, fc, wire, alone, clearing>>
  BY DEF Written, world
<1>3. \A e \in sent' : e.kind \in {"failed", "cleared"}
  <2>1. sent' = {[kind |-> "failed"]} \/ sent' = {}
    BY DEF Written
  <2> QED BY <2>1
<1>4. "first" \in TimerNames
  BY DEF TimerNames
<1>5. Softer(up, up', NoUpload) /\ Softer(down, down', NoDownload)
  BY <1>4 DEF Written, Softer
<1>6. stray' \subseteq {"up", "down"} \X {"first", "items"}
  BY <1>1, TimersFacts DEF Written
<1> QED BY <1>1, <1>2, <1>5, <1>6, <1>3, AppStep

LEMMA WriteFailsStep ==
  ASSUME IInv, NEW w \in writes, WriteFails(w)
  PROVE  IInv'
<1>1. Types /\ clearing \in BOOLEAN /\ stray \subseteq {"up", "down"} \X {"first", "items"}
  BY DEF IInv, Types
<1>2. UNCHANGED <<calls, open, fc, wire, alone>>
  BY DEF WriteFails, world
<1>3. Softer(up, up', NoUpload) /\ Softer(down, down', NoDownload)
  BY SettleFalse DEF WriteFails, Softer
<1>4. \A e \in sent' : e.kind \in {"failed", "cleared"}
  <2>1. sent' = {[kind |-> "failed"]} \/ Settle(FALSE, Primary, {})
    BY DEF WriteFails
  <2>2. CASE sent' = {[kind |-> "failed"]}
    BY <2>2
  <2>3. CASE Settle(FALSE, Primary, {})
    BY <2>3, SettleFalse
  <2> QED BY <2>1, <2>2, <2>3
<1>5. stray' \subseteq {"up", "down"} \X {"first", "items"} /\ clearing' \in BOOLEAN
  BY <1>1, TimersFacts DEF WriteFails
<1> QED BY <1>2, <1>3, <1>4, <1>5, AppStep

LEMMA LinkStep ==
  ASSUME IInv, NEW v \in Vehicles, LinkChanges(v)
  PROVE  IInv'
<1>1. Types /\ WorldInv /\ UpInv /\ DownInv
  BY DEF IInv
<1>2. /\ v # Primary /\ open' = (open \ {v}) \cup ({v} \ open) /\ wire' = [wire EXCEPT ![v] = <<>>]
      /\ sent' = {} /\ UNCHANGED <<up, down, clearing, stray, calls, fc, alone>>
  BY DEF LinkChanges
<1>3. Less(wire') /\ Primary \in open' /\ SentInv'
  BY <1>1, <1>2, LessFacts DEF WorldInv, SentInv
<1>4. Softer(up, up', NoUpload) /\ Softer(down, down', NoDownload) /\ clearing' \in BOOLEAN
      /\ stray' \subseteq {"up", "down"} \X {"first", "items"}
  BY <1>1, <1>2 DEF Softer, Types
<1> QED BY <1>1, <1>2, <1>3, <1>4, QuietStep

LEMMA AskAgainStep ==
  ASSUME IInv, NEW v \in Vehicles, AskAgain(v)
  PROVE  IInv'
<1>1. Types /\ WorldInv /\ UpInv /\ DownInv /\ Less(wire) /\ OnWires(wire) /\ Sound(fc[v])
  BY LessFacts DEF IInv, WorldInv, Less
<1> DEFINE f == fc[v]
           g == [f EXCEPT !.asks = @ + 1]
<1>2. /\ f.n > 0 /\ sent' = {} /\ UNCHANGED <<up, down, clearing, writes, stray, calls, open, alone>>
      /\ Gets(wire, v, g, Request(Len(f.buf))) \/ Gets(wire, v, Stops(f), Ack(FALSE))
  BY DEF AskAgain, Gets
<1> HIDE DEF f
<1>3. /\ Sound(g) /\ g.n = f.n /\ g.buf = f.buf /\ g.held = f.held
  BY <1>1 DEF Sound, f
<1>4. Sound(Stops(f)) /\ Stops(f).n = 0 /\ Stops(f).held = f.held
  BY <1>1, StopsSound DEF f
<1> HIDE DEF g
<1>5. Primary \in open' /\ Len(f.buf) \in Nat /\ f.n \in Nat
  BY <1>1, <1>2, SoundFacts DEF WorldInv, f
<1>6. ASSUME NEW h, Sound(h), NEW r \in Messages, Gets(wire, v, h, r),
             r.kind = "ack" => r.ok = FALSE,
             h.n # 0 => h.n = f.n /\ h.buf = f.buf
      PROVE  IInv'
  <2>1. WorldInv'
    BY <1>1, <1>5, <1>6, GetsGood
  <2>2. UpInv'
    <3> SUFFICES ASSUME alone = TRUE, up # NoUpload
                 PROVE  /\ Others(wire', fc', up.target)
                        /\ Taking(fc'[up.target], wire'[up.target], <<up.for, up.id>>, up.len)
      BY <1>1, <1>2 DEF UpInv
    <3>1. /\ Others(wire, fc, up.target) /\ up.target \in Vehicles
          /\ Taking(fc[up.target], wire[up.target], <<up.for, up.id>>, up.len)
      BY <1>1, UpFacts DEF UpInv
    <3>2. v = up.target
      BY <1>2, <3>1 DEF Others, f
    <3>3. h.n # 0 => h.n = up.len /\ h.buf = MissionOf(<<up.for, up.id>>, Len(h.buf))
      BY <1>2, <1>5, <1>6, <3>1, <3>2 DEF Taking, f
    <3>4. fc[v].n # 0
      BY <1>2, <1>5 DEF f
    <3> QED BY <1>1, <1>5, <1>6, <3>1, <3>2, <3>3, <3>4, UpSend
  <2>3. DownInv'
    <3> SUFFICES ASSUME alone = TRUE, down # NoDownload
                 PROVE  FALSE
      BY <1>2 DEF DownInv
    <3>1. fc[v].n = 0
      BY <1>1 DEF DownInv, Others, Giving
    <3> QED BY <1>2, <3>1 DEF f
  <2> QED BY <1>1, <1>2, <2>1, <2>2, <2>3 DEF IInv, Types, SentInv
<1>7. CASE Gets(wire, v, g, Request(Len(f.buf)))
  BY <1>3, <1>5, <1>6, <1>7, MessageFacts
<1>8. CASE Gets(wire, v, Stops(f), Ack(FALSE))
  BY <1>4, <1>6, <1>8, MessageFacts
<1> QED BY <1>2, <1>7, <1>8

(* A call is made: it is alone if nothing is going on.                       *)
LEMMA CallFacts ==
  ASSUME Types, Call
  PROVE  /\ calls \in 1 .. MaxCalls /\ calls' \in 0 .. MaxCalls /\ calls' = calls - 1
         /\ alone' \in BOOLEAN /\ sent' = {} /\ SentInv'
         /\ alone' = TRUE => /\ up = NoUpload /\ down = NoDownload
                             /\ \A v \in Vehicles : wire[v] = <<>> /\ fc[v].n = 0
<1>1. calls > 0 /\ calls' = calls - 1 /\ alone' = Calm /\ sent' = {}
  BY DEF Call
<1>2. calls \in 1 .. MaxCalls /\ calls' \in 0 .. MaxCalls
  BY <1>1, MissionAssumption DEF Types
<1> QED BY <1>1, <1>2 DEF Calm, SentInv

LEMMA ResolveTarget ==
  ASSUME NEW v \in Vehicles
  PROVE  Resolve(v) \in Vehicles /\ (Resolve(v) # v => Resolve(v) = Primary)
BY MissionAssumption DEF Resolve

LEMMA UploadsStep ==
  ASSUME IInv, NEW v \in Vehicles, NEW target \in Vehicles, target # v => target = Primary,
         NEW n \in Lens, NEW own \in BOOLEAN, Uploads(v, target, n, own),
         stray' \subseteq {"up", "down"} \X {"first", "items"}, UNCHANGED <<down, clearing, open>>
  PROVE  IInv'
<1> DEFINE u == [id |-> calls, for |-> v, target |-> target, own |-> own, len |-> n, seq |-> 0, timer |-> "none"]
           f == fc[target]
           g == [f EXCEPT !.n = n, !.buf = <<>>, !.asks = 0]
<1>1. Types /\ WorldInv /\ Less(wire) /\ OnWires(wire) /\ Sound(f) /\ Primary \in open'
  BY LessFacts DEF IInv, WorldInv, Less
<1>2. up' = u /\ Send(wire, target, Count(n)) /\ Call
  BY DEF Uploads
<1>3. /\ calls \in 1 .. MaxCalls /\ calls' \in 0 .. MaxCalls /\ alone' \in BOOLEAN /\ SentInv'
      /\ alone' = TRUE => /\ up = NoUpload /\ down = NoDownload
                          /\ \A x \in Vehicles : wire[x] = <<>> /\ fc[x].n = 0
  BY <1>1, <1>2, CallFacts
<1>4. n \in Nat /\ n > 0 /\ n \in Lengths
  BY MissionAssumption DEF Lengths
<1>5. u \in Ups /\ u.seq < u.len /\ u.target = target /\ u.for = v /\ u.id = calls /\ u.len = n
  BY <1>3, <1>4 DEF Ups, TimerNames
<1>6. Gets(wire, target, f, Ack(FALSE)) \/ Gets(wire, target, g, Request(0))
  BY <1>1, <1>2, <1>4, SendCount
<1> HIDE DEF u, f
<1>7. Sound(g) /\ g.n = n /\ g.buf = <<>>
  <2>1. /\ f \in [held : Seq(Items), n : Lengths, buf : Seq(Items), asks : Nat] /\ <<>> \in Seq(Items)
        /\ Len(f.held) \in Lengths /\ Numbered(f.held)
    BY <1>1 DEF Sound
  <2>2. /\ g \in [held : Seq(Items), n : Lengths, buf : Seq(Items), asks : Nat]
        /\ g.held = f.held /\ g.n = n /\ g.buf = <<>>
    BY <1>4, <2>1
  <2> HIDE DEF g
  <2>3. Numbered(<<>>) /\ Len(<<>>) = 0
    BY DEF Numbered
  <2> QED BY <1>4, <2>1, <2>2, <2>3 DEF Sound
<1> HIDE DEF g
<1>8. ASSUME NEW h, Sound(h), NEW r \in Messages, Gets(wire, target, h, r),
             r.kind = "ack" => r.ok = FALSE,
             h = f \/ (h.n = n /\ h.buf = <<>>)
      PROVE  IInv'
  <2>1. /\ WorldInv'
        /\ \A x \in Vehicles \ {target} : wire'[x] = wire[x] /\ fc'[x] = fc[x]
        /\ fc'[target] = h
        /\ \A k \in DOMAIN wire'[target] :
             wire'[target][k] = r \/ (k \in DOMAIN wire[target] /\ wire'[target][k] = wire[target][k])
    BY <1>1, <1>8, GetsGood
  <2>2. UpInv'
    <3> SUFFICES ASSUME alone' = TRUE
                 PROVE  /\ down' = NoDownload /\ Others(wire', fc', target)
                        /\ Taking(h, wire'[target], <<v, calls>>, n)
      BY <1>2, <1>5, <2>1 DEF UpInv
    <3>1. /\ down = NoDownload /\ \A x \in Vehicles : wire[x] = <<>> /\ fc[x].n = 0
      BY <1>3
    <3>2. \A k \in DOMAIN wire'[target] : wire'[target][k] = r
      BY <2>1, <3>1
    <3>3. MissionOf(<<v, calls>>, Len(<<>>)) = <<>>
      BY DEF MissionOf
    <3>4. h.n # 0 => h.n = n /\ h.buf = <<>>
      BY <1>8, <3>1 DEF f
    <3>5. Taking(h, wire'[target], <<v, calls>>, n)
      BY <1>8, <3>2, <3>3, <3>4 DEF Taking
    <3> QED BY <2>1, <3>1, <3>5 DEF Others
  <2>3. DownInv'
    BY <1>3 DEF DownInv
  <2>4. Types'
    BY <1>1, <1>2, <1>3, <1>5 DEF Types
  <2> QED BY <1>3, <2>1, <2>2, <2>3, <2>4 DEF IInv
<1>9. CASE Gets(wire, target, f, Ack(FALSE))
  BY <1>1, <1>8, <1>9, MessageFacts DEF f
<1>10. CASE Gets(wire, target, g, Request(0))
  BY <1>7, <1>8, <1>10, MessageFacts
<1> QED BY <1>6, <1>9, <1>10

LEMMA DownloadStep ==
  ASSUME IInv, NEW v \in Vehicles, MissionDownload(v)
  PROVE  IInv'
<1> DEFINE t == Resolve(v)
           d == [id |-> calls, target |-> t, expected |-> 0, got |-> {}, timer |-> "none"]
           f == fc[t]
<1>1. t \in Vehicles
  BY ResolveTarget
<1>2. /\ Call /\ down' = d /\ Send(wire, t, Ask("list")) /\ stray' = stray \cup Timers("down", down)
      /\ UNCHANGED <<up, clearing, open>>
  BY DEF MissionDownload
<1> HIDE DEF t
<1>3. Types /\ WorldInv /\ Less(wire) /\ OnWires(wire) /\ Sound(f) /\ Primary \in open'
  BY <1>1, <1>2, LessFacts DEF IInv, WorldInv, Less
<1>4. /\ calls \in 1 .. MaxCalls /\ calls' \in 0 .. MaxCalls /\ alone' \in BOOLEAN /\ SentInv'
      /\ alone' = TRUE => /\ up = NoUpload /\ down = NoDownload
                          /\ \A x \in Vehicles : wire[x] = <<>> /\ fc[x].n = 0
  BY <1>2, <1>3, CallFacts
<1>5. d \in Downs /\ d.target = t /\ d.expected = 0 /\ d.got = {}
  BY <1>1, <1>4 DEF Downs, TimerNames, Lengths
<1>6. Gets(wire, t, f, Ack(FALSE)) \/ Gets(wire, t, f, Count(Len(f.held)))
  BY <1>1, <1>2, <1>3, SendList
<1> HIDE DEF d, f
<1>7. ASSUME NEW r \in Messages, Gets(wire, t, f, r), r.kind \in {"ack", "count"},
             r.kind = "count" => r.n = Len(f.held)
      PROVE  IInv'
  <2>1. /\ WorldInv'
        /\ \A x \in Vehicles \ {t} : wire'[x] = wire[x] /\ fc'[x] = fc[x]
        /\ fc'[t] = f
        /\ \A k \in DOMAIN wire'[t] :
             wire'[t][k] = r \/ (k \in DOMAIN wire[t] /\ wire'[t][k] = wire[t][k])
    BY <1>1, <1>3, <1>7, GetsGood
  <2>2. DownInv'
    <3> SUFFICES ASSUME alone' = TRUE
                 PROVE  /\ up' = NoUpload /\ Others(wire', fc', t)
                        /\ Giving(f, wire'[t], d)
      BY <1>2, <1>5, <2>1 DEF DownInv
    <3>1. /\ up = NoUpload /\ \A x \in Vehicles : wire[x] = <<>> /\ fc[x].n = 0
      BY <1>4
    <3>2. \A k \in DOMAIN wire'[t] : wire'[t][k] = r
      BY <1>1, <2>1, <3>1
    <3>3. Giving(f, wire'[t], d)
      BY <1>1, <1>5, <1>7, <3>1, <3>2 DEF Giving, f
    <3> QED BY <1>2, <2>1, <3>1, <3>3 DEF Others
  <2>3. UpInv'
    BY <1>2, <1>4 DEF UpInv
  <2>4. Types'
    <3>1. stray' \subseteq {"up", "down"} \X {"first", "items"}
      BY <1>2, <1>3, TimersFacts DEF Types
    <3> QED BY <1>2, <1>3, <1>4, <1>5, <3>1 DEF Types
  <2> QED BY <1>4, <2>1, <2>2, <2>3, <2>4 DEF IInv
<1>8. Len(f.held) \in Lengths
  BY <1>3 DEF Sound
<1> QED BY <1>6, <1>7, <1>8, MessageFacts

LEMMA ClearStep ==
  ASSUME IInv, MissionClear
  PROVE  IInv'
<1> DEFINE f == fc[Primary]
           e == [f EXCEPT !.held = <<>>]
           g == Stops(e)
<1>1. /\ Call /\ clearing' = TRUE /\ Send(wire, Primary, Ask("clear"))
      /\ UNCHANGED <<up, down, stray, open>>
  BY DEF MissionClear
<1>2. /\ Types /\ WorldInv /\ OnWires(wire) /\ Primary \in open' /\ Primary \in Vehicles
  BY <1>1, LessFacts, MissionAssumption DEF IInv, WorldInv, Less
<1>3. Sound(f)
  BY <1>2 DEF WorldInv
<1>4. /\ calls' \in 0 .. MaxCalls /\ alone' \in BOOLEAN /\ SentInv'
      /\ alone' = TRUE => up = NoUpload /\ down = NoDownload
  BY <1>1, <1>2, CallFacts
<1>5. Gets(wire, Primary, f, Ack(FALSE)) \/ Gets(wire, Primary, g, Ack(TRUE))
  BY <1>1, <1>2, SendClear
<1> HIDE DEF f
<1>6. Sound(g)
  <2>1. /\ e \in [held : Seq(Items), n : Lengths, buf : Seq(Items), asks : Nat]
        /\ e.held = <<>> /\ e.n = f.n /\ e.buf = f.buf
    <3>1. f \in [held : Seq(Items), n : Lengths, buf : Seq(Items), asks : Nat] /\ <<>> \in Seq(Items)
      BY <1>3 DEF Sound
    <3> QED BY <3>1
  <2> HIDE DEF e
  <2>2. Numbered(<<>>) /\ Len(<<>>) \in Lengths
    BY DEF Numbered, Lengths
  <2>3. Sound(e)
    BY <1>3, <2>1, <2>2 DEF Sound
  <2> QED BY <2>3, StopsSound
<1> HIDE DEF g
<1>7. WorldInv'
  BY <1>2, <1>3, <1>5, <1>6, GetsGood, MessageFacts
<1>8. Types' /\ UpInv' /\ DownInv'
  BY <1>1, <1>2, <1>4 DEF Types, UpInv, DownInv
<1> QED BY <1>4, <1>7, <1>8 DEF IInv

LEMMA CallsStep ==
  ASSUME IInv, NEW n \in Lens
  PROVE  /\ MissionUpload(n) => IInv'
         /\ \A v \in Vehicles : UploadToVehicle(v, n) => IInv'
<1>1. Types /\ stray \subseteq {"up", "down"} \X {"first", "items"} /\ Primary \in Vehicles
  BY MissionAssumption DEF IInv, Types
<1>2. ASSUME MissionUpload(n)
      PROVE  IInv'
  <2>1. /\ Uploads(Primary, Primary, n, FALSE) /\ stray' = stray \cup Timers("up", up)
        /\ UNCHANGED <<down, clearing, open>>
    BY <1>2 DEF MissionUpload
  <2>2. stray' \subseteq {"up", "down"} \X {"first", "items"}
    BY <1>1, <2>1, TimersFacts
  <2> QED BY <1>1, <2>1, <2>2, UploadsStep
<1>3. ASSUME NEW v \in Vehicles, UploadToVehicle(v, n)
      PROVE  IInv'
  <2>1. Uploads(v, Resolve(v), n, TRUE) /\ UNCHANGED <<down, clearing, stray, open>>
    BY <1>3 DEF UploadToVehicle
  <2>2. stray' \subseteq {"up", "down"} \X {"first", "items"} /\ UNCHANGED <<down, clearing, open>>
    BY <1>1, <2>1
  <2> QED BY <2>1, <2>2, ResolveTarget, UploadsStep
<1> QED BY <1>2, <1>3

(* The next item makes a longer part of the mission.                         *)
LEMMA NextItem ==
  ASSUME NEW b \in Seq(Items), Numbered(b), NEW i \in Items, i.seq = Len(b)
  PROVE  /\ Append(b, i) \in Seq(Items) /\ Len(Append(b, i)) = Len(b) + 1
         /\ Numbered(Append(b, i))
         /\ \A of : b = MissionOf(of, Len(b)) /\ i = Item(of, Len(b)) =>
              Append(b, i) = MissionOf(of, Len(b) + 1)
<1> DEFINE n == Len(b)
           c == Append(b, i)
<1>1. /\ n \in Nat /\ DOMAIN b = 1 .. n /\ c \in Seq(Items) /\ Len(c) = n + 1
      /\ DOMAIN c = 1 .. n + 1 /\ (\A k \in 1 .. n : c[k] = b[k]) /\ c[n + 1] = i
      /\ i.seq = n
  BY AppendProperties, LenProperties
<1> HIDE DEF n, c
<1>5. c = [k \in 1 .. n + 1 |-> c[k]]
  BY <1>1, LenProperties
<1>2. \A k \in 1 .. n + 1 : k \in 1 .. n \/ k = n + 1
  BY <1>1
<1>3. Numbered(c)
  <2>1. \A k \in 1 .. n : c[k].seq = k - 1
    BY <1>1 DEF Numbered
  <2>2. c[n + 1].seq = (n + 1) - 1
    BY <1>1
  <2> QED BY <1>1, <1>2, <2>1, <2>2 DEF Numbered
<1>4. ASSUME NEW of, b = MissionOf(of, n), i = Item(of, n)
      PROVE  c = MissionOf(of, n + 1)
  <2>1. \A k \in 1 .. n : c[k] = Item(of, k - 1)
    BY <1>1, <1>4 DEF MissionOf
  <2>2. c[n + 1] = Item(of, (n + 1) - 1)
    BY <1>1, <1>4
  <2>3. \A k \in 1 .. n + 1 : c[k] = Item(of, k - 1)
    BY <1>2, <2>1, <2>2
  <2> QED BY <1>5, <2>3 DEF MissionOf
<1> QED BY <1>1, <1>3, <1>4 DEF n, c

(* The packet that arrives first from vehicle v.                             *)
LEMMA HeadFacts ==
  ASSUME IInv, NEW v \in Vehicles, wire[v] # <<>>
  PROVE  LET m == Head(wire[v])
         IN  /\ Less(Rest(v)) /\ m \in Messages
             /\ alone = TRUE /\ up # NoUpload =>
                  /\ v = up.target
                  /\ m.kind = "ack" /\ m.ok = TRUE => fc[v].held = MissionOf(<<up.for, up.id>>, up.len)
             /\ alone = TRUE /\ down # NoDownload =>
                  /\ v = down.target
                  /\ m.kind = "count" => m.n = Len(fc[v].held)
                  /\ m.kind = "item" =>
                       down.expected # 0 /\ \E i \in DOMAIN fc[v].held : m.item = fc[v].held[i]
<1> DEFINE m == Head(wire[v])
<1>1. Types /\ WorldInv /\ UpInv /\ DownInv
  BY DEF IInv
<1>2. Less(Rest(v)) /\ m \in Messages
  BY <1>1, LessFacts
<1>3. PICK k \in DOMAIN wire[v] : m = wire[v][k]
  BY <1>1, LessFacts
<1> HIDE DEF m
<1>4. ASSUME alone = TRUE, up # NoUpload
      PROVE  /\ v = up.target
             /\ m.kind = "ack" /\ m.ok = TRUE => fc[v].held = MissionOf(<<up.for, up.id>>, up.len)
  <2>1. Others(wire, fc, up.target) /\ Taking(fc[up.target], wire[up.target], <<up.for, up.id>>, up.len)
    BY <1>1, <1>4 DEF UpInv
  <2>2. v = up.target
    BY <2>1 DEF Others
  <2> QED BY <1>3, <2>1, <2>2 DEF Taking
<1>5. ASSUME alone = TRUE, down # NoDownload
      PROVE  /\ v = down.target
             /\ m.kind = "count" => m.n = Len(fc[v].held)
             /\ m.kind = "item" =>
                  down.expected # 0 /\ \E i \in DOMAIN fc[v].held : m.item = fc[v].held[i]
  <2>1. Others(wire, fc, down.target) /\ Giving(fc[down.target], wire[down.target], down)
    BY <1>1, <1>5 DEF DownInv
  <2>2. v = down.target
    BY <2>1 DEF Others
  <2> QED BY <1>3, <2>1, <2>2 DEF Giving
<1> QED BY <1>2, <1>4, <1>5 DEF m

(* A packet is taken, and nothing is written.                                *)
LEMMA TakenStep ==
  ASSUME IInv, NEW v \in Vehicles, Less(Rest(v)), wire' = Rest(v),
         UNCHANGED <<fc, writes, calls, open, alone>>,
         Softer(up, up', NoUpload), Softer(down, down', NoDownload), clearing' \in BOOLEAN,
         stray' \subseteq {"up", "down"} \X {"first", "items"}, SentInv'
  PROVE  IInv'
<1>1. Types /\ WorldInv /\ UpInv /\ DownInv /\ Primary \in open'
  BY DEF IInv, WorldInv
<1> QED BY <1>1, QuietStep

LEMMA OnRequestStep ==
  ASSUME IInv, NEW v \in Vehicles, wire[v] # <<>>, NEW m, m = Head(wire[v]), m.kind = "request",
         OnRequest(v, m), UNCHANGED <<writes, calls, open, alone>>
  PROVE  IInv'
<1>1. /\ Types /\ WorldInv /\ UpInv /\ DownInv /\ Less(Rest(v)) /\ m.seq \in Nat /\ Primary \in open'
      /\ OnWires(Rest(v))
  BY HeadFacts, MessageKinds DEF IInv, WorldInv, Less
<1>2. sent' = {} /\ UNCHANGED <<down, clearing, stray>> /\ SentInv'
  BY DEF OnRequest, SentInv
<1>3. /\ Softer(down, down', NoDownload) /\ clearing' \in BOOLEAN
      /\ stray' \subseteq {"up", "down"} \X {"first", "items"}
  BY <1>1, <1>2 DEF Softer, Types
<1>4. CASE ~(Hears(v, up) /\ m.seq < up.len)
  <2>1. wire' = Rest(v) /\ UNCHANGED <<up, fc>>
    BY <1>4 DEF OnRequest
  <2>2. Softer(up, up', NoUpload)
    BY <2>1 DEF Softer
  <2> QED BY <1>1, <1>2, <1>3, <2>1, <2>2, TakenStep
<1>5. CASE Hears(v, up) /\ m.seq < up.len
  <2> DEFINE t == up.target
             f == fc[t]
             of == <<up.for, up.id>>
             i == Item(of, m.seq)
             b == Append(f.buf, i)
             w == Rest(v)
             u == [up EXCEPT !.seq = m.seq, !.timer = "items"]
  <2>1. up # NoUpload /\ up' = u /\ Send(w, t, Carry(i))
    BY <1>1, <1>5, HeadFacts, HearsFacts DEF OnRequest
  <2>2. t \in Vehicles /\ up \in Ups /\ up.len \in Lens /\ (up.target # up.for => up.target = Primary)
    BY <1>1, <2>1, UpFacts
  <2>3. i \in Items /\ i.seq = m.seq
    <3>1. up.for \in Vehicles /\ up.id \in Nat
      BY <1>1, <2>1, UpFacts
    <3> QED BY <1>1, <3>1 DEF Item, Items
  <2>4. /\ u \in Ups /\ u.seq = m.seq /\ u.len = up.len /\ u.target = t /\ u.for = up.for /\ u.id = up.id
    <3>1. "items" \in TimerNames
      BY DEF TimerNames
    <3> QED BY <1>1, <2>2, <3>1 DEF Ups
  <2>5. Sound(f)
    BY <1>1, <2>2 DEF WorldInv
  <2>6. alone = TRUE => down = NoDownload /\ Others(wire, fc, t) /\ Taking(f, wire[t], of, up.len)
    BY <1>1, <2>1 DEF UpInv
  <2>7. \/ Gets(w, t, f, Ack(FALSE))
        \/ /\ f.n > 0 /\ i.seq = Len(f.buf)
           /\ \/ Gets(w, t, Stops(f), Ack(FALSE))
              \/ Len(b) = f.n /\ Gets(w, t, Stops([f EXCEPT !.held = b]), Ack(TRUE))
              \/ Len(b) # f.n /\ Gets(w, t, [f EXCEPT !.buf = b, !.asks = 0], Request(Len(b)))
    BY <1>1, <2>1, <2>2, <2>3, SendItem
  <2> HIDE DEF u, w, t, f, of
  <2>8. ASSUME NEW h, Sound(h), NEW r \in Messages, Gets(w, t, h, r),
               f.n = 0 => h.n = 0 /\ h.held = f.held,
               alone = TRUE =>
                 /\ h.n # 0 => h.n = up.len /\ h.buf = MissionOf(of, Len(h.buf))
                 /\ r.kind = "ack" /\ r.ok = TRUE => h.n = 0 /\ h.held = MissionOf(of, up.len)
        PROVE  IInv'
    <3>1. WorldInv'
      BY <1>1, <2>2, <2>8, GetsGood DEF w
    <3>2. UpInv'
      <4> SUFFICES ASSUME alone = TRUE
                   PROVE  /\ down' = NoDownload /\ Others(wire', fc', t)
                          /\ Taking(fc'[t], wire'[t], of, up.len)
        BY <2>1, <2>4 DEF UpInv, of
      <4>1. Others(wire, fc, t) /\ Taking(fc[t], wire[t], of, up.len) /\ down' = NoDownload
        BY <1>2, <2>6 DEF f
      <4>2. Less(w)
        BY <1>1 DEF w
      <4>3. fc[t].n = 0 => h.n = 0 /\ h.held = fc[t].held
        BY <2>8 DEF f
      <4> QED BY <1>1, <2>2, <2>8, <4>1, <4>2, <4>3, UpSend
    <3>3. DownInv'
      BY <1>2, <2>6 DEF DownInv
    <3>4. Types'
      BY <1>1, <1>2, <1>5, <2>1, <2>2, <2>4 DEF Types, t
    <3> QED BY <1>2, <3>1, <3>2, <3>3, <3>4 DEF IInv
  <2>9. alone = TRUE /\ f.n # 0 => f.n = up.len /\ f.buf = MissionOf(of, Len(f.buf))
    BY <2>6 DEF Taking
  <2>10. CASE Gets(w, t, f, Ack(FALSE))
    BY <2>5, <2>8, <2>9, <2>10, MessageFacts
  <2>11. CASE f.n > 0 /\ Gets(w, t, Stops(f), Ack(FALSE))
    BY <2>5, <2>8, <2>11, StopsSound, MessageFacts, ZenonT(30)
  <2>12. ASSUME f.n > 0, i.seq = Len(f.buf)
         PROVE  /\ b \in Seq(Items) /\ Len(b) = Len(f.buf) + 1 /\ Numbered(b) /\ Len(f.buf) < f.n
                /\ Len(f.buf) \in Nat /\ f.n \in Nat /\ f.n \in Lengths
                /\ alone = TRUE => b = MissionOf(of, Len(b)) /\ f.n = up.len
    <3>1. /\ f.buf \in Seq(Items) /\ Numbered(f.buf) /\ Len(f.buf) \in Nat /\ f.n \in Nat /\ f.n \in Lengths
          /\ Len(f.buf) < f.n
      BY <2>5, <2>12, SoundFacts DEF Sound
    <3>2. /\ b \in Seq(Items) /\ Len(b) = Len(f.buf) + 1 /\ Numbered(b)
          /\ \A o : f.buf = MissionOf(o, Len(f.buf)) /\ i = Item(o, Len(f.buf)) => b = MissionOf(o, Len(f.buf) + 1)
      BY <2>3, <2>12, <3>1, NextItem
    <3>3. i = Item(of, Len(f.buf))
      BY <2>3, <2>12
    <3> QED BY <2>9, <2>12, <3>1, <3>2, <3>3
  <2> HIDE DEF b, i
  <2>13. CASE /\ f.n > 0 /\ i.seq = Len(f.buf) /\ Len(b) = f.n
              /\ Gets(w, t, Stops([f EXCEPT !.held = b]), Ack(TRUE))
    <3> DEFINE e == [f EXCEPT !.held = b]
               h == Stops(e)
    <3>1. /\ b \in Seq(Items) /\ Numbered(b) /\ Len(b) \in Lengths
          /\ alone = TRUE => b = MissionOf(of, up.len)
      BY <2>12, <2>13
    <3>2. /\ e \in [held : Seq(Items), n : Lengths, buf : Seq(Items), asks : Nat]
          /\ e.held = b /\ e.n = f.n /\ e.buf = f.buf
      <4>1. f \in [held : Seq(Items), n : Lengths, buf : Seq(Items), asks : Nat]
        BY <2>5 DEF Sound
      <4> QED BY <3>1, <4>1
    <3> HIDE DEF e
    <3>3. Sound(e)
      BY <2>5, <3>1, <3>2 DEF Sound
    <3>4. Sound(h) /\ h.n = 0 /\ h.held = b
      BY <3>2, <3>3, StopsSound
    <3>5. Gets(w, t, h, Ack(TRUE))
      BY <2>13 DEF e
    <3> HIDE DEF h
    <3>6. f.n # 0
      BY <2>5, <2>13, SoundFacts
    <3>7. Ack(TRUE) \in Messages
      BY MessageFacts
    <3> QED BY <2>8, <3>1, <3>4, <3>5, <3>6, <3>7
  <2>14. CASE /\ f.n > 0 /\ i.seq = Len(f.buf) /\ Len(b) # f.n
              /\ Gets(w, t, [f EXCEPT !.buf = b, !.asks = 0], Request(Len(b)))
    <3> DEFINE h == [f EXCEPT !.buf = b, !.asks = 0]
    <3>1. /\ b \in Seq(Items) /\ Numbered(b) /\ Len(b) < f.n /\ Len(b) \in Nat
          /\ alone = TRUE => b = MissionOf(of, Len(b)) /\ f.n = up.len
      <4>1. /\ b \in Seq(Items) /\ Numbered(b) /\ Len(b) = Len(f.buf) + 1 /\ Len(f.buf) < f.n
            /\ Len(f.buf) \in Nat /\ f.n \in Nat /\ Len(b) # f.n
            /\ alone = TRUE => b = MissionOf(of, Len(b)) /\ f.n = up.len
        BY <2>12, <2>14
      <4>2. Len(b) < f.n /\ Len(b) \in Nat
        BY <4>1
      <4> QED BY <4>1, <4>2
    <3>2. /\ h \in [held : Seq(Items), n : Lengths, buf : Seq(Items), asks : Nat]
          /\ h.held = f.held /\ h.n = f.n /\ h.buf = b
      <4>1. f \in [held : Seq(Items), n : Lengths, buf : Seq(Items), asks : Nat]
        BY <2>5 DEF Sound
      <4> QED BY <3>1, <4>1
    <3>3. Gets(w, t, h, Request(Len(b)))
      BY <2>14
    <3> HIDE DEF h
    <3>4. Sound(h)
      BY <2>5, <2>14, <3>1, <3>2 DEF Sound
    <3>5. f.n # 0 /\ Request(Len(b)) \in Messages /\ Request(Len(b)).kind = "request"
      BY <2>14, <3>1, MessageFacts
    <3> QED BY <2>8, <3>1, <3>2, <3>3, <3>4, <3>5
  <2> QED BY <2>7, <2>10, <2>11, <2>13, <2>14
<1> QED BY <1>4, <1>5

LEMMA OnAckStep ==
  ASSUME IInv, NEW v \in Vehicles, wire[v] # <<>>, NEW m, m = Head(wire[v]), m.kind = "ack",
         OnAck(v, m), UNCHANGED <<writes, calls, open, alone>>
  PROVE  IInv'
<1>1. Types /\ Less(Rest(v)) /\ m.ok \in BOOLEAN
  BY HeadFacts, MessageKinds DEF IInv
<1>2. wire' = Rest(v) /\ UNCHANGED <<stray, fc>>
  BY DEF OnAck
<1>3. /\ Softer(up, up', NoUpload) /\ Softer(down, down', NoDownload) /\ clearing' \in BOOLEAN
      /\ stray' \subseteq {"up", "down"} \X {"first", "items"}
  <2>1. up' = up \/ up' = NoUpload
    BY DEF OnAck, Settle
  <2>2. down' = down \/ down' = NoDownload
    BY DEF OnAck
  <2>3. clearing' = clearing \/ clearing' = FALSE
    BY DEF OnAck
  <2> QED BY <1>1, <1>2, <2>1, <2>2, <2>3 DEF Softer, Types
<1>4. ASSUME NEW e \in sent'
      PROVE  e.kind \in {"failed", "cleared"} \/ (up # NoUpload /\ e = UploadEnd(m.ok, v))
  <2>1. \/ e = [kind |-> "cleared"] \/ e = [kind |-> "failed"]
        \/ up # NoUpload /\ e = UploadEnd(m.ok, v)
    BY <1>4 DEF OnAck, Settle
  <2> QED BY <2>1
<1>5. ASSUME NEW e \in sent', alone = TRUE, e.kind \in {"uploaded", "shown"}
      PROVE  fc'[e.target].held = e.mission
  <2>1. up # NoUpload /\ e = UploadEnd(m.ok, v)
    BY <1>4, <1>5
  <2>2. m.ok = TRUE
    BY <1>1, <1>5, <2>1, FailedEnd
  <2>3. v = up.target /\ fc[v].held = MissionOf(<<up.for, up.id>>, up.len)
    BY <1>5, <2>1, <2>2, HeadFacts
  <2>4. e.target = up.target /\ e.mission = MissionOf(<<up.for, up.id>>, up.len)
    BY <2>1 DEF UploadEnd
  <2> QED BY <1>2, <2>3, <2>4
<1>6. SentInv'
  BY <1>5 DEF SentInv
<1> QED BY <1>1, <1>2, <1>3, <1>6, TakenStep

(* The download goes on as d, and packet r comes from its vehicle at most.   *)
LEMMA DownloadGoesOn ==
  ASSUME IInv, NEW v \in Vehicles, Less(Rest(v)), down # NoDownload,
         NEW d \in Downs, d.target = down.target, down' = d,
         \A g, h \in d.got : g.seq = h.seq => g = h,
         NEW q \in Nat, Send(Rest(v), down.target, Request(q)),
         sent' = {}, UNCHANGED <<up, clearing, stray, writes, calls, open, alone>>,
         alone = TRUE =>
           /\ d.expected # 0 /\ d.expected = Len(fc[down.target].held)
           /\ \A g \in d.got : \E i \in DOMAIN fc[down.target].held : g = fc[down.target].held[i]
  PROVE  IInv'
<1> DEFINE t == down.target
           f == fc[t]
           w == Rest(v)
<1>1. Types /\ WorldInv /\ Primary \in open' /\ SentInv' /\ Less(w) /\ OnWires(w)
  BY DEF IInv, WorldInv, Less, SentInv
<1>2. t \in Vehicles
  BY <1>1, DownFacts
<1>3. Sound(f)
  BY <1>1, <1>2 DEF WorldInv
<1>4. alone = TRUE => up = NoUpload /\ Others(wire, fc, t) /\ Giving(f, wire[t], down)
  BY DEF IInv, DownInv
<1>5. \/ Gets(w, t, f, Ack(FALSE))
      \/ q < Len(f.held) /\ Gets(w, t, f, Carry(f.held[q + 1]))
  BY <1>1, <1>2, SendRequest
<1> HIDE DEF t, f, w
<1>6. ASSUME NEW r \in Messages, Gets(w, t, f, r), r.kind \in {"ack", "item"},
             r.kind = "item" => \E i \in DOMAIN f.held : r.item = f.held[i]
      PROVE  IInv'
  <2>1. WorldInv'
    BY <1>1, <1>2, <1>3, <1>6, GetsGood
  <2>2. DownInv'
    <3> SUFFICES ASSUME alone = TRUE
                 PROVE  /\ up = NoUpload /\ Others(wire', fc', t) /\ Giving(fc'[t], wire'[t], d)
      BY DEF DownInv, t
    <3>1. up = NoUpload /\ Others(wire, fc, t) /\ Giving(fc[t], wire[t], down)
      BY <1>4 DEF f
    <3>2. /\ d.expected # 0 /\ d.expected = Len(fc[t].held)
          /\ \A g \in d.got : \E i \in DOMAIN fc[t].held : g = fc[t].held[i]
      BY DEF t
    <3>3. /\ Gets(w, t, fc[t], r) /\ r.kind # "count"
          /\ r.kind = "item" => \E i \in DOMAIN fc[t].held : r.item = fc[t].held[i]
      BY <1>6 DEF f
    <3> QED BY <1>1, <1>2, <1>6, <3>1, <3>2, <3>3, DownSend
  <2>3. UpInv'
    BY <1>4 DEF UpInv
  <2>4. Types'
    BY <1>1 DEF Types
  <2> QED BY <1>1, <2>1, <2>2, <2>3, <2>4 DEF IInv
<1>7. CASE Gets(w, t, f, Ack(FALSE))
  BY <1>6, <1>7, MessageFacts
<1>8. CASE q < Len(f.held) /\ Gets(w, t, f, Carry(f.held[q + 1]))
  <2>1. f.held \in Seq(Items) /\ Len(f.held) \in Nat /\ DOMAIN f.held = 1 .. Len(f.held)
    BY <1>3, SoundFacts
  <2>2. q + 1 \in DOMAIN f.held
    BY <1>8, <2>1
  <2>3. f.held[q + 1] \in Items
    BY <2>1, <2>2, ElementOfSeq
  <2> QED BY <1>6, <1>8, <2>2, <2>3, MessageFacts
<1> QED BY <1>5, <1>7, <1>8

(* The download ends, showing the items it has.                              *)
LEMMA DownloadShown ==
  ASSUME IInv, NEW v \in Vehicles, Less(Rest(v)), down # NoDownload, down' = NoDownload,
         NEW got, sent' = {Shown(got)}, wire' = Rest(v),
         stray' \subseteq {"up", "down"} \X {"first", "items"},
         UNCHANGED <<up, clearing, fc, writes, calls, open, alone>>,
         alone = TRUE =>
           /\ Cardinality(got) >= Len(fc[down.target].held)
           /\ \A g \in got : \E i \in DOMAIN fc[down.target].held : g = fc[down.target].held[i]
  PROVE  IInv'
<1>1. Types /\ WorldInv
  BY DEF IInv
<1>2. down.target \in Vehicles
  BY <1>1, DownFacts
<1>3. fc[down.target].held \in Seq(Items) /\ Numbered(fc[down.target].held)
  BY <1>1, <1>2, SoundFacts DEF WorldInv, Sound
<1>4. alone = TRUE => Sorted(got) = fc[down.target].held
  BY <1>3, SortedGood
<1>5. Shown(got).target = down.target /\ Shown(got).mission = Sorted(got)
  BY DEF Shown
<1>6. SentInv'
  BY <1>4, <1>5 DEF SentInv
<1>7. Softer(up, up', NoUpload) /\ Softer(down, down', NoDownload) /\ clearing' \in BOOLEAN
  BY <1>1 DEF Softer, Types
<1> QED BY <1>6, <1>7, TakenStep

LEMMA OnCountStep ==
  ASSUME IInv, NEW v \in Vehicles, wire[v] # <<>>, NEW m, m = Head(wire[v]), m.kind = "count",
         OnCount(v, m), UNCHANGED <<writes, calls, open, alone>>
  PROVE  IInv'
<1>1. Types /\ Less(Rest(v)) /\ m.n \in Lengths
  BY HeadFacts, MessageKinds DEF IInv
<1>2. UNCHANGED <<up, clearing>>
  BY DEF OnCount
<1>3. CASE ~Hears(v, down)
  <2>1. wire' = Rest(v) /\ sent' = {} /\ UNCHANGED <<down, stray, fc>>
    BY <1>3 DEF OnCount
  <2>2. Softer(up, up', NoUpload) /\ Softer(down, down', NoDownload) /\ clearing' \in BOOLEAN
        /\ stray' \subseteq {"up", "down"} \X {"first", "items"} /\ SentInv'
    BY <1>1, <1>2, <2>1 DEF Softer, Types, SentInv
  <2> QED BY <1>1, <2>1, <2>2, TakenStep
<1>4. CASE Hears(v, down) /\ m.n = 0
  <2>1. /\ down' = NoDownload /\ sent' = {Shown({})} /\ stray' = stray \cup Timers("down", down)
        /\ wire' = Rest(v) /\ UNCHANGED fc
    BY <1>4 DEF OnCount
  <2>2. down # NoDownload /\ stray' \subseteq {"up", "down"} \X {"first", "items"}
    BY <1>1, <1>4, <2>1, HearsFacts, TimersFacts DEF Types
  <2>3. ASSUME alone = TRUE
        PROVE  Cardinality({}) >= Len(fc[down.target].held)
    <3>1. Len(fc[down.target].held) = 0
      BY <1>4, <2>2, <2>3, HeadFacts
    <3> QED BY <3>1, FS_EmptySet
  <2> QED BY <1>1, <1>2, <2>1, <2>2, <2>3, DownloadShown
<1>5. CASE Hears(v, down) /\ m.n # 0
  <2> DEFINE d == [down EXCEPT !.expected = m.n]
  <2>1. /\ down # NoDownload /\ down' = d /\ sent' = {} /\ Send(Rest(v), down.target, Request(0))
        /\ UNCHANGED stray
    BY <1>1, <1>5, HearsFacts DEF OnCount
  <2>2. /\ d \in Downs /\ d.target = down.target /\ d.got = down.got /\ d.expected = m.n
        /\ \A g, h \in d.got : g.seq = h.seq => g = h
    <3>1. down \in Downs /\ \A g, h \in down.got : g.seq = h.seq => g = h
      BY <1>1, <2>1, DownFacts
    <3>2. d \in Downs /\ d.target = down.target /\ d.got = down.got /\ d.expected = m.n
      BY <1>1, <3>1 DEF Downs
    <3> QED BY <3>1, <3>2
  <2> HIDE DEF d
  <2>3. ASSUME alone = TRUE
        PROVE  /\ d.expected # 0 /\ d.expected = Len(fc[down.target].held)
               /\ \A g \in d.got : \E i \in DOMAIN fc[down.target].held : g = fc[down.target].held[i]
    <3>1. m.n = Len(fc[down.target].held)
      BY <2>1, <2>3, HeadFacts
    <3>2. Giving(fc[down.target], wire[down.target], down)
      BY <2>1, <2>3 DEF IInv, DownInv
    <3> QED BY <1>5, <2>2, <3>1, <3>2 DEF Giving
  <2> QED BY <1>1, <1>2, <2>1, <2>2, <2>3, DownloadGoesOn
<1> QED BY <1>3, <1>4, <1>5

LEMMA OnItemStep ==
  ASSUME IInv, NEW v \in Vehicles, wire[v] # <<>>, NEW m, m = Head(wire[v]), m.kind = "item",
         OnItem(v, m), UNCHANGED <<writes, calls, open, alone>>
  PROVE  IInv'
<1> DEFINE got == {g \in down.got : g.seq # m.item.seq} \cup {m.item}
<1>1. Types /\ Less(Rest(v)) /\ m.item \in Items /\ m.item.seq \in Nat
  BY HeadFacts, MessageKinds DEF IInv, Items
<1>2. UNCHANGED <<up, clearing, stray>>
  BY DEF OnItem
<1>3. CASE ~Hears(v, down)
  <2>1. wire' = Rest(v) /\ sent' = {} /\ UNCHANGED <<down, fc>>
    BY <1>3 DEF OnItem
  <2>2. Softer(up, up', NoUpload) /\ Softer(down, down', NoDownload) /\ clearing' \in BOOLEAN
        /\ stray' \subseteq {"up", "down"} \X {"first", "items"} /\ SentInv'
    BY <1>1, <1>2, <2>1 DEF Softer, Types, SentInv
  <2> QED BY <1>1, <2>1, <2>2, TakenStep
<1>4. CASE Hears(v, down)
  <2>1. /\ down # NoDownload
        /\ \/ /\ Cardinality(got) >= down.expected
              /\ down' = NoDownload /\ sent' = {Shown(got)} /\ wire' = Rest(v) /\ UNCHANGED fc
           \/ /\ down' = [down EXCEPT !.got = got, !.timer = "items"] /\ sent' = {}
              /\ Send(Rest(v), down.target, Request(m.item.seq + 1))
    BY <1>1, <1>4, HearsFacts DEF OnItem
  <2>2. down \in Downs /\ \A g, h \in down.got : g.seq = h.seq => g = h
    BY <1>1, <2>1, DownFacts
  <2>3. /\ got \in SUBSET Items
        /\ \A g, h \in got : g.seq = h.seq => g = h
    BY <1>1, <2>2 DEF Downs
  <2>4. ASSUME alone = TRUE
        PROVE  /\ down.expected # 0 /\ down.expected = Len(fc[down.target].held)
               /\ \A g \in got : \E i \in DOMAIN fc[down.target].held : g = fc[down.target].held[i]
    <3>1. /\ v = down.target /\ down.expected # 0
          /\ \E i \in DOMAIN fc[down.target].held : m.item = fc[down.target].held[i]
      <4>1. /\ v = down.target /\ down.expected # 0
            /\ \E i \in DOMAIN fc[v].held : m.item = fc[v].held[i]
        BY <2>1, <2>4, HeadFacts
      <4> QED BY <4>1
    <3>2. Giving(fc[down.target], wire[down.target], down)
      BY <2>1, <2>4 DEF IInv, DownInv
    <3> QED BY <3>1, <3>2 DEF Giving
  <2> HIDE DEF got
  <2>5. CASE /\ Cardinality(got) >= down.expected
             /\ down' = NoDownload /\ sent' = {Shown(got)} /\ wire' = Rest(v) /\ UNCHANGED fc
    <3>1. stray' \subseteq {"up", "down"} \X {"first", "items"}
      BY <1>1, <1>2 DEF Types
    <3> QED BY <1>1, <1>2, <2>1, <2>4, <2>5, <3>1, DownloadShown
  <2>6. CASE /\ down' = [down EXCEPT !.got = got, !.timer = "items"] /\ sent' = {}
             /\ Send(Rest(v), down.target, Request(m.item.seq + 1))
    <3> DEFINE d == [down EXCEPT !.got = got, !.timer = "items"]
    <3>1. "items" \in TimerNames
      BY DEF TimerNames
    <3>2. d \in Downs /\ d.target = down.target /\ d.got = got /\ d.expected = down.expected
      BY <2>2, <2>3, <3>1 DEF Downs
    <3>3. down' = d
      BY <2>6
    <3> HIDE DEF d
    <3>4. m.item.seq + 1 \in Nat
      BY <1>1
    <3> QED BY <1>1, <1>2, <2>1, <2>3, <2>4, <2>6, <3>2, <3>3, <3>4, DownloadGoesOn
  <2> QED BY <2>1, <2>5, <2>6
<1> QED BY <1>3, <1>4

LEMMA ReceiveStep ==
  ASSUME IInv, NEW v \in Vehicles, Receive(v)
  PROVE  IInv'
<1> DEFINE m == Head(wire[v])
<1>1. /\ wire[v] # <<>> /\ UNCHANGED <<writes, calls, open, alone>>
      /\ \/ m.kind = "request" /\ OnRequest(v, m)
         \/ m.kind = "ack" /\ OnAck(v, m)
         \/ m.kind = "count" /\ OnCount(v, m)
         \/ m.kind = "item" /\ OnItem(v, m)
  BY DEF Receive
<1>2. CASE m.kind = "request" /\ OnRequest(v, m)
  BY <1>1, <1>2, OnRequestStep
<1>3. CASE m.kind = "ack" /\ OnAck(v, m)
  BY <1>1, <1>3, OnAckStep
<1>4. CASE m.kind = "count" /\ OnCount(v, m)
  BY <1>1, <1>4, OnCountStep
<1>5. CASE m.kind = "item" /\ OnItem(v, m)
  BY <1>1, <1>5, OnItemStep
<1> QED BY <1>1, <1>2, <1>3, <1>4, <1>5

-----------------------------------------------------------------------------
(* The invariant holds.                                                      *)

LEMMA InitGood ==
  ASSUME Init
  PROVE  IInv
<1>1. PICK own \in [Vehicles -> Lengths] :
        fc = [v \in Vehicles |-> [held |-> MissionOf(<<v, 0>>, own[v]), n |-> 0, buf |-> <<>>, asks |-> 0]]
  BY DEF Init, Lengths
<1>2. /\ up = NoUpload /\ down = NoDownload /\ clearing = FALSE /\ stray = {} /\ sent = {}
      /\ calls = MaxCalls /\ alone = TRUE /\ open = Vehicles
      /\ wire = [v \in Vehicles |-> <<>>]
  BY DEF Init
<1>3. ASSUME NEW v \in Vehicles
      PROVE  Sound(fc[v])
  <2> DEFINE n == own[v]
             s == MissionOf(<<v, 0>>, n)
  <2>1. n \in Lengths /\ n \in Nat
    <3>1. Lengths \subseteq Nat
      BY MissionAssumption DEF Lengths
    <3> QED BY <1>1, <1>3, <3>1
  <2>2. \A i \in 1 .. n : Item(<<v, 0>>, i - 1) \in Items /\ Item(<<v, 0>>, i - 1).seq = i - 1
    BY <2>1 DEF Item, Items
  <2>3. s \in [1 .. n -> Items] /\ \A i \in 1 .. n : s[i] = Item(<<v, 0>>, i - 1)
    BY <2>2 DEF MissionOf
  <2>4. fc[v] = [held |-> s, n |-> 0, buf |-> <<>>, asks |-> 0]
    BY <1>1
  <2> HIDE DEF n, s
  <2>5. s \in Seq(Items) /\ Len(s) = n /\ DOMAIN s = 1 .. n
    BY <2>1, <2>3, LenProperties
  <2>6. Numbered(s) /\ Numbered(<<>>)
    BY <2>2, <2>3, <2>5, SMTT(30) DEF Numbered
  <2>7. 0 \in Lengths /\ <<>> \in Seq(Items)
    BY DEF Lengths
  <2> QED BY <2>1, <2>4, <2>5, <2>6, <2>7 DEF Sound
<1>4. WorldInv
  <2>1. DOMAIN fc = Vehicles /\ fc = [v \in Vehicles |-> fc[v]]
    BY <1>1
  <2>2. wire \in [Vehicles -> Seq(Messages)] /\ \A v \in Vehicles : Len(wire[v]) <= MaxWire
    BY <1>2, MissionAssumption
  <2> QED BY <1>2, <1>3, <2>1, <2>2, MissionAssumption DEF WorldInv
<1>5. Types
  <2>1. calls \in 0 .. MaxCalls
    BY <1>2, MissionAssumption
  <2> QED BY <1>2, <2>1 DEF Types
<1>6. UpInv /\ DownInv /\ SentInv
  BY <1>2 DEF UpInv, DownInv, SentInv
<1> QED BY <1>4, <1>5, <1>6 DEF IInv

LEMMA NextGood ==
  ASSUME IInv, [Next]_vars
  PROVE  IInv'
<1>1. CASE UNCHANGED vars
  BY <1>1 DEF vars, app, world, IInv, Types, WorldInv, UpInv, DownInv, SentInv
<1>2. ASSUME NEW v \in Vehicles, Receive(v) \/ AskAgain(v) \/ LinkChanges(v) \/ MissionDownload(v)
      PROVE  IInv'
  BY <1>2, ReceiveStep, AskAgainStep, LinkStep, DownloadStep
<1>3. ASSUME NEW n \in Lens, MissionUpload(n) \/ \E v \in Vehicles : UploadToVehicle(v, n)
      PROVE  IInv'
  BY <1>3, CallsStep
<1>4. CASE MissionClear
  BY <1>4, ClearStep
<1>5. CASE Settles
  BY <1>5, TimerStep, WrittenStep, WriteFailsStep DEF Settles
<1> QED BY <1>1, <1>2, <1>3, <1>4, <1>5 DEF Next

(* The types, the links and vehicles, the upload and the download that began *)
(* alone, and what is reported of them: they hold in every state of the      *)
(* mission protocol.                                                         *)
THEOREM MissionInvariance == Spec => []IInv
<1>1. Init => IInv
  BY InitGood
<1>2. IInv /\ [Next]_vars => IInv'
  BY NextGood
<1> QED BY <1>1, <1>2, PTL DEF Spec

(* The two states, their timers and the vehicles have the types of           *)
(* ipc-handlers.ts: what has been asked for is below the mission's length, no*)
(* number is twice among the items of a download, and a vehicle never holds  *)
(* more of an upload than it was told to expect.                             *)
THEOREM MissionTypeCorrect == Spec => []TypeOK
<1>1. IInv => TypeOK
  <2> SUFFICES ASSUME IInv PROVE TypeOK
    OBVIOUS
  <2>1. Types /\ WorldInv
    BY DEF IInv
  <2>2. up = NoUpload \/
          /\ up.id \in 1 .. MaxCalls /\ up.target \in Vehicles /\ up.len \in Lens
          /\ up.seq \in 0 .. up.len - 1 /\ up.timer \in {"none", "first", "items"}
          /\ up.target # up.for => up.target = Primary
    <3> SUFFICES ASSUME up # NoUpload
                 PROVE  /\ up.id \in 1 .. MaxCalls /\ up.target \in Vehicles /\ up.len \in Lens
                        /\ up.seq \in 0 .. up.len - 1 /\ up.timer \in {"none", "first", "items"}
                        /\ up.target # up.for => up.target = Primary
      OBVIOUS
    <3>1. up \in Ups /\ up.seq < up.len /\ (up.target # up.for => up.target = Primary) /\ up.len \in Nat
      BY <2>1, UpFacts
    <3>2. up.seq \in 0 .. up.len - 1
      BY <3>1 DEF Ups
    <3> QED BY <3>1, <3>2 DEF Ups, TimerNames
  <2>3. down = NoDownload \/
          /\ down.target \in Vehicles /\ down.timer \in {"none", "first", "items"}
          /\ down.expected \in Lens \cup {0}
          /\ \A g, h \in down.got : g.seq = h.seq => g = h
    BY <2>1, DownFacts DEF Lengths, TimerNames
  <2>4. ASSUME NEW v \in Vehicles
        PROVE  Len(wire[v]) <= MaxWire /\ Len(fc[v].buf) <= fc[v].n
    <3>1. Sound(fc[v]) /\ Len(wire[v]) <= MaxWire
      BY <2>1 DEF WorldInv
    <3>2. Len(fc[v].buf) \in Nat /\ fc[v].n \in Nat
      BY <3>1, SoundFacts
    <3>3. CASE fc[v].n = 0
      <4>1. Len(<<>>) = 0
        OBVIOUS
      <4> QED BY <3>1, <3>3, <4>1 DEF Sound
    <3>4. CASE fc[v].n # 0
      BY <3>1, <3>2, <3>4 DEF Sound
    <3> QED BY <3>1, <3>3, <3>4
  <2> QED BY <2>1, <2>2, <2>3, <2>4 DEF TypeOK, Types, WorldInv
<1> QED BY <1>1, MissionInvariance, PTL

(* An upload that began when nothing was under way, and during which nothing *)
(* else was called, is on its vehicle when it is reported complete: item for *)
(* item, whatever was lost, asked again or overtaken by a timer.             *)
THEOREM UploadAsTold == Spec => []UploadTold
<1>1. IInv => UploadTold
  BY DEF IInv, SentInv, UploadTold, Reports, Types
<1> QED BY <1>1, MissionInvariance, PTL

(* A download that began in the same way shows the mission its vehicle holds,*)
(* in order and whole: counting the items that arrived is enough.            *)
THEOREM DownloadAsTold == Spec => []DownloadTold
<1>1. IInv => DownloadTold
  BY DEF IInv, SentInv, DownloadTold, Reports, Types
<1> QED BY <1>1, MissionInvariance, PTL
=============================================================================
