-------------------------- MODULE MspTransportProofs --------------------------
(***************************************************************************)
(* Proofs about MspTransport, for every set of callers and names, every    *)
(* length of a poll, and every number of calls, boards and replies on the  *)
(* wire.  What a cleanup breaks that does not reach a request in flight is *)
(* left to `torn'; the other parts of the invariant hold whatever it does. *)
(***************************************************************************)
EXTENDS MspTransport, FiniteSetTheorems, SequenceTheorems, TLAPS

-----------------------------------------------------------------------------
(* The inductive invariant.                                                  *)

Args == [name : Names \cup {"none"}, board : 0 .. MaxBoards]

Ops == [step : {"idle", "go", "delay"}, cmd : Commands \cup {"none"}, arg : Args,
        left : Int, fresh : BOOLEAN]

Reqs == [pc : {"none", "queued", "writing", "awaiting", "resolved", "rejected"},
         cmd : Commands \cup {"none"}, arg : Args, chain : Nat]

Messages == [kind : {"response", "error"}, cmd : Commands, arg : Args]

Types ==
  /\ board \in 1 .. MaxBoards
  /\ conn \in {"none", "open", "closed"} /\ cli \in {"off", "entering", "on"}
  /\ wire \in Seq(Messages) /\ Len(wire) <= MaxWire
  /\ chain \in Nat
  /\ queue \in Seq(Callers)
  /\ req \in [Callers -> Reqs]
  /\ pending \in [Commands -> Callers \cup {Nobody}]
  /\ op \in [Callers -> Ops]
  /\ calls \in 0 .. MaxCalls
  /\ lock \in Int
  /\ interval \in BOOLEAN /\ wanted \in BOOLEAN
  /\ info \in [Names -> Args]
  /\ late \in BOOLEAN /\ torn \in BOOLEAN /\ cut \in BOOLEAN

(* A caller with a request is at that request.                               *)
CallerInv ==
  \A c \in Callers :
    /\ op[c].step = "idle" => op[c] = Idle
    /\ op[c].step # "idle" => op[c].cmd \in Commands
    /\ req[c].pc # "none" => op[c].step = "go" /\ req[c].cmd = op[c].cmd

InFlight(c) == req[c].pc \in {"writing", "awaiting"}

(* A request queues once.                                                    *)
QueueInv ==
  /\ \A i, j \in DOMAIN queue : queue[i] = queue[j] => i = j
  /\ \A i \in DOMAIN queue : req[queue[i]].pc # "none"

(* A request in flight queues, before all others of its chain.               *)
ChainInv ==
  /\ \A c \in Callers : InFlight(c) => \E i \in DOMAIN queue : queue[i] = c
  /\ \A i, j \in DOMAIN queue :
       i < j /\ InFlight(queue[j]) => req[queue[i]].chain # req[queue[j]].chain

(* The requests that queue are on the last chain made while there is a       *)
(* connection, and only the first of them is in flight.                      *)
MutexInv ==
  ~torn =>
    /\ conn # "none" => \A i \in DOMAIN queue : req[queue[i]].chain = chain
    /\ \A c \in Callers : InFlight(c) => queue # <<>> /\ queue[1] = c

(* Without a connection nothing is answered, and nothing is in flight.       *)
GoneInv ==
  conn = "none" =>
    /\ wire = <<>>
    /\ \A c \in Callers : req[c].pc # "resolved"
    /\ \A n \in Names : info[n] = None
    /\ ~torn => \A c \in Callers : ~InFlight(c)

(* pending holds requests that await a reply, under their commands, and all  *)
(* of them.                                                                  *)
PendingInv ==
  /\ \A cmd \in Commands : pending[cmd] # Nobody =>
       req[pending[cmd]].pc = "awaiting" /\ req[pending[cmd]].cmd = cmd
  /\ ~torn => \A c \in Callers : req[c].pc = "awaiting" => pending[req[c].cmd] = c

(* Metadata on the wire are of this board and, until a request for them is   *)
(* given up, the answer to the one request for metadata in flight.           *)
Info(k) == k \in DOMAIN wire /\ wire[k].cmd = "info"

WireInv ==
  /\ \A k \in DOMAIN wire : Info(k) => wire[k].arg.board = board
  /\ ~late /\ ~torn =>
       /\ \A k, l \in DOMAIN wire : Info(k) /\ Info(l) => k = l
       /\ \A k \in DOMAIN wire : Info(k) =>
            \E c \in Callers : /\ InFlight(c) /\ req[c].cmd = "info"
                               /\ req[c].arg.name = wire[k].arg.name

(* A request for metadata carries the name its caller asked for, and so does *)
(* its answer.                                                               *)
InfoInv ==
  \A c \in Callers : req[c].cmd = "info" =>
    /\ req[c].pc \in {"queued", "writing", "awaiting"} => req[c].arg = op[c].arg
    /\ req[c].pc = "resolved" =>
         /\ req[c].arg.board = board
         /\ req[c].arg.name = op[c].arg.name \/ late \/ torn

(* The config lock counts the commands that hold it.                         *)
Locking == {c \in Lockers : op[c].step # "idle"}

LockInv == ~cut => lock = Cardinality(Locking)

(* A start-up that was not overtaken is wanted.                              *)
StartInv == \A c \in Callers : op[c].fresh => wanted

IInv ==
  /\ Types /\ CallerInv /\ QueueInv /\ ChainInv /\ MutexInv /\ GoneInv /\ PendingInv
  /\ WireInv /\ InfoInv /\ SettingsNamed
  /\ LockInv /\ StartInv /\ StoppedStays

-----------------------------------------------------------------------------
(* Facts about the constants and the data.                                   *)

LEMMA CallerFacts ==
  /\ Nobody \notin Callers
  /\ Editors \cap Lockers = {} /\ Editors \cap Pollers = {} /\ Editors \cap Starters = {}
  /\ Lockers \cap Pollers = {} /\ Lockers \cap Starters = {} /\ Pollers \cap Starters = {}
  /\ Editors \subseteq Callers /\ Lockers \subseteq Callers
  /\ Pollers \subseteq Callers /\ Starters \subseteq Callers
  /\ IsFiniteSet(Lockers) /\ "none" \notin Names
BY CallersAssumption DEF Callers, Nobody

LEMMA DataFacts ==
  /\ None \in Args /\ Idle \in Ops /\ NoRequest \in Reqs
BY MspAssumption DEF None, Args, Idle, Does, Ops, NoRequest, Reqs

LEMMA RemoveAtFacts ==
  ASSUME NEW S, NEW q \in Seq(S), NEW i \in DOMAIN q
  PROVE  /\ RemoveAt(q, i) \in Seq(S)
         /\ Len(RemoveAt(q, i)) = Len(q) - 1
         /\ \A j \in 1 .. Len(q) - 1 :
              RemoveAt(q, i)[j] = IF j < i THEN q[j] ELSE q[j + 1]
<1> DEFINE a == SubSeq(q, 1, i - 1)
           b == SubSeq(q, i + 1, Len(q))
<1>1. i \in 1 .. Len(q) /\ Len(q) \in Nat /\ \A j \in 1 .. Len(q) : q[j] \in S
  OBVIOUS
<1>2. /\ a \in Seq(S) /\ Len(a) = i - 1
      /\ \A j \in 1 .. i - 1 : a[j] = q[j]
  <2>1. /\ 1 \in Int /\ i - 1 \in Int /\ \A j \in 1 .. i - 1 : q[j] \in S
    BY <1>1
  <2>2. /\ SubSeq(q, 1, i - 1) \in Seq(S)
        /\ Len(SubSeq(q, 1, i - 1)) = IF 1 <= i - 1 THEN i - 1 - 1 + 1 ELSE 0
        /\ \A j \in 1 .. i - 1 - 1 + 1 : SubSeq(q, 1, i - 1)[j] = q[1 + j - 1]
    BY <2>1, SubSeqProperties
  <2> HIDE DEF a
  <2> QED BY <1>1, <2>2 DEF a
<1>3. /\ b \in Seq(S) /\ Len(b) = Len(q) - i
      /\ \A j \in 1 .. Len(q) - i : b[j] = q[i + j]
  <2>1. /\ i + 1 \in Int /\ Len(q) \in Int /\ \A j \in i + 1 .. Len(q) : q[j] \in S
    BY <1>1
  <2>2. /\ SubSeq(q, i + 1, Len(q)) \in Seq(S)
        /\ Len(SubSeq(q, i + 1, Len(q))) =
             IF i + 1 <= Len(q) THEN Len(q) - (i + 1) + 1 ELSE 0
        /\ \A j \in 1 .. Len(q) - (i + 1) + 1 :
             SubSeq(q, i + 1, Len(q))[j] = q[i + 1 + j - 1]
    BY <2>1, SubSeqProperties
  <2> QED BY <1>1, <2>2
<1> HIDE DEF a, b
<1>4. /\ a \o b \in Seq(S) /\ Len(a \o b) = Len(a) + Len(b)
      /\ \A j \in 1 .. Len(a) + Len(b) :
           (a \o b)[j] = IF j <= Len(a) THEN a[j] ELSE b[j - Len(a)]
  BY <1>2, <1>3, ConcatProperties
<1>5. ASSUME NEW j \in 1 .. Len(q) - 1
      PROVE  (a \o b)[j] = IF j < i THEN q[j] ELSE q[j + 1]
  <2>1. Len(a) = i - 1 /\ Len(a) + Len(b) = Len(q) - 1
    BY <1>1, <1>2, <1>3
  <2>2. CASE j < i
    <3>1. j \in 1 .. i - 1 /\ j <= Len(a)
      BY <1>1, <2>1, <2>2
    <3> QED BY <1>2, <1>4, <2>1, <2>2, <3>1
  <2>3. CASE ~(j < i)
    <3>1. j - (i - 1) \in 1 .. Len(q) - i /\ i + (j - (i - 1)) = j + 1 /\ ~(j <= Len(a))
      BY <1>1, <2>1, <2>3
    <3>2. (a \o b)[j] = b[j - (i - 1)]
      BY <1>4, <2>1, <3>1
    <3> QED BY <1>3, <2>3, <3>1, <3>2
  <2> QED BY <2>2, <2>3
<1>6. Len(a \o b) = Len(q) - 1
  BY <1>1, <1>2, <1>3, <1>4
<1> QED BY <1>4, <1>5, <1>6 DEF RemoveAt, a, b

LEMMA TailFacts ==
  ASSUME NEW S, NEW q \in Seq(S), q # <<>>
  PROVE  /\ Tail(q) \in Seq(S) /\ Len(Tail(q)) = Len(q) - 1
         /\ Head(q) = q[1] /\ 1 \in DOMAIN q
         /\ \A j \in DOMAIN Tail(q) : j + 1 \in DOMAIN q /\ Tail(q)[j] = q[j + 1]
OBVIOUS

LEMMA AppendFacts ==
  ASSUME NEW S, NEW q \in Seq(S), NEW e \in S
  PROVE  /\ Append(q, e) \in Seq(S) /\ Len(Append(q, e)) = Len(q) + 1
         /\ DOMAIN Append(q, e) = 1 .. Len(q) + 1 /\ DOMAIN q = 1 .. Len(q)
         /\ \A j \in DOMAIN q : Append(q, e)[j] = q[j]
         /\ Append(q, e)[Len(q) + 1] = e
OBVIOUS

-----------------------------------------------------------------------------
(* The initial state.                                                        *)

LEMMA InitGood == Init => IInv
<1> SUFFICES ASSUME Init PROVE IInv
  OBVIOUS
<1> USE DEF Init
<1>1. Types
  <2>1. wire = <<>> /\ wire \in Seq(Messages) /\ Len(wire) = 0 /\ queue \in Seq(Callers)
    OBVIOUS
  <2>2. /\ req \in [Callers -> Reqs] /\ op \in [Callers -> Ops] /\ info \in [Names -> Args]
        /\ pending \in [Commands -> Callers \cup {Nobody}]
    BY DataFacts
  <2>3. /\ interval \in BOOLEAN /\ wanted \in BOOLEAN
        /\ late \in BOOLEAN /\ torn \in BOOLEAN /\ cut \in BOOLEAN
    OBVIOUS
  <2>4. /\ board \in 1 .. MaxBoards /\ chain \in Nat /\ lock \in Int
        /\ calls \in 0 .. MaxCalls /\ 0 <= MaxWire
    BY MspAssumption
  <2>5. conn \in {"none", "open", "closed"} /\ cli \in {"off", "entering", "on"}
    OBVIOUS
  <2> HIDE DEF Init
  <2> QED BY <2>1, <2>2, <2>3, <2>4, <2>5 DEF Types
<1>2. CallerInv
  BY DEF CallerInv, Idle, Does, NoRequest
<1>3. QueueInv /\ ChainInv /\ MutexInv /\ PendingInv
  BY CallerFacts DEF QueueInv, ChainInv, MutexInv, PendingInv, InFlight, NoRequest
<1>4. GoneInv /\ WireInv /\ InfoInv
  BY DEF GoneInv, WireInv, Info, InfoInv, NoRequest
<1>5. SettingsNamed /\ StoppedStays
  BY DEF SettingsNamed, StoppedStays
<1>6. LockInv
  <2>1. Locking = {}
    BY CallerFacts DEF Locking, Idle, Does
  <2> QED BY <2>1, FS_EmptySet DEF LockInv
<1>7. StartInv
  BY DEF StartInv, Idle, Does
<1> QED BY <1>1, <1>2, <1>3, <1>4, <1>5, <1>6, <1>7 DEF IInv

-----------------------------------------------------------------------------
(* The mutex.                                                                *)

LEMMA IssueGood ==
  ASSUME IInv, NEW c \in Callers, Issue(c)
  PROVE  IInv'
<1> USE DEF IInv, Issue, link, callers, polling
<1>1. req[c].pc = "none" /\ op[c].step = "go"
  OBVIOUS
<1>2. op[c].cmd \in Commands
  BY DEF CallerInv
<1>3. req' = [req EXCEPT ![c] = [pc |-> IF conn = "open" /\ cli = "off" THEN "queued"
                                       ELSE "rejected",
                                cmd |-> op[c].cmd, arg |-> op[c].arg, chain |-> chain]]
  OBVIOUS
<1>4. /\ \A d \in Callers : d # c => req'[d] = req[d]
      /\ req'[c].pc \in {"queued", "rejected"}
      /\ req'[c].cmd = op[c].cmd /\ req'[c].arg = op[c].arg /\ req'[c].chain = chain
  BY <1>3 DEF Types
<1>5. ASSUME conn = "open" /\ cli = "off" PROVE Types' /\ QueueInv' /\ ChainInv' /\ MutexInv'
  <2>1. queue' = Append(queue, c) /\ queue \in Seq(Callers)
    BY <1>5 DEF Types
  <2>2. Types'
    BY <1>2, <1>3, <2>1, AppendFacts DEF Types, Ops, Reqs
  <2>3. QueueInv' /\ ChainInv' /\ MutexInv'
    <3>1. \A i \in DOMAIN queue : queue[i] # c
      BY <1>1 DEF QueueInv
    <3>2. conn' = conn /\ chain' = chain /\ torn' = torn
      OBVIOUS
    <3> HIDE DEF Issue
    <3>3. QueueInv'
      BY <1>4, <1>5, <2>1, <3>1, AppendFacts DEF QueueInv, Types
    <3>4. MutexInv'
      BY <1>4, <1>5, <2>1, <3>1, <3>2, AppendFacts DEF MutexInv, InFlight, Types
    <3>5. ChainInv'
      <4>1. /\ DOMAIN queue' = 1 .. Len(queue) + 1 /\ DOMAIN queue = 1 .. Len(queue)
            /\ Len(queue) \in Nat
            /\ \A i \in DOMAIN queue : queue'[i] = queue[i] /\ queue[i] \in Callers
            /\ queue'[Len(queue) + 1] = c
        BY <2>1, AppendFacts
      <4>2. ~InFlight(c)' /\ \A d \in Callers : d # c => (InFlight(d)' <=> InFlight(d))
        BY <1>4 DEF InFlight
      <4>3. \A d \in Callers : InFlight(d)' => \E i \in DOMAIN queue' : queue'[i] = d
        BY <4>1, <4>2 DEF ChainInv
      <4>4. ASSUME NEW i \in DOMAIN queue', NEW j \in DOMAIN queue', i < j,
                   req'[queue'[j]].pc \in {"writing", "awaiting"}
            PROVE  req'[queue'[i]].chain # req'[queue'[j]].chain
        <5>1. j \in DOMAIN queue /\ i \in DOMAIN queue
          BY <1>4, <4>1, <4>4
        <5>2. /\ queue'[i] = queue[i] /\ queue'[j] = queue[j]
              /\ queue[i] # c /\ queue[j] # c /\ queue[i] \in Callers /\ queue[j] \in Callers
          BY <3>1, <4>1, <5>1
        <5>3. InFlight(queue[j])
          BY <1>4, <4>4, <5>2 DEF InFlight
        <5> QED BY <1>4, <4>4, <5>1, <5>2, <5>3 DEF ChainInv
      <4> QED BY <4>3, <4>4 DEF ChainInv, InFlight
    <3> QED BY <3>3, <3>4, <3>5
  <2> QED BY <2>2, <2>3
<1>6. ASSUME ~(conn = "open" /\ cli = "off") PROVE Types' /\ QueueInv' /\ ChainInv' /\ MutexInv'
  <2>1. queue' = queue
    BY <1>6
  <2>2. Types'
    BY <1>2, <1>3, <2>1 DEF Types, Ops, Reqs
  <2>3. \A i \in DOMAIN queue : queue[i] # c /\ queue[i] \in Callers
    BY <1>1 DEF QueueInv, Types
  <2>4. QueueInv' /\ ChainInv' /\ MutexInv'
    BY <1>4, <2>1, <2>3 DEF QueueInv, ChainInv, MutexInv, InFlight
  <2> QED BY <2>2, <2>4
<1>7. CallerInv'
  BY <1>1, <1>4 DEF CallerInv
<1>8. GoneInv' /\ PendingInv'
  BY <1>1, <1>4 DEF GoneInv, PendingInv, InFlight, Types
<1>9. WireInv' /\ InfoInv'
  BY <1>1, <1>4 DEF WireInv, InfoInv, Info, InFlight, Types
<1>10. SettingsNamed' /\ LockInv' /\ StartInv' /\ StoppedStays'
  BY DEF SettingsNamed, LockInv, Locking, StartInv, StoppedStays
<1> QED BY <1>5, <1>6, <1>7, <1>8, <1>9, <1>10

-----------------------------------------------------------------------------
(* The callers.  Steps that leave the requests alone.                        *)

(* d is where it was, or starts a request where it had none.                 *)
Stays(d) == /\ op'[d].step = op[d].step /\ op'[d].cmd = op[d].cmd /\ op'[d].arg = op[d].arg
            /\ op[d] = Idle => op'[d] = Idle

GoesOn(d) == req[d].pc = "none" /\ op'[d].step # "idle" /\ op'[d].cmd \in Commands

LEMMA CallsKeep ==
  ASSUME IInv, UNCHANGED <<board, conn, requests, info>>,
         \A d \in Callers : Stays(d) \/ GoesOn(d)
  PROVE  /\ CallerInv' /\ QueueInv' /\ ChainInv' /\ MutexInv' /\ GoneInv' /\ PendingInv'
         /\ WireInv' /\ InfoInv' /\ SettingsNamed'
<1>1. UNCHANGED <<board, conn, wire, chain, queue, req, pending, late, torn, info>>
  BY DEF requests
<1>2. CallerInv'
  BY <1>1 DEF IInv, CallerInv, Stays, GoesOn
<1>3. QueueInv' /\ ChainInv' /\ MutexInv' /\ GoneInv' /\ PendingInv'
  BY <1>1 DEF IInv, QueueInv, ChainInv, MutexInv, GoneInv, PendingInv, InFlight
<1>4. WireInv' /\ SettingsNamed'
  BY <1>1 DEF IInv, WireInv, Info, InFlight, SettingsNamed
<1>5. InfoInv'
  BY <1>1 DEF IInv, InfoInv, Stays, GoesOn
<1> QED BY <1>2, <1>3, <1>4, <1>5

LEMMA LockKeeps ==
  ASSUME LockInv, UNCHANGED <<cut, lock>>,
         \A d \in Lockers : op'[d].step = "idle" <=> op[d].step = "idle"
  PROVE  LockInv'
<1>1. Locking' = Locking
  BY DEF Locking
<1> QED BY <1>1 DEF LockInv

LEMMA OvertakenFacts ==
  ASSUME Types, CallerInv
  PROVE  /\ Overtaken \in [Callers -> Ops]
         /\ \A d \in Callers :
              /\ Overtaken[d].step = op[d].step /\ Overtaken[d].cmd = op[d].cmd
              /\ Overtaken[d].arg = op[d].arg /\ Overtaken[d].fresh = FALSE
              /\ op[d] = Idle => Overtaken[d] = Idle
<1>1. \A d \in Callers : op[d] \in Ops
  BY DEF Types
<1>2. Overtaken \in [Callers -> Ops]
  BY <1>1 DEF Overtaken, Ops
<1>3. ASSUME NEW d \in Callers
      PROVE  /\ Overtaken[d].step = op[d].step /\ Overtaken[d].cmd = op[d].cmd
             /\ Overtaken[d].arg = op[d].arg /\ Overtaken[d].fresh = FALSE
  BY <1>1 DEF Overtaken, Ops
<1>4. ASSUME NEW d \in Callers, op[d] = Idle
      PROVE  Overtaken[d] = Idle
  <2>1. Overtaken[d] \in Ops /\ Idle \in Ops
    BY <1>2, DataFacts
  <2>2. Idle.fresh = FALSE
    BY DEF Idle, Does
  <2>3. /\ Overtaken[d].step = Idle.step /\ Overtaken[d].cmd = Idle.cmd
        /\ Overtaken[d].arg = Idle.arg /\ Overtaken[d].fresh = Idle.fresh
        /\ Overtaken[d].left = Idle.left
    BY <1>1, <1>3, <1>4, <2>2 DEF Overtaken, Ops
  <2> QED BY <2>1, <2>3 DEF Ops
<1> QED BY <1>2, <1>3, <1>4

(* A call finds its caller without a request.                                *)
LEMMA CallFacts ==
  ASSUME IInv, NEW c \in Callers, Call(c)
  PROVE  /\ req[c].pc = "none" /\ op[c].step = "idle" /\ calls' \in 0 .. MaxCalls
BY MspAssumption DEF IInv, CallerInv, Call, Types, Idle, Does

(* One caller goes on, and is not a fresh start-up.                          *)
LEMMA OneGoesOn ==
  ASSUME IInv, NEW c \in Callers, NEW o \in Ops, op' = [op EXCEPT ![c] = o],
         UNCHANGED <<board, conn, requests, info, interval, wanted>>,
         req[c].pc = "none", o.step # "idle", o.cmd \in Commands,
         o.fresh = FALSE \/ o.fresh = op[c].fresh
  PROVE  /\ op' \in [Callers -> Ops]
         /\ CallerInv' /\ QueueInv' /\ ChainInv' /\ MutexInv' /\ GoneInv' /\ PendingInv'
         /\ WireInv' /\ InfoInv' /\ SettingsNamed' /\ StartInv' /\ StoppedStays'
<1>1. op \in [Callers -> Ops]
  BY DEF IInv, Types
<1>2. op' \in [Callers -> Ops] /\ op'[c] = o /\ \A d \in Callers : d # c => op'[d] = op[d]
  BY <1>1
<1>3. \A d \in Callers : Stays(d) \/ GoesOn(d)
  BY <1>2 DEF Stays, GoesOn
<1>4. StartInv' /\ StoppedStays'
  BY <1>2 DEF IInv, StartInv, StoppedStays
<1> QED BY <1>2, <1>3, <1>4, CallsKeep

LEMMA SetSettingGood ==
  ASSUME IInv, NEW c \in Editors, NEW n \in Names, SetSetting(c, n)
  PROVE  IInv'
<1> DEFINE o == IF info[n] = None THEN Does("go", "info", [name |-> n, board |-> 0], 0)
                ELSE Does("go", "set", info[n], 0)
<1>1. c \in Callers /\ c \notin Lockers
  BY CallerFacts
<1>2. Call(c) /\ op' = [op EXCEPT ![c] = o]
  BY DEF SetSetting
<1>3. req[c].pc = "none" /\ op[c].step = "idle" /\ calls' \in 0 .. MaxCalls
  BY <1>1, <1>2, CallFacts
<1>4. [name |-> n, board |-> 0] \in Args /\ info[n] \in Args
  BY MspAssumption DEF IInv, Types, Args
<1>5. o \in Ops /\ o.step = "go" /\ o.cmd \in Commands /\ o.fresh = FALSE
  <2>1. o \in Ops
    BY <1>4 DEF Does, Ops, Commands
  <2>2. o.fresh = FALSE
    BY DEF Does
  <2> QED BY <2>1, <2>2 DEF Does, Commands
<1>6. UNCHANGED <<board, conn, requests, info, interval, wanted, cut, lock, cli>>
  BY DEF SetSetting, link, polling
<1> HIDE DEF o
<1>7. /\ op' \in [Callers -> Ops]
      /\ CallerInv' /\ QueueInv' /\ ChainInv' /\ MutexInv' /\ GoneInv' /\ PendingInv'
      /\ WireInv' /\ InfoInv' /\ SettingsNamed' /\ StartInv' /\ StoppedStays'
  BY <1>1, <1>2, <1>3, <1>5, <1>6, OneGoesOn
<1>8. LockInv'
  BY <1>1, <1>2, <1>6, LockKeeps, CallerFacts DEF IInv, Types
<1>9. Types'
  BY <1>3, <1>6, <1>7 DEF IInv, Types, requests
<1> QED BY <1>7, <1>8, <1>9 DEF IInv

LEMMA PollTickGood ==
  ASSUME IInv, NEW c \in Pollers, PollTick(c)
  PROVE  IInv'
<1> DEFINE o == Does("go", "telemetry", None, PollLen)
<1>1. c \in Callers /\ c \notin Lockers
  BY CallerFacts
<1>2. Call(c) /\ op' = [op EXCEPT ![c] = o]
  BY DEF PollTick
<1>3. req[c].pc = "none" /\ op[c].step = "idle" /\ calls' \in 0 .. MaxCalls
  BY <1>1, <1>2, CallFacts
<1>4. o \in Ops /\ o.step = "go" /\ o.cmd \in Commands /\ o.fresh = FALSE
  <2>1. o \in Ops
    BY MspAssumption, DataFacts DEF Does, Ops, Commands
  <2>2. o.fresh = FALSE
    BY DEF Does
  <2> QED BY <2>1, <2>2 DEF Does, Commands
<1>5. UNCHANGED <<board, conn, requests, info, interval, wanted, cut, lock, cli>>
  BY DEF PollTick, link, polling
<1> HIDE DEF o
<1>6. /\ op' \in [Callers -> Ops]
      /\ CallerInv' /\ QueueInv' /\ ChainInv' /\ MutexInv' /\ GoneInv' /\ PendingInv'
      /\ WireInv' /\ InfoInv' /\ SettingsNamed' /\ StartInv' /\ StoppedStays'
  BY <1>1, <1>2, <1>3, <1>4, <1>5, OneGoesOn
<1>7. LockInv'
  BY <1>1, <1>2, <1>5, LockKeeps, CallerFacts DEF IInv, Types
<1>8. Types'
  BY <1>3, <1>5, <1>6 DEF IInv, Types, requests
<1> QED BY <1>6, <1>7, <1>8 DEF IInv

(* A command takes the lock: one more holds it.                              *)
LEMMA TakeConfigLockGood ==
  ASSUME IInv, NEW c \in Lockers, TakeConfigLock(c)
  PROVE  IInv'
<1> DEFINE o == Does(IF lock + 1 = 1 THEN "delay" ELSE "go", "config", None, 0)
<1>1. c \in Callers
  BY CallerFacts
<1>2. Call(c) /\ op' = [op EXCEPT ![c] = o] /\ lock' = lock + 1
  BY DEF TakeConfigLock
<1>3. req[c].pc = "none" /\ op[c].step = "idle" /\ calls' \in 0 .. MaxCalls
  BY <1>1, <1>2, CallFacts
<1>4. o \in Ops /\ o.step # "idle" /\ o.cmd \in Commands /\ o.fresh = FALSE
  <2>1. o \in Ops
    BY DataFacts DEF Does, Ops, Commands
  <2>2. o.fresh = FALSE
    BY DEF Does
  <2> QED BY <2>1, <2>2 DEF Does, Commands
<1>5. UNCHANGED <<board, conn, requests, info, interval, wanted, cut, cli>>
  BY DEF TakeConfigLock, link, polling
<1> HIDE DEF o
<1>6. /\ op' \in [Callers -> Ops]
      /\ CallerInv' /\ QueueInv' /\ ChainInv' /\ MutexInv' /\ GoneInv' /\ PendingInv'
      /\ WireInv' /\ InfoInv' /\ SettingsNamed' /\ StartInv' /\ StoppedStays'
  BY <1>1, <1>2, <1>3, <1>4, <1>5, OneGoesOn
<1>7. LockInv'
  <2>1. Locking' = Locking \cup {c} /\ c \notin Locking
    BY <1>1, <1>2, <1>3, <1>4, CallerFacts DEF Locking, IInv, Types
  <2>2. IsFiniteSet(Locking)
    BY CallerFacts, FS_Subset DEF Locking
  <2>3. Cardinality(Locking') = Cardinality(Locking) + 1
    BY <2>1, <2>2, FS_AddElement
  <2> QED BY <1>2, <1>5, <2>3 DEF IInv, LockInv
<1>8. Types'
  BY <1>2, <1>3, <1>5, <1>6 DEF IInv, Types, requests
<1> QED BY <1>6, <1>7, <1>8 DEF IInv

LEMMA DelayOverGood ==
  ASSUME IInv, NEW c \in Callers, DelayOver(c)
  PROVE  IInv'
<1> DEFINE o == [op[c] EXCEPT !.step = "go"]
<1>1. op[c] \in Ops /\ op[c].step = "delay" /\ op' = [op EXCEPT ![c] = o]
  BY DEF IInv, Types, DelayOver, Ops
<1>2. req[c].pc = "none" /\ op[c].cmd \in Commands
  BY <1>1 DEF IInv, CallerInv
<1>3. o \in Ops /\ o.step = "go" /\ o.cmd \in Commands /\ o.fresh = op[c].fresh
  BY <1>1, <1>2 DEF Ops
<1>4. UNCHANGED <<board, conn, requests, info, interval, wanted, cut, lock, cli, calls>>
  BY DEF DelayOver, link, polling
<1> HIDE DEF o
<1>5. /\ op' \in [Callers -> Ops]
      /\ CallerInv' /\ QueueInv' /\ ChainInv' /\ MutexInv' /\ GoneInv' /\ PendingInv'
      /\ WireInv' /\ InfoInv' /\ SettingsNamed' /\ StartInv' /\ StoppedStays'
  BY <1>1, <1>2, <1>3, <1>4, OneGoesOn
<1>6. LockInv'
  <2>1. \A d \in Lockers : op'[d].step = "idle" <=> op[d].step = "idle"
    BY <1>1, <1>3, CallerFacts DEF IInv, Types
  <2> QED BY <1>4, <2>1, LockKeeps DEF IInv
<1>7. Types'
  BY <1>4, <1>5 DEF IInv, Types, requests
<1> QED BY <1>5, <1>6, <1>7 DEF IInv

-----------------------------------------------------------------------------
(* Telemetry and CLI mode.                                                   *)

(* Telemetry is stopped, the requests are left alone.                        *)
LEMMA StopsGood ==
  ASSUME IInv, Stops, UNCHANGED <<board, conn, requests, calls, lock, cut, info>>,
         cli' \in {"off", "entering", "on"}
  PROVE  IInv'
<1>1. /\ wanted' = FALSE /\ interval' = FALSE /\ op' = Overtaken
  BY DEF Stops
<1>2. /\ op' \in [Callers -> Ops]
      /\ \A d \in Callers : Stays(d) /\ op'[d].fresh = FALSE
  BY <1>1, OvertakenFacts DEF IInv, Stays
<1>3. /\ CallerInv' /\ QueueInv' /\ ChainInv' /\ MutexInv' /\ GoneInv' /\ PendingInv'
      /\ WireInv' /\ InfoInv' /\ SettingsNamed'
  BY <1>2, CallsKeep
<1>4. LockInv'
  <2>1. \A d \in Lockers : op'[d].step = "idle" <=> op[d].step = "idle"
    BY <1>2, CallerFacts DEF Stays
  <2> QED BY <2>1, LockKeeps DEF IInv
<1>5. StartInv' /\ StoppedStays'
  BY <1>1, <1>2 DEF StartInv, StoppedStays
<1>6. Types'
  BY <1>1, <1>2 DEF IInv, Types, requests
<1> QED BY <1>3, <1>4, <1>5, <1>6 DEF IInv

(* Starts, by a start-up that had no request.                                *)
LEMMA StartsFacts ==
  ASSUME IInv, NEW c \in Starters, Starts(c)
  PROVE  /\ wanted' = TRUE /\ interval' = FALSE /\ calls' \in 0 .. MaxCalls
         /\ op' \in [Callers -> Ops]
         /\ \A d \in Callers : Stays(d) \/ GoesOn(d)
         /\ \A d \in Callers : d # c => Stays(d)
         /\ \A d \in Lockers : op'[d].step = "idle" <=> op[d].step = "idle"
<1> DEFINE o == [step |-> "go", cmd |-> "rxmap", arg |-> None, left |-> 0, fresh |-> TRUE]
<1>1. c \in Callers /\ c \notin Lockers
  BY CallerFacts
<1>2. /\ Call(c) /\ wanted' = TRUE /\ interval' = FALSE
      /\ op' = [Overtaken EXCEPT ![c] = o]
  BY DEF Starts
<1>3. req[c].pc = "none" /\ calls' \in 0 .. MaxCalls
  BY <1>1, <1>2, CallFacts
<1>4. o \in Ops /\ o.step = "go" /\ o.cmd \in Commands
  BY DataFacts DEF Ops, Commands
<1> HIDE DEF o
<1>5. /\ Overtaken \in [Callers -> Ops]
      /\ \A d \in Callers :
           /\ Overtaken[d].step = op[d].step /\ Overtaken[d].cmd = op[d].cmd
           /\ Overtaken[d].arg = op[d].arg /\ Overtaken[d].fresh = FALSE
           /\ op[d] = Idle => Overtaken[d] = Idle
  BY OvertakenFacts DEF IInv
<1>6. /\ op' \in [Callers -> Ops] /\ op'[c] = o
      /\ \A d \in Callers : d # c => op'[d] = Overtaken[d]
  BY <1>1, <1>2, <1>4, <1>5
<1>7. /\ \A d \in Callers : Stays(d) \/ GoesOn(d)
      /\ \A d \in Callers : d # c => Stays(d)
  BY <1>3, <1>4, <1>5, <1>6 DEF Stays, GoesOn
<1>8. \A d \in Lockers : op'[d].step = "idle" <=> op[d].step = "idle"
  BY <1>1, <1>5, <1>6, CallerFacts
<1> QED BY <1>2, <1>3, <1>6, <1>7, <1>8

LEMMA StartsGood ==
  ASSUME IInv, NEW c \in Starters, Starts(c),
         UNCHANGED <<board, conn, requests, lock, cut, info>>,
         cli' \in {"off", "entering", "on"}
  PROVE  IInv'
<1>1. /\ wanted' = TRUE /\ interval' = FALSE /\ calls' \in 0 .. MaxCalls
      /\ op' \in [Callers -> Ops]
      /\ \A d \in Callers : Stays(d) \/ GoesOn(d)
      /\ \A d \in Lockers : op'[d].step = "idle" <=> op[d].step = "idle"
  BY StartsFacts
<1>2. /\ CallerInv' /\ QueueInv' /\ ChainInv' /\ MutexInv' /\ GoneInv' /\ PendingInv'
      /\ WireInv' /\ InfoInv' /\ SettingsNamed'
  BY <1>1, CallsKeep
<1>3. LockInv'
  BY <1>1, LockKeeps DEF IInv
<1>4. StartInv' /\ StoppedStays'
  BY <1>1 DEF StartInv, StoppedStays
<1>5. Types'
  BY <1>1 DEF IInv, Types, requests
<1> QED BY <1>2, <1>3, <1>4, <1>5 DEF IInv

LEMMA StartTelemetryGood ==
  ASSUME IInv, NEW c \in Starters, StartTelemetry(c)
  PROVE  IInv'
BY StartsGood DEF StartTelemetry, link, IInv, Types

LEMMA StopTelemetryGood == IInv /\ StopTelemetry => IInv'
BY StopsGood DEF StopTelemetry, link, IInv, Types

LEMMA CliGood == IInv /\ (EnterCli \/ CliPrompt \/ ExitCli) => IInv'
<1> SUFFICES ASSUME IInv, EnterCli \/ CliPrompt \/ ExitCli
             PROVE  IInv'
  OBVIOUS
<1>1. CASE EnterCli
  BY <1>1, StopsGood DEF EnterCli
<1>2. CASE ExitCli
  BY <1>2, StopsGood DEF ExitCli
<1>3. CASE CliPrompt
  <2>1. UNCHANGED <<board, conn, requests, lock, cut, info>>
    BY <1>3 DEF CliPrompt
  <2>2. ASSUME NEW c \in Starters, Starts(c), cli' = "off"
        PROVE  IInv'
    BY <2>1, <2>2, StartsGood
  <2>3. ASSUME cli' = "on", UNCHANGED <<op, calls, polling>>
        PROVE  IInv'
    <3>1. UNCHANGED <<op, calls, interval, wanted>>
      BY <2>3 DEF polling
    <3>2. \A d \in Callers : Stays(d)
      BY <3>1 DEF Stays
    <3>3. /\ CallerInv' /\ QueueInv' /\ ChainInv' /\ MutexInv' /\ GoneInv' /\ PendingInv'
          /\ WireInv' /\ InfoInv' /\ SettingsNamed'
      BY <2>1, <3>2, CallsKeep
    <3>4. LockInv' /\ StartInv' /\ StoppedStays'
      BY <2>1, <3>1 DEF IInv, LockInv, Locking, StartInv, StoppedStays
    <3>5. Types'
      BY <2>1, <2>3, <3>1 DEF IInv, Types, requests
    <3> QED BY <3>3, <3>4, <3>5 DEF IInv
  <2> QED BY <1>3, <2>2, <2>3 DEF CliPrompt
<1> QED BY <1>1, <1>2, <1>3

-----------------------------------------------------------------------------
(* Steps of the requests.                                                    *)

(* The caller that holds the mutex is the first of the queue.                *)
LEMMA HolderFirst ==
  ASSUME Types, MutexInv, ~torn, conn # "none", NEW c \in Callers, Holds(c)
  PROVE  1 \in DOMAIN queue /\ queue # <<>> /\ queue[1] = c
<1>1. PICK i \in DOMAIN queue : queue[i] = c /\ \A j \in 1 .. i - 1 : req[queue[j]].chain # req[c].chain
  BY DEF Holds
<1>2. queue \in Seq(Callers) /\ i \in 1 .. Len(queue)
  BY <1>1 DEF Types
<1>3. ~(i > 1)
  <2> SUFFICES ASSUME i > 1 PROVE FALSE
    OBVIOUS
  <2>1. 1 \in DOMAIN queue /\ 1 \in 1 .. i - 1
    BY <1>2
  <2> QED BY <1>1, <2>1 DEF MutexInv
<1> QED BY <1>1, <1>2, <1>3

(* Nothing else is in flight beside the first of the queue.                  *)
LEMMA NothingElse ==
  ASSUME MutexInv, ~torn, NEW c \in Callers, queue[1] = c
  PROVE  \A d \in Callers : InFlight(d) => d = c
BY DEF MutexInv

(* A step of the requests leaves the callers alone.                          *)
LEMMA RequestsKeep ==
  ASSUME IInv, UNCHANGED <<link, callers, polling, torn>>, late => late'
  PROVE  /\ UNCHANGED <<board, conn, cli, op, calls, lock, cut, info, interval, wanted>>
         /\ SettingsNamed' /\ LockInv' /\ StartInv' /\ StoppedStays'
<1>1. UNCHANGED <<board, conn, cli, op, calls, lock, cut, info, interval, wanted>>
  BY DEF link, callers, polling
<1>2. SettingsNamed' /\ StartInv' /\ StoppedStays'
  BY <1>1 DEF IInv, SettingsNamed, StartInv, StoppedStays
<1>3. LockInv'
  BY <1>1, LockKeeps DEF IInv
<1> QED BY <1>1, <1>2, <1>3

LEMMA AnswerFacts ==
  ASSUME IInv, NEW c \in Callers, req[c].pc = "queued", Answer(c)
  PROVE  /\ wire' \in Seq(Messages) /\ Len(wire') <= MaxWire
         /\ \/ wire' = wire
            \/ \E m \in Messages :
                 /\ wire' = Append(wire, m) /\ m.cmd = req[c].cmd
                 /\ m.arg.board = board /\ m.arg.name = req[c].arg.name
<1>1. /\ wire \in Seq(Messages) /\ Len(wire) <= MaxWire /\ Len(wire) \in Nat
      /\ MaxWire \in Nat /\ req[c] \in Reqs /\ board \in 0 .. MaxBoards
  BY MspAssumption DEF IInv, Types
<1>2. req[c].cmd \in Commands /\ req[c].arg \in Args
  BY <1>1 DEF IInv, CallerInv, Reqs
<1>3. CASE UNCHANGED wire
  BY <1>1, <1>3
<1>4. CASE ~UNCHANGED wire
  <2>1. PICK kind \in {"response", "error"} :
          /\ Len(wire) < MaxWire
          /\ wire' = Append(wire, [kind |-> kind, cmd |-> req[c].cmd,
                                   arg |-> [req[c].arg EXCEPT !.board = board]])
    BY <1>4 DEF Answer
  <2> DEFINE arg == [req[c].arg EXCEPT !.board = board]
             m == [kind |-> kind, cmd |-> req[c].cmd, arg |-> arg]
  <2>2. arg \in Args /\ arg.board = board /\ arg.name = req[c].arg.name
    BY <1>1, <1>2 DEF Args
  <2> HIDE DEF arg
  <2>3. m \in Messages /\ m.cmd = req[c].cmd /\ m.arg = arg
    BY <1>2, <2>2 DEF Messages
  <2>4. wire' = Append(wire, m)
    BY <2>1 DEF arg
  <2> HIDE DEF m
  <2>5. wire' \in Seq(Messages) /\ Len(wire') = Len(wire) + 1
    BY <1>1, <2>3, <2>4, AppendFacts
  <2> QED BY <1>1, <2>1, <2>2, <2>3, <2>4, <2>5
<1> QED BY <1>3, <1>4

LEMMA BeginGood ==
  ASSUME IInv, NEW c \in Callers, Begin(c)
  PROVE  IInv'
<1>1. /\ req[c].pc = "queued" /\ Holds(c) /\ late' = late
      /\ UNCHANGED <<link, callers, polling, torn>>
      /\ UNCHANGED <<chain, queue, pending, late>>
  BY DEF Begin
<1>2. ~torn /\ conn # "none" => 1 \in DOMAIN queue /\ queue # <<>> /\ queue[1] = c
  BY <1>1, HolderFirst DEF IInv
<1>3. ~torn => \A d \in Callers : ~InFlight(d)
  <2>1. CASE conn = "none"
    BY <2>1 DEF IInv, GoneInv
  <2>2. CASE conn # "none"
    BY <1>1, <1>2, <2>2, NothingElse DEF IInv, InFlight
  <2> QED BY <2>1, <2>2
<1>4. /\ UNCHANGED <<board, conn, cli, op, calls, lock, cut, info, interval, wanted>>
      /\ SettingsNamed' /\ LockInv' /\ StartInv' /\ StoppedStays'
  BY <1>1, RequestsKeep
<1> DEFINE pc == IF conn = "open" THEN "writing" ELSE "rejected"
<1>5. req' = [req EXCEPT ![c].pc = pc] /\ req \in [Callers -> Reqs]
  BY DEF Begin, IInv, Types
<1>6. /\ \A d \in Callers : d # c => req'[d] = req[d]
      /\ req'[c].pc = pc /\ req'[c].cmd = req[c].cmd /\ req'[c].arg = req[c].arg
      /\ req'[c].chain = req[c].chain /\ req' \in [Callers -> Reqs]
  BY <1>5 DEF Reqs
<1>7. /\ wire' \in Seq(Messages) /\ Len(wire') <= MaxWire
      /\ \/ wire' = wire
         \/ conn = "open" /\ \E m \in Messages :
              /\ wire' = Append(wire, m) /\ m.cmd = req[c].cmd
              /\ m.arg.board = board /\ m.arg.name = req[c].arg.name
  <2>1. CASE conn = "open"
    BY <1>1, <2>1, AnswerFacts DEF Begin
  <2>2. CASE conn # "open"
    BY <2>2 DEF Begin, IInv, Types
  <2> QED BY <2>1, <2>2
<1>8. Types'
  BY <1>1, <1>4, <1>6, <1>7 DEF IInv, Types
<1>9. CallerInv'
  BY <1>1, <1>4, <1>6 DEF IInv, CallerInv
<1>10. QueueInv' /\ ChainInv' /\ MutexInv'
  <2>1. \A i \in DOMAIN queue : queue[i] \in Callers
    BY DEF IInv, Types
  <2>2. QueueInv'
    BY <1>1, <1>4, <1>6, <2>1 DEF IInv, QueueInv
  <2>3. conn = "none" => ~InFlight(c)'
    BY <1>6 DEF InFlight
  <2>4. \A d \in Callers : d # c => (InFlight(d)' <=> InFlight(d))
    BY <1>6 DEF InFlight
  <2>5. MutexInv'
    BY <1>1, <1>2, <1>3, <1>4, <1>6, <2>1, <2>3, <2>4 DEF IInv, MutexInv
  <2>6. ChainInv'
    <3>1. PICK k \in DOMAIN queue :
            queue[k] = c /\ \A j \in 1 .. k - 1 : req[queue[j]].chain # req[c].chain
      BY <1>1 DEF Holds
    <3>2. queue \in Seq(Callers) /\ DOMAIN queue = 1 .. Len(queue) /\ Len(queue) \in Nat
      BY DEF IInv, Types
    <3>3. \A d \in Callers : InFlight(d)' => \E i \in DOMAIN queue : queue[i] = d
      BY <2>4, <3>1 DEF IInv, ChainInv
    <3>4. \A d \in Callers : req'[d].chain = req[d].chain
      BY <1>6
    <3>5. ASSUME NEW i \in DOMAIN queue, NEW j \in DOMAIN queue, i < j,
                 req'[queue[j]].pc \in {"writing", "awaiting"}
          PROVE  req[queue[i]].chain # req[queue[j]].chain
      <4>1. CASE queue[j] = c
        <5>1. j = k
          BY <3>1, <4>1 DEF IInv, QueueInv
        <5>2. i \in 1 .. k - 1
          BY <3>2, <3>5, <5>1
        <5> QED BY <3>1, <4>1, <5>2
      <4>2. CASE queue[j] # c
        <5>1. InFlight(queue[j])
          BY <2>1, <1>6, <3>5, <4>2 DEF InFlight
        <5> QED BY <3>5, <5>1 DEF IInv, ChainInv
      <4> QED BY <4>1, <4>2
    <3> QED BY <1>1, <2>1, <3>3, <3>4, <3>5 DEF ChainInv, InFlight
  <2> QED BY <2>2, <2>5, <2>6
<1>11. GoneInv'
  BY <1>1, <1>4, <1>6, <1>7 DEF IInv, GoneInv, InFlight
<1>12. PendingInv'
  BY <1>1, <1>6, SMTT(30) DEF IInv, PendingInv, Types
<1>13. InfoInv'
  BY <1>1, <1>4, <1>6 DEF IInv, InfoInv
<1>14. WireInv'
  <2>1. CASE wire' = wire
    BY <1>1, <1>3, <1>4, <2>1 DEF IInv, WireInv, Info
  <2>2. CASE wire' # wire
    <3>1. PICK m \in Messages : /\ wire' = Append(wire, m) /\ m.cmd = req[c].cmd
                                /\ m.arg.board = board /\ m.arg.name = req[c].arg.name
      BY <1>7, <2>2
    <3>2. wire \in Seq(Messages) /\ InFlight(c)'
      BY <1>6, <1>7, <2>2 DEF IInv, Types, InFlight
    <3>3. /\ DOMAIN wire' = 1 .. Len(wire) + 1 /\ DOMAIN wire = 1 .. Len(wire)
          /\ \A j \in DOMAIN wire : wire'[j] = wire[j]
          /\ wire'[Len(wire) + 1] = m
      BY <3>1, <3>2, AppendFacts
    <3>4. ~late /\ ~torn => \A k \in DOMAIN wire : ~Info(k)
      BY <1>3 DEF IInv, WireInv
    <3> QED BY <1>1, <1>4, <1>6, <3>1, <3>2, <3>3, <3>4 DEF IInv, WireInv, Info
  <2> QED BY <2>1, <2>2
<1> QED BY <1>4, <1>8, <1>9, <1>10, <1>11, <1>12, <1>13, <1>14 DEF IInv

(* The request of c ends, by a timer or a write that fails.                  *)
LEMMA GivesUp ==
  ASSUME IInv, NEW c \in Callers, InFlight(c), UNCHANGED <<link, callers, polling, torn>>,
         UNCHANGED <<wire, chain, queue>>,
         req' = [req EXCEPT ![c].pc = "rejected"],
         late' = (late \/ req[c].cmd = "info"),
         req[c].pc = "awaiting" => pending' = [pending EXCEPT ![req[c].cmd] = Nobody],
         req[c].pc = "writing" => pending' = pending
  PROVE  IInv'
<1>1. /\ UNCHANGED <<board, conn, cli, op, calls, lock, cut, info, interval, wanted>>
      /\ SettingsNamed' /\ LockInv' /\ StartInv' /\ StoppedStays'
  BY RequestsKeep
<1>2. ~torn => queue # <<>> /\ queue[1] = c /\ \A d \in Callers : InFlight(d) => d = c
  BY NothingElse DEF IInv, MutexInv
<1>3. /\ \A d \in Callers : d # c => req'[d] = req[d]
      /\ req'[c].pc = "rejected" /\ req'[c].cmd = req[c].cmd /\ req'[c].arg = req[c].arg
      /\ req'[c].chain = req[c].chain /\ req' \in [Callers -> Reqs]
  <2>1. req \in [Callers -> Reqs]
    BY DEF IInv, Types
  <2>2. req[c] \in Reqs /\ req' = [req EXCEPT ![c] = [req[c] EXCEPT !.pc = "rejected"]]
    BY <2>1
  <2>3. [req[c] EXCEPT !.pc = "rejected"] \in Reqs
    BY <2>2 DEF Reqs
  <2> DEFINE r == [req[c] EXCEPT !.pc = "rejected"]
  <2>4. r.pc = "rejected" /\ r.cmd = req[c].cmd /\ r.arg = req[c].arg /\ r.chain = req[c].chain
    BY <2>2 DEF Reqs
  <2> QED BY <2>1, <2>2, <2>3, <2>4
<1>4. late' \in BOOLEAN
  BY DEF IInv, Types
<1>5. pending' \in [Commands -> Callers \cup {Nobody}]
  BY DEF IInv, Types, InFlight
<1>6. Types'
  BY <1>1, <1>3, <1>4, <1>5 DEF IInv, Types
<1>7. CallerInv'
  BY <1>1, <1>3 DEF IInv, CallerInv, InFlight
<1>8. QueueInv' /\ ChainInv' /\ MutexInv'
  <2>1. \A i \in DOMAIN queue : queue[i] \in Callers
    BY DEF IInv, Types
  <2> QED BY <1>1, <1>3, <2>1 DEF IInv, QueueInv, ChainInv, MutexInv, InFlight
<1>9. GoneInv'
  BY <1>1, <1>3 DEF IInv, GoneInv, InFlight
<1>10. PendingInv'
  <2>1. req[c].pc = "writing" => pending' = pending
    OBVIOUS
  <2>2. req[c].pc = "awaiting" => pending' = [pending EXCEPT ![req[c].cmd] = Nobody]
    OBVIOUS
  <2>3. ASSUME NEW cmd \in Commands, pending'[cmd] # Nobody
        PROVE  req'[pending'[cmd]].pc = "awaiting" /\ req'[pending'[cmd]].cmd = cmd
    <3>1. pending'[cmd] = pending[cmd] /\ (req[c].pc = "awaiting" => cmd # req[c].cmd)
      BY <2>1, <2>2, <2>3 DEF IInv, Types, InFlight
    <3>2. /\ pending[cmd] \in Callers
          /\ req[pending[cmd]].pc = "awaiting" /\ req[pending[cmd]].cmd = cmd
      BY <2>3, <3>1 DEF IInv, PendingInv, Types
    <3> QED BY <1>3, <3>1, <3>2
  <2>4. ~torn => \A d \in Callers : req'[d].pc # "awaiting"
    BY <1>2, <1>3 DEF InFlight
  <2> QED BY <2>3, <2>4 DEF PendingInv
<1>11. InfoInv'
  BY <1>1, <1>3 DEF IInv, InfoInv
<1>12. WireInv'
  <2>1. ~late' /\ ~torn => \A k \in DOMAIN wire : ~Info(k)
    BY <1>2 DEF IInv, WireInv
  <2> QED BY <1>1, <2>1 DEF IInv, WireInv, Info
<1> QED BY <1>1, <1>6, <1>7, <1>8, <1>9, <1>10, <1>11, <1>12 DEF IInv

LEMMA TimeoutGood ==
  ASSUME IInv, NEW c \in Callers, Timeout(c)
  PROVE  IInv'
BY GivesUp DEF Timeout, InFlight

LEMMA WriteDoneGood ==
  ASSUME IInv, NEW c \in Callers, WriteDone(c)
  PROVE  IInv'
<1>1. /\ req[c].pc = "writing" /\ InFlight(c) /\ UNCHANGED <<link, callers, polling, torn>>
      /\ UNCHANGED <<wire, chain, queue>>
  BY DEF WriteDone, InFlight
<1>2. CASE /\ req' = [req EXCEPT ![c].pc = "rejected"] /\ pending' = pending
           /\ late' = (late \/ req[c].cmd = "info")
  BY <1>1, <1>2, GivesUp
<1>3. CASE /\ req' = [req EXCEPT ![c].pc = "awaiting"] /\ late' = late
           /\ pending' = [pending EXCEPT ![req[c].cmd] = c]
  <2>1. /\ UNCHANGED <<board, conn, cli, op, calls, lock, cut, info, interval, wanted>>
        /\ SettingsNamed' /\ LockInv' /\ StartInv' /\ StoppedStays'
    BY <1>1, <1>3, RequestsKeep
  <2>2. ~torn => queue # <<>> /\ queue[1] = c /\ \A d \in Callers : InFlight(d) => d = c
    BY <1>1, NothingElse DEF IInv, MutexInv
  <2>3. /\ \A d \in Callers : d # c => req'[d] = req[d]
        /\ req'[c].pc = "awaiting" /\ req'[c].cmd = req[c].cmd /\ req'[c].arg = req[c].arg
        /\ req'[c].chain = req[c].chain /\ req' \in [Callers -> Reqs]
    BY <1>3 DEF IInv, Types, Reqs
  <2>4. req[c].cmd \in Commands
    BY <1>1 DEF IInv, CallerInv
  <2>5. pending' \in [Commands -> Callers \cup {Nobody}]
    BY <1>3 DEF IInv, Types
  <2>6. Types'
    BY <1>1, <1>3, <2>1, <2>3, <2>5 DEF IInv, Types
  <2>7. CallerInv'
    BY <1>1, <2>1, <2>3 DEF IInv, CallerInv
  <2>8. QueueInv' /\ ChainInv' /\ MutexInv'
    <3>1. \A i \in DOMAIN queue : queue[i] \in Callers
      BY DEF IInv, Types
    <3> QED BY <1>1, <2>1, <2>2, <2>3, <3>1 DEF IInv, QueueInv, ChainInv, MutexInv, InFlight
  <2>9. GoneInv'
    BY <1>1, <2>1, <2>3 DEF IInv, GoneInv, InFlight
  <2>10. PendingInv'
    <3>1. /\ pending'[req[c].cmd] = c
          /\ \A cmd \in Commands : cmd # req[c].cmd => pending'[cmd] = pending[cmd]
      BY <1>3, <2>4 DEF IInv, Types
    <3>2. ASSUME NEW cmd \in Commands, pending'[cmd] # Nobody
          PROVE  req'[pending'[cmd]].pc = "awaiting" /\ req'[pending'[cmd]].cmd = cmd
      <4>1. CASE cmd = req[c].cmd
        BY <2>3, <3>1, <4>1
      <4>2. CASE cmd # req[c].cmd
        <5>1. /\ pending'[cmd] = pending[cmd] /\ pending[cmd] \in Callers
              /\ req[pending[cmd]].pc = "awaiting" /\ req[pending[cmd]].cmd = cmd
          BY <3>1, <3>2, <4>2 DEF IInv, PendingInv, Types
        <5> QED BY <1>1, <2>3, <5>1
      <4> QED BY <4>1, <4>2
    <3>3. ~torn => \A d \in Callers : req'[d].pc = "awaiting" => d = c
      BY <2>2, <2>3 DEF InFlight
    <3> QED BY <1>1, <2>3, <3>1, <3>2, <3>3 DEF PendingInv
  <2>11. InfoInv'
    BY <1>1, <1>3, <2>1, <2>3 DEF IInv, InfoInv
  <2>12. WireInv'
    BY <1>1, <1>3, <2>1, <2>2, <2>3 DEF IInv, WireInv, Info, InFlight
  <2> QED BY <2>1, <2>6, <2>7, <2>8, <2>9, <2>10, <2>11, <2>12 DEF IInv
<1> QED BY <1>2, <1>3 DEF WriteDone

(* A reply resolves or rejects the request that awaits it.                   *)
LEMMA ReceiveGood == IInv /\ Receive => IInv'
<1> SUFFICES ASSUME IInv, Receive
             PROVE  IInv'
  OBVIOUS
<1> DEFINE m == Head(wire)
           c == pending[m.cmd]
           taken == cli = "off" /\ c # Nobody
<1>1. /\ wire # <<>> /\ wire' = Tail(wire)
      /\ UNCHANGED <<link, chain, queue, late, torn, callers, polling>>
  BY DEF Receive
<1>2. /\ UNCHANGED <<board, conn, cli, op, calls, lock, cut, info, interval, wanted>>
      /\ SettingsNamed' /\ LockInv' /\ StartInv' /\ StoppedStays'
  BY <1>1, RequestsKeep
<1>3. /\ wire' \in Seq(Messages) /\ Len(wire') <= MaxWire
      /\ m = wire[1] /\ 1 \in DOMAIN wire /\ m \in Messages
      /\ \A k \in DOMAIN wire' : k \in Nat \ {0} /\ k + 1 \in DOMAIN wire /\ wire'[k] = wire[k + 1]
  <2>1. wire \in Seq(Messages) /\ Len(wire) <= MaxWire /\ MaxWire \in Nat
    BY MspAssumption DEF IInv, Types
  <2>2. /\ Tail(wire) \in Seq(Messages) /\ Len(Tail(wire)) = Len(wire) - 1
        /\ Head(wire) = wire[1] /\ 1 \in DOMAIN wire
        /\ \A j \in DOMAIN Tail(wire) : j + 1 \in DOMAIN wire /\ Tail(wire)[j] = wire[j + 1]
    BY <1>1, <2>1, TailFacts
  <2>3. Len(wire') <= MaxWire /\ \A k \in DOMAIN wire' : k \in Nat \ {0}
    BY <1>1, <2>1, <2>2
  <2>4. m \in Messages
    BY <2>1, <2>2
  <2> QED BY <1>1, <2>2, <2>3, <2>4
<1>4. m.cmd \in Commands /\ m.arg \in Args
  BY <1>3 DEF Messages
<1>5. CASE ~taken
  <2>1. UNCHANGED <<pending, req>>
    BY <1>5 DEF Receive
  <2>2. Types'
    BY <1>1, <1>2, <1>3, <2>1 DEF IInv, Types
  <2>3. CallerInv' /\ QueueInv' /\ ChainInv' /\ MutexInv' /\ GoneInv' /\ PendingInv' /\ InfoInv'
    BY <1>1, <1>2, <2>1
    DEF IInv, CallerInv, QueueInv, ChainInv, MutexInv, GoneInv, PendingInv, InfoInv, InFlight
  <2>4. WireInv'
    BY <1>1, <1>2, <1>3, <2>1 DEF IInv, WireInv, Info, InFlight
  <2> QED BY <1>2, <2>2, <2>3, <2>4 DEF IInv
<1>6. CASE taken
  <2>1. /\ c \in Callers /\ req[c].pc = "awaiting" /\ req[c].cmd = m.cmd
    BY <1>4, <1>6 DEF IInv, PendingInv, Types
  <2>2. /\ pending' = [pending EXCEPT ![m.cmd] = Nobody]
        /\ \/ req' = [req EXCEPT ![c].pc = "resolved", ![c].arg = m.arg]
           \/ req' = [req EXCEPT ![c].pc = "rejected"]
    BY <1>6 DEF Receive
  <2>3. /\ InFlight(c)
        /\ ~torn => queue # <<>> /\ queue[1] = c /\ \A d \in Callers : InFlight(d) => d = c
    BY <2>1, NothingElse DEF IInv, MutexInv, InFlight
  <2> HIDE DEF m
  <2>4. /\ \A d \in Callers : d # c => req'[d] = req[d]
        /\ req'[c].pc \in {"resolved", "rejected"}
        /\ req'[c].pc = "resolved" => req'[c].arg = m.arg
        /\ req'[c].cmd = req[c].cmd /\ req'[c].chain = req[c].chain
        /\ req' \in [Callers -> Reqs]
    <3> HIDE DEF c
    <3>1. req \in [Callers -> Reqs]
      BY DEF IInv, Types
    <3>2. CASE req' = [req EXCEPT ![c].pc = "resolved", ![c].arg = m.arg]
      BY <1>4, <2>1, <3>1, <3>2, ZenonT(30) DEF Reqs
    <3>3. CASE req' = [req EXCEPT ![c].pc = "rejected"]
      BY <2>1, <3>1, <3>3 DEF Reqs
    <3> QED BY <2>2, <3>2, <3>3
  <2>5. pending' \in [Commands -> Callers \cup {Nobody}]
    BY <2>2 DEF IInv, Types
  <2> HIDE DEF c
  <2>6. Types'
    BY <1>1, <1>2, <1>3, <2>4, <2>5 DEF IInv, Types
  <2>7. CallerInv'
    BY <1>2, <2>1, <2>4 DEF IInv, CallerInv
  <2>8. QueueInv' /\ ChainInv' /\ MutexInv'
    <3>1. \A i \in DOMAIN queue : queue[i] \in Callers
      BY DEF IInv, Types
    <3> QED BY <1>1, <1>2, <2>1, <2>3, <2>4, <3>1 DEF IInv, QueueInv, ChainInv, MutexInv, InFlight
  <2>9. GoneInv'
    BY <1>1, <1>2 DEF IInv, GoneInv
  <2>10. PendingInv'
    <3>1. /\ pending'[m.cmd] = Nobody
          /\ \A cmd \in Commands : cmd # m.cmd => pending'[cmd] = pending[cmd]
      BY <1>4, <2>2 DEF IInv, Types
    <3>2. ASSUME NEW cmd \in Commands, pending'[cmd] # Nobody
          PROVE  req'[pending'[cmd]].pc = "awaiting" /\ req'[pending'[cmd]].cmd = cmd
      <4>1. /\ cmd # m.cmd /\ pending'[cmd] = pending[cmd] /\ pending[cmd] \in Callers
            /\ req[pending[cmd]].pc = "awaiting" /\ req[pending[cmd]].cmd = cmd
        BY <3>1, <3>2 DEF IInv, PendingInv, Types
      <4> QED BY <2>1, <2>4, <4>1
    <3>3. ~torn => \A d \in Callers : req'[d].pc # "awaiting"
      BY <2>3, <2>4 DEF InFlight
    <3> QED BY <1>1, <3>2, <3>3 DEF PendingInv
  <2>11. late' = late /\ ~late /\ ~torn => \A k \in DOMAIN wire' : ~(wire'[k].cmd = "info")
    <3> SUFFICES ASSUME ~late, ~torn, NEW k \in DOMAIN wire', wire'[k].cmd = "info"
                 PROVE  FALSE
      BY <1>1
    <3>1. k + 1 \in DOMAIN wire /\ wire[k + 1].cmd = "info" /\ Info(k + 1) /\ k \in Nat \ {0}
      BY <1>3 DEF Info
    <3>2. req[c].cmd = "info"
      BY <2>1, <2>3, <3>1 DEF IInv, WireInv
    <3>3. Info(1)
      BY <1>3, <2>1, <3>2 DEF Info
    <3>4. k + 1 = 1
      BY <1>3, <3>1, <3>3 DEF IInv, WireInv
    <3> QED BY <3>1, <3>4
  <2>12. WireInv'
    BY <1>1, <1>2, <1>3, <2>11 DEF IInv, WireInv, Info
  <2>13. InfoInv'
    <3> SUFFICES ASSUME req'[c].cmd = "info", req'[c].pc = "resolved"
                 PROVE  m.arg.board = board /\ (m.arg.name = op[c].arg.name \/ late \/ torn)
      BY <1>1, <1>2, <2>1, <2>3, <2>4 DEF IInv, InfoInv, InFlight
    <3>1. Info(1) /\ wire[1] = m
      BY <1>3, <2>1, <2>4 DEF Info
    <3>2. m.arg.board = board
      BY <1>3, <3>1 DEF IInv, WireInv
    <3>3. ~late /\ ~torn => m.arg.name = req[c].arg.name
      BY <1>3, <2>3, <3>1 DEF IInv, WireInv
    <3>4. req[c].arg = op[c].arg
      BY <2>1, <2>4 DEF IInv, InfoInv
    <3> QED BY <3>2, <3>3, <3>4
  <2> QED BY <1>2, <2>6, <2>7, <2>8, <2>9, <2>10, <2>12, <2>13 DEF IInv
<1> QED BY <1>5, <1>6

-----------------------------------------------------------------------------
(* A request returns.                                                        *)

(* What Return does to the requests, whichever caller goes on.               *)
LEMMA ReturnFacts ==
  ASSUME IInv, NEW c \in Callers, Return(c)
  PROVE  /\ req[c].pc \in {"resolved", "rejected"}
         /\ req' \in [Callers -> Reqs] /\ req'[c] = NoRequest
         /\ \A d \in Callers : d # c => req'[d] = req[d]
         /\ UNCHANGED <<board, conn, cli, wire, chain, pending, late, torn, calls, cut>>
         /\ op[c].step = "go" /\ req[c].cmd = op[c].cmd /\ op[c] \in Ops
         /\ op \in [Callers -> Ops]
<1>1. /\ req[c].pc \in {"resolved", "rejected"} /\ req' = [req EXCEPT ![c] = NoRequest]
      /\ UNCHANGED <<link, wire, chain, pending, late, torn, calls, cut>>
  BY DEF Return
<1>2. UNCHANGED <<board, conn, cli, wire, chain, pending, late, torn, calls, cut>>
  BY <1>1 DEF link
<1>3. req \in [Callers -> Reqs] /\ op \in [Callers -> Ops]
  BY DEF IInv, Types
<1> QED BY <1>1, <1>2, <1>3, DataFacts DEF IInv, CallerInv

LEMMA ReturnQueue ==
  ASSUME IInv, NEW c \in Callers, Return(c)
  PROVE  queue' \in Seq(Callers) /\ QueueInv' /\ ChainInv' /\ MutexInv'
<1>1. /\ req[c].pc \in {"resolved", "rejected"}
      /\ req' \in [Callers -> Reqs] /\ req'[c] = NoRequest
      /\ \A d \in Callers : d # c => req'[d] = req[d]
      /\ UNCHANGED <<conn, chain, torn>>
  BY ReturnFacts
<1>2. /\ queue \in Seq(Callers)
      /\ \A i \in DOMAIN queue : queue[i] \in Callers /\ i \in 1 .. Len(queue)
  BY DEF IInv, Types
<1>3. \A d \in Callers : InFlight(d)' => InFlight(d) /\ d # c
  BY <1>1 DEF InFlight, NoRequest
<1>4. CASE queue' = queue /\ c \notin ToSet(queue)
  <2>1. \A i \in DOMAIN queue : queue[i] # c
    BY <1>4 DEF ToSet
  <2> QED BY <1>1, <1>2, <1>3, <1>4, <2>1 DEF IInv, QueueInv, ChainInv, MutexInv
<1>5. ASSUME NEW i \in DOMAIN queue, queue[i] = c, queue' = RemoveAt(queue, i)
      PROVE  queue' \in Seq(Callers) /\ QueueInv' /\ ChainInv' /\ MutexInv'
  <2> DEFINE old(j) == IF j < i THEN j ELSE j + 1
  <2>1. /\ RemoveAt(queue, i) \in Seq(Callers)
        /\ Len(RemoveAt(queue, i)) = Len(queue) - 1
        /\ \A j \in 1 .. Len(queue) - 1 :
             RemoveAt(queue, i)[j] = IF j < i THEN queue[j] ELSE queue[j + 1]
    BY <1>2, RemoveAtFacts
  <2>2. /\ queue' \in Seq(Callers) /\ Len(queue') = Len(queue) - 1
        /\ DOMAIN queue' = 1 .. Len(queue) - 1 /\ DOMAIN queue = 1 .. Len(queue)
        /\ Len(queue) \in Nat /\ i \in 1 .. Len(queue)
    BY <1>2, <1>5, <2>1
  <2>3. \A j \in DOMAIN queue' :
          old(j) \in DOMAIN queue /\ old(j) # i /\ queue'[j] = queue[old(j)] /\ queue'[j] # c
    <3> TAKE j \in DOMAIN queue'
    <3>1. old(j) \in DOMAIN queue /\ old(j) # i
      BY <2>2
    <3>2. queue'[j] = queue[old(j)]
      BY <1>5, <2>1, <2>2
    <3>3. queue[old(j)] # c
      BY <1>5, <3>1 DEF IInv, QueueInv
    <3> QED BY <3>1, <3>2, <3>3
  <2>4. \A j, k \in DOMAIN queue' : queue'[j] = queue'[k] => j = k
    <3> SUFFICES ASSUME NEW j \in DOMAIN queue', NEW k \in DOMAIN queue', queue'[j] = queue'[k]
                 PROVE  j = k
      OBVIOUS
    <3>1. old(j) = old(k)
      BY <2>3 DEF IInv, QueueInv
    <3> QED BY <2>2, <3>1
  <2>5. ~torn => \A d \in Callers : InFlight(d)' => queue' # <<>> /\ queue'[1] = d
    <3> SUFFICES ASSUME ~torn, NEW d \in Callers, InFlight(d)'
                 PROVE  queue' # <<>> /\ queue'[1] = d
      OBVIOUS
    <3>1. queue[1] = d /\ d # c
      BY <1>3 DEF IInv, MutexInv
    <3>2. i # 1
      BY <1>5, <3>1
    <3>3. 1 \in DOMAIN queue' /\ 1 < i
      BY <2>2, <3>2
    <3>4. queue'[1] = queue[old(1)] /\ old(1) = 1
      BY <2>3, <3>3
    <3> QED BY <2>2, <3>1, <3>3, <3>4
  <2> HIDE DEF old
  <2>6. \A j \in DOMAIN queue' : req'[queue'[j]] = req[queue[old(j)]]
    BY <1>1, <1>2, <2>3
  <2>7. /\ \A j \in DOMAIN queue' : req'[queue'[j]].pc # "none"
        /\ ~torn /\ conn # "none" => \A j \in DOMAIN queue' : req'[queue'[j]].chain = chain
    BY <2>3, <2>6 DEF IInv, QueueInv, ChainInv, MutexInv
  <2>8. ChainInv'
    <3>1. ASSUME NEW d \in Callers, InFlight(d)'
          PROVE  \E j \in DOMAIN queue' : queue'[j] = d
      <4>1. PICK k \in DOMAIN queue : queue[k] = d
        BY <1>3, <3>1 DEF IInv, ChainInv
      <4>2. k # i /\ k \in 1 .. Len(queue)
        BY <1>3, <1>5, <2>2, <3>1, <4>1
      <4>3. CASE k < i
        BY <1>5, <2>1, <2>2, <4>1, <4>2, <4>3
      <4>4. CASE ~(k < i)
        <5>1. k - 1 \in 1 .. Len(queue) - 1 /\ ~(k - 1 < i) /\ k - 1 + 1 = k
          BY <2>2, <4>2, <4>4
        <5>2. queue'[k - 1] = queue[k]
          BY <1>5, <2>1, <5>1
        <5> QED BY <2>2, <4>1, <5>1, <5>2
      <4> QED BY <4>3, <4>4
    <3>2. ASSUME NEW j \in DOMAIN queue', NEW k \in DOMAIN queue', j < k,
                 req'[queue'[k]].pc \in {"writing", "awaiting"}
          PROVE  req'[queue'[j]].chain # req'[queue'[k]].chain
      <4>1. old(j) < old(k)
        BY <2>2, <3>2 DEF old
      <4>2. queue'[k] \in Callers
        BY <1>2, <2>3
      <4>3. InFlight(queue[old(k)])
        BY <1>1, <2>3, <3>2, <4>2 DEF InFlight
      <4> QED BY <2>3, <2>6, <4>1, <4>3 DEF IInv, ChainInv
    <3> QED BY <3>1, <3>2 DEF ChainInv, InFlight
  <2> QED BY <1>1, <2>2, <2>4, <2>5, <2>7, <2>8 DEF QueueInv, MutexInv
<1> QED BY <1>4, <1>5 DEF Return

LEMMA IdleFacts ==
  Idle \in Ops /\ Idle.step = "idle" /\ Idle.fresh = FALSE
BY DataFacts DEF Idle, Does

(* The invariant after a return, from what the caller that goes on changes.  *)
LEMMA Returned ==
  ASSUME IInv, NEW c \in Callers, Return(c), NEW o \in Ops, op' = [op EXCEPT ![c] = o],
         o = Idle \/ (o.step # "idle" /\ o.cmd \in Commands),
         o.fresh = FALSE \/ o.fresh = op[c].fresh,
         lock' \in Int, interval' \in BOOLEAN, interval' => wanted, wanted' = wanted,
         LockInv', info' \in [Names -> Args],
         \A n \in Names : info'[n] # info[n] =>
           /\ info'[n].board = board /\ (info'[n].name = n \/ late \/ torn)
           /\ conn # "none"
  PROVE  IInv'
<1>1. /\ req[c].pc \in {"resolved", "rejected"}
      /\ req' \in [Callers -> Reqs] /\ req'[c] = NoRequest
      /\ \A d \in Callers : d # c => req'[d] = req[d]
      /\ UNCHANGED <<board, conn, cli, wire, chain, pending, late, torn, calls, cut>>
      /\ op \in [Callers -> Ops]
  BY ReturnFacts
<1>2. queue' \in Seq(Callers) /\ QueueInv' /\ ChainInv' /\ MutexInv'
  BY ReturnQueue
<1>3. op' \in [Callers -> Ops] /\ op'[c] = o /\ \A d \in Callers : d # c => op'[d] = op[d]
  BY <1>1
<1>4. Types'
  BY <1>1, <1>2, <1>3 DEF IInv, Types
<1>5. CallerInv'
  BY <1>1, <1>3, IdleFacts DEF IInv, CallerInv, NoRequest
<1>6. GoneInv'
  BY <1>1 DEF IInv, GoneInv, InFlight, NoRequest
<1>7. PendingInv'
  <2>1. ASSUME NEW cmd \in Commands, pending[cmd] # Nobody
        PROVE  req'[pending[cmd]].pc = "awaiting" /\ req'[pending[cmd]].cmd = cmd
    <3>1. /\ pending[cmd] \in Callers
          /\ req[pending[cmd]].pc = "awaiting" /\ req[pending[cmd]].cmd = cmd
      BY <2>1 DEF IInv, PendingInv, Types
    <3> QED BY <1>1, <3>1
  <2>2. \A d \in Callers : req'[d].pc = "awaiting" => d # c /\ req'[d] = req[d]
    BY <1>1 DEF NoRequest
  <2> QED BY <1>1, <2>1, <2>2 DEF IInv, PendingInv
<1>8. WireInv'
  BY <1>1 DEF IInv, WireInv, Info, InFlight
<1>9. InfoInv'
  BY <1>1, <1>3 DEF IInv, InfoInv, NoRequest
<1>10. SettingsNamed'
  BY <1>1 DEF IInv, SettingsNamed
<1>11. StartInv' /\ StoppedStays'
  BY <1>3 DEF IInv, StartInv, StoppedStays
<1> QED BY <1>2, <1>4, <1>5, <1>6, <1>7, <1>8, <1>9, <1>10, <1>11 DEF IInv

LEMMA EditorReturns ==
  ASSUME IInv, NEW c \in Editors, Return(c), EditorGoesOn(c)
  PROVE  IInv'
<1>1. c \in Callers /\ c \notin Lockers
  BY CallerFacts
<1>2. /\ req[c].pc \in {"resolved", "rejected"} /\ req[c].cmd = op[c].cmd /\ op[c].step = "go"
      /\ op[c] \in Ops /\ op \in [Callers -> Ops] /\ UNCHANGED cut
  BY <1>1, ReturnFacts
<1>3. lock' = lock /\ interval' = interval /\ wanted' = wanted
  BY DEF EditorGoesOn, polling
<1>4. /\ lock \in Int /\ interval \in BOOLEAN /\ (interval => wanted)
      /\ info \in [Names -> Args] /\ req[c].arg \in Args /\ LockInv
  BY <1>1 DEF IInv, Types, StoppedStays, Reqs
<1>5. CASE req[c].cmd = "info" /\ req[c].pc = "resolved"
  <2> DEFINE o == [op[c] EXCEPT !.cmd = "set", !.arg = req[c].arg]
  <2>1. /\ info' = [info EXCEPT ![op[c].arg.name] = req[c].arg] /\ op' = [op EXCEPT ![c] = o]
    BY <1>1, <1>2, <1>5 DEF EditorGoesOn
  <2>2. o \in Ops /\ o.step = "go" /\ o.cmd = "set" /\ o.fresh = op[c].fresh
    BY <1>2, <1>4 DEF Ops, Commands
  <2> HIDE DEF o
  <2>3. /\ req[c].arg.board = board /\ (req[c].arg.name = op[c].arg.name \/ late \/ torn)
    BY <1>1, <1>5 DEF IInv, InfoInv
  <2>4. conn # "none"
    BY <1>1, <1>5 DEF IInv, GoneInv
  <2>5. /\ info' \in [Names -> Args]
        /\ \A n \in Names : info'[n] # info[n] =>
             info'[n].board = board /\ (info'[n].name = n \/ late \/ torn) /\ conn # "none"
    BY <1>4, <2>1, <2>3, <2>4
  <2>6. LockInv'
    <3>1. \A d \in Lockers : op'[d].step = "idle" <=> op[d].step = "idle"
      BY <1>1, <1>2, <2>1, CallerFacts
    <3> QED BY <1>2, <1>3, <1>4, <3>1, LockKeeps
  <2>7. o.cmd \in Commands
    BY <2>2 DEF Commands
  <2> QED BY <1>1, <1>3, <1>4, <2>1, <2>2, <2>5, <2>6, <2>7, Returned
<1>6. CASE ~(req[c].cmd = "info" /\ req[c].pc = "resolved")
  <2>1. info' = info /\ op' = [op EXCEPT ![c] = Idle]
    BY <1>6 DEF EditorGoesOn
  <2>2. LockInv'
    <3>1. \A d \in Lockers : op'[d].step = "idle" <=> op[d].step = "idle"
      BY <1>1, <1>2, <2>1, CallerFacts
    <3> QED BY <1>2, <1>3, <1>4, <3>1, LockKeeps
  <2> QED BY <1>1, <1>3, <1>4, <2>1, <2>2, IdleFacts, Returned
<1> QED BY <1>5, <1>6

LEMMA LockerReturns ==
  ASSUME IInv, NEW c \in Lockers, Return(c), LockerGoesOn(c)
  PROVE  IInv'
<1>1. c \in Callers
  BY CallerFacts
<1>2. /\ op[c].step = "go" /\ op \in [Callers -> Ops] /\ UNCHANGED cut
  BY <1>1, ReturnFacts
<1>3. /\ op' = [op EXCEPT ![c] = Idle] /\ lock' = lock - 1 /\ info' = info
      /\ interval' = interval /\ wanted' = wanted
  BY DEF LockerGoesOn, polling
<1>4. /\ lock \in Int /\ interval \in BOOLEAN /\ (interval => wanted)
      /\ info \in [Names -> Args] /\ LockInv
  BY DEF IInv, Types, StoppedStays
<1>5. LockInv'
  <2>1. Locking' = Locking \ {c} /\ c \in Locking
    BY <1>1, <1>2, <1>3, IdleFacts, CallerFacts DEF Locking
  <2>2. IsFiniteSet(Locking)
    BY CallerFacts, FS_Subset DEF Locking
  <2>3. Cardinality(Locking') = Cardinality(Locking) - 1
    BY <2>1, <2>2, FS_RemoveElement
  <2> QED BY <1>2, <1>3, <1>4, <2>3 DEF LockInv
<1>6. lock' \in Int /\ info' \in [Names -> Args]
  BY <1>3, <1>4
<1> QED BY <1>1, <1>3, <1>4, <1>5, <1>6, IdleFacts, Returned

(* A poll or a start-up that returns is no command: the lock stays.          *)
LEMMA OtherReturns ==
  ASSUME IInv, NEW c \in Pollers \cup Starters, Return(c), NEW o \in Ops, op' = [op EXCEPT ![c] = o],
         o = Idle \/ (o.step # "idle" /\ o.cmd \in Commands),
         o.fresh = FALSE \/ o.fresh = op[c].fresh,
         lock' = lock, info' = info, wanted' = wanted,
         interval' \in BOOLEAN, interval' => wanted
  PROVE  IInv'
<1>1. c \in Callers /\ c \notin Lockers
  BY CallerFacts
<1>2. op \in [Callers -> Ops] /\ UNCHANGED cut
  BY <1>1, ReturnFacts
<1>3. lock' \in Int /\ info' \in [Names -> Args]
  BY DEF IInv, Types
<1>4. LockInv'
  <2>1. \A d \in Lockers : op'[d].step = "idle" <=> op[d].step = "idle"
    BY <1>1, <1>2, CallerFacts
  <2> QED BY <1>2, <2>1, LockKeeps DEF IInv
<1> QED BY <1>1, <1>3, <1>4, Returned

LEMMA PollerReturns ==
  ASSUME IInv, NEW c \in Pollers, Return(c), PollerGoesOn(c)
  PROVE  IInv'
<1>1. c \in Callers
  BY CallerFacts
<1>2. op[c] \in Ops /\ op[c].cmd \in Commands
  BY <1>1, ReturnFacts DEF IInv, CallerInv
<1>3. /\ lock' = lock /\ info' = info /\ wanted' = wanted /\ interval' = interval
      /\ interval' \in BOOLEAN /\ (interval' => wanted)
  BY DEF PollerGoesOn, polling, IInv, Types, StoppedStays
<1>4. CASE op' = [op EXCEPT ![c] = Idle]
  BY <1>3, <1>4, IdleFacts, OtherReturns
<1>5. CASE op' = [op EXCEPT ![c].step = "delay", ![c].left = @ - 1]
  <2> DEFINE o == [op[c] EXCEPT !.step = "delay", !.left = @ - 1]
  <2>1. op' = [op EXCEPT ![c] = o]
    BY <1>5
  <2>2. o \in Ops /\ o.step = "delay" /\ o.cmd = op[c].cmd /\ o.fresh = op[c].fresh
    <3>1. op[c].left - 1 \in Int
      BY <1>2 DEF Ops
    <3>2. o = [op[c] EXCEPT !.step = "delay", !.left = op[c].left - 1]
      BY <1>2 DEF Ops
    <3>3. o \in Ops
      BY <1>2, <3>1, <3>2 DEF Ops
    <3>4. o.fresh = op[c].fresh
      BY <1>2, <3>2 DEF Ops
    <3> QED BY <1>2, <3>2, <3>3, <3>4 DEF Ops
  <2> HIDE DEF o
  <2> QED BY <1>2, <1>3, <2>1, <2>2, OtherReturns
<1> QED BY <1>4, <1>5 DEF PollerGoesOn

LEMMA StarterReturns ==
  ASSUME IInv, NEW c \in Starters, Return(c), StarterGoesOn(c)
  PROVE  IInv'
<1>1. c \in Callers
  BY CallerFacts
<1>2. op[c] \in Ops /\ op[c].cmd \in Commands
  BY <1>1, ReturnFacts DEF IInv, CallerInv
<1>3. lock' = lock /\ info' = info /\ wanted' = wanted
  BY DEF StarterGoesOn
<1>4. interval' \in BOOLEAN /\ (interval' => wanted)
  <2>1. interval' = interval \/ interval' = (interval \/ op[c].fresh)
    BY DEF StarterGoesOn
  <2>2. interval \in BOOLEAN /\ (interval => wanted) /\ (op[c].fresh => wanted)
    BY <1>1 DEF IInv, Types, StoppedStays, StartInv
  <2>3. op[c].fresh \in BOOLEAN
    BY <1>2 DEF Ops
  <2> QED BY <2>1, <2>2, <2>3
<1>5. CASE op' = [op EXCEPT ![c] = Idle]
  BY <1>3, <1>4, <1>5, IdleFacts, OtherReturns
<1>6. CASE op' = [op EXCEPT ![c].cmd = "boxes", ![c].left = Attempts]
  <2> DEFINE o == [op[c] EXCEPT !.cmd = "boxes", !.left = Attempts]
  <2>1. op' = [op EXCEPT ![c] = o]
    BY <1>6
  <2>2. op[c].step = "go"
    BY <1>1, ReturnFacts
  <2>3. o \in Ops /\ o.step = "go" /\ o.cmd \in Commands /\ o.fresh = op[c].fresh
    <3>1. Attempts \in Int
      BY MspAssumption
    <3>2. o \in Ops
      BY <1>2, <3>1 DEF Ops, Commands
    <3>3. o.fresh = op[c].fresh
      BY <1>2 DEF Ops
    <3> QED BY <1>2, <2>2, <3>2, <3>3 DEF Ops, Commands
  <2> HIDE DEF o
  <2> QED BY <1>3, <1>4, <2>1, <2>3, OtherReturns
<1>7. CASE op' = [op EXCEPT ![c].step = "delay", ![c].left = @ - 1]
  <2> DEFINE o == [op[c] EXCEPT !.step = "delay", !.left = @ - 1]
  <2>1. op' = [op EXCEPT ![c] = o]
    BY <1>7
  <2>2. o \in Ops /\ o.step = "delay" /\ o.cmd = op[c].cmd /\ o.fresh = op[c].fresh
    <3>1. op[c].left - 1 \in Int
      BY <1>2 DEF Ops
    <3>2. o = [op[c] EXCEPT !.step = "delay", !.left = op[c].left - 1]
      BY <1>2 DEF Ops
    <3>3. o \in Ops
      BY <1>2, <3>1, <3>2 DEF Ops
    <3>4. o.fresh = op[c].fresh
      BY <1>2, <3>2 DEF Ops
    <3> QED BY <1>2, <3>2, <3>3, <3>4 DEF Ops
  <2> HIDE DEF o
  <2> QED BY <1>2, <1>3, <1>4, <2>1, <2>2, OtherReturns
<1> QED BY <1>5, <1>6, <1>7 DEF StarterGoesOn

LEMMA MicrotaskGood == IInv /\ Microtask => IInv'
<1> SUFFICES ASSUME IInv, NEW c \in Callers, Step(c)
             PROVE  IInv'
  BY DEF Microtask
<1>1. CASE Issue(c)
  BY <1>1, IssueGood
<1>2. CASE Begin(c)
  BY <1>2, BeginGood
<1>3. CASE Return(c)
  BY <1>3, EditorReturns, LockerReturns, PollerReturns, StarterReturns DEF Return
<1> QED BY <1>1, <1>2, <1>3 DEF Step

-----------------------------------------------------------------------------
(* The connection.                                                           *)

(* There is a chain nobody waits on.                                         *)
LEMMA NewChainFact ==
  ASSUME Types
  PROVE  NewChain \in Nat
<1> DEFINE f == [i \in 1 .. Len(queue) |-> req[queue[i]].chain]
           S == {f[i] : i \in 1 .. Len(queue)}
<1>1. queue \in Seq(Callers) /\ Len(queue) \in Nat /\ DOMAIN queue = 1 .. Len(queue)
  BY DEF Types
<1>2. IsFiniteSet(1 .. Len(queue)) /\ Cardinality(1 .. Len(queue)) = Len(queue)
  BY <1>1, FS_Interval
<1>3. IsFiniteSet(S) /\ Cardinality(S) <= Len(queue)
  <2>1. f \in Surjection(1 .. Len(queue), S)
    BY DEF Surjection
  <2> HIDE DEF f, S
  <2> QED BY <1>2, <2>1, FS_Surjection
<1>4. Cardinality(0 .. Len(queue)) = Len(queue) + 1
  BY <1>1, FS_Interval
<1>5. PICK n \in 0 .. Len(queue) : n \notin S
  <2> SUFFICES ASSUME 0 .. Len(queue) \subseteq S
               PROVE  FALSE
    OBVIOUS
  <2>1. Cardinality(0 .. Len(queue)) <= Cardinality(S) /\ Cardinality(S) \in Nat
    BY <1>3, FS_Subset, FS_CardinalityType
  <2> HIDE DEF S
  <2> QED BY <1>1, <1>3, <1>4, <2>1
<1>6. \A i \in DOMAIN queue : req[queue[i]].chain # n
  BY <1>1, <1>5
<1>7. NewChain \in 0 .. Len(queue)
  BY <1>6 DEF NewChain
<1> QED BY <1>1, <1>7

(* A connection is cleaned up.  When no request in flight is left behind the *)
(* mutex, pending and the wire agree again.                                  *)
LEMMA CleanupGood == IInv /\ Cleanup => IInv'
<1> SUFFICES ASSUME IInv, Cleanup
             PROVE  IInv'
  OBVIOUS
<1>1. /\ Quiet /\ conn' = "none" /\ cli' = "off" /\ wire' = <<>> /\ late' = FALSE
      /\ pending' = [cmd \in Commands |-> Nobody]
      /\ chain' = NewChain /\ lock' = 0
      /\ cut' = (\E c \in Lockers : op[c] # Idle)
      /\ info' = [n \in Names |-> None] /\ Stops
      /\ UNCHANGED <<board, queue, calls>>
  BY DEF Cleanup, Clear
<1>2. torn' = \E c \in Callers \ Expecting : req[c].pc \in {"writing", "awaiting"}
  BY DEF Cleanup, Clear
<1>3. req \in [Callers -> Reqs]
  BY DEF IInv, Types
<1>4. req' = [c \in Callers |-> IF c \in Expecting THEN [req[c] EXCEPT !.pc = "rejected"]
                               ELSE req[c]]
  BY DEF Cleanup, Clear
<1>5. /\ req' \in [Callers -> Reqs]
      /\ \A c \in Callers : /\ req'[c].cmd = req[c].cmd /\ req'[c].arg = req[c].arg
                            /\ \/ req'[c].pc = req[c].pc
                               \/ req'[c].pc = "rejected" /\ req[c].pc = "awaiting"
  <2>1. \A c \in Expecting : req[c].pc = "awaiting"
    BY CallerFacts DEF IInv, PendingInv, Expecting
  <2> QED BY <1>3, <1>4, <2>1 DEF Reqs
<1>6. \A c \in Callers : req'[c].pc # "resolved"
  BY <1>1, <1>5 DEF Quiet
<1>7. ~torn' => \A c \in Callers : ~InFlight(c)'
  <2> SUFFICES ASSUME ~torn', NEW c \in Callers
               PROVE  ~InFlight(c)'
    OBVIOUS
  <2>1. CASE c \in Expecting
    <3>1. req[c] \in Reqs /\ req'[c] = [req[c] EXCEPT !.pc = "rejected"]
      BY <1>3, <1>4, <2>1
    <3> QED BY <3>1 DEF Reqs, InFlight
  <2>2. CASE c \notin Expecting
    BY <1>2, <1>4, <2>2 DEF InFlight
  <2> QED BY <2>1, <2>2
<1>8. /\ wanted' = FALSE /\ interval' = FALSE /\ op' = Overtaken
  BY <1>1 DEF Stops
<1>9. /\ op' \in [Callers -> Ops]
      /\ \A d \in Callers : Stays(d) /\ op'[d].fresh = FALSE
  BY <1>8, OvertakenFacts DEF IInv, Stays
<1>10. Types'
  <2>1. /\ wire' \in Seq(Messages) /\ Len(wire') = 0 /\ MaxWire \in Nat
    BY <1>1, MspAssumption
  <2>2. /\ pending' \in [Commands -> Callers \cup {Nobody}] /\ info' \in [Names -> Args]
        /\ cut' \in BOOLEAN /\ late' \in BOOLEAN /\ torn' \in BOOLEAN
    BY <1>1, <1>2, DataFacts
  <2>3. board' \in 1 .. MaxBoards /\ queue' \in Seq(Callers) /\ calls' \in 0 .. MaxCalls
    BY <1>1 DEF IInv, Types
  <2>4. interval' \in BOOLEAN /\ wanted' \in BOOLEAN
    BY <1>8
  <2>5. conn' \in {"none", "open", "closed"} /\ cli' \in {"off", "entering", "on"} /\ lock' \in Int
    BY <1>1
  <2>6. Len(wire') <= MaxWire
    BY <2>1
  <2>7. req' \in [Callers -> Reqs] /\ op' \in [Callers -> Ops] /\ chain' \in Nat
    BY <1>1, <1>5, <1>9, NewChainFact DEF IInv
  <2> QED BY <2>1, <2>2, <2>3, <2>4, <2>5, <2>6, <2>7 DEF Types
<1>11. CallerInv'
  BY <1>5, <1>9 DEF IInv, CallerInv, Stays
<1>12. QueueInv' /\ ChainInv' /\ MutexInv'
  <2>1. \A i \in DOMAIN queue : queue[i] \in Callers
    BY DEF IInv, Types
  <2>2. QueueInv'
    BY <1>1, <1>5, <2>1 DEF IInv, QueueInv
  <2>3. MutexInv'
    BY <1>1, <1>7 DEF MutexInv
  <2>4. \A c \in Callers : (InFlight(c)' => InFlight(c)) /\ req'[c].chain = req[c].chain
    BY <1>3, <1>4, <1>5 DEF InFlight, Reqs
  <2>5. ChainInv'
    BY <1>1, <2>1, <2>4 DEF IInv, ChainInv, InFlight
  <2> QED BY <2>2, <2>3, <2>5
<1>13. GoneInv'
  BY <1>1, <1>6, <1>7 DEF GoneInv
<1>14. PendingInv'
  BY <1>1, <1>7 DEF PendingInv, InFlight
<1>15. WireInv' /\ SettingsNamed'
  BY <1>1 DEF WireInv, Info, SettingsNamed
<1>16. InfoInv'
  <2> SUFFICES ASSUME NEW c \in Callers, req'[c].cmd = "info"
               PROVE  req'[c].pc \in {"queued", "writing", "awaiting"} => req'[c].arg = op'[c].arg
    BY <1>6 DEF InfoInv
  <2> QED BY <1>5, <1>9 DEF IInv, InfoInv, Stays
<1>17. LockInv'
  <2>1. ASSUME ~cut' PROVE Locking' = {}
    BY <1>1, <1>9, <2>1, IdleFacts, CallerFacts DEF Locking, Stays
  <2> QED BY <1>1, <2>1, FS_EmptySet DEF LockInv
<1>18. StartInv' /\ StoppedStays'
  BY <1>8, <1>9 DEF StartInv, StoppedStays
<1> QED BY <1>10, <1>11, <1>12, <1>13, <1>14, <1>15, <1>16, <1>17, <1>18 DEF IInv

LEMMA DropGood == IInv /\ Drop => IInv'
<1> SUFFICES ASSUME IInv, Drop
             PROVE  IInv'
  OBVIOUS
<1>1. /\ conn = "open" /\ conn' = "closed" /\ wire' = <<>>
      /\ UNCHANGED <<board, cli, chain, queue, req, pending, late, torn, op, calls, lock, cut,
                     info, interval, wanted>>
  BY DEF Drop, callers, polling
<1>2. Types'
  <2>1. wire' \in Seq(Messages) /\ Len(wire') = 0 /\ MaxWire \in Nat
    BY <1>1, MspAssumption
  <2> QED BY <1>1, <2>1 DEF IInv, Types
<1>3. CallerInv' /\ QueueInv' /\ ChainInv' /\ MutexInv' /\ GoneInv' /\ PendingInv'
  BY <1>1 DEF IInv, CallerInv, QueueInv, ChainInv, MutexInv, GoneInv, PendingInv, InFlight
<1>4. WireInv' /\ InfoInv' /\ SettingsNamed'
  BY <1>1 DEF IInv, WireInv, Info, InfoInv, SettingsNamed
<1>5. LockInv' /\ StartInv' /\ StoppedStays'
  BY <1>1 DEF IInv, LockInv, Locking, StartInv, StoppedStays
<1> QED BY <1>2, <1>3, <1>4, <1>5 DEF IInv

(* While there is no connection and nothing is left to run, nobody queues.   *)
LEMMA NobodyQueues ==
  ASSUME IInv, ~torn, conn = "none", Quiet
  PROVE  queue = <<>>
<1> SUFFICES ASSUME queue # <<>>
             PROVE  FALSE
  OBVIOUS
<1>1. queue \in Seq(Callers) /\ 1 \in DOMAIN queue
  BY DEF IInv, Types
<1>2. queue[1] \in Callers /\ req[queue[1]].pc # "none" /\ req[queue[1]] \in Reqs
  BY <1>1 DEF IInv, QueueInv, Types
<1>3. req[queue[1]].pc = "queued"
  BY <1>2 DEF Quiet, IInv, GoneInv, InFlight, Reqs
<1>4. Holds(queue[1])
  BY <1>1 DEF Holds
<1> QED BY <1>2, <1>3, <1>4 DEF Quiet

LEMMA ConnectGood == IInv /\ Connect => IInv'
<1> SUFFICES ASSUME IInv, Connect
             PROVE  IInv'
  OBVIOUS
<1>1. /\ Quiet /\ conn' = "open" /\ cli' = "off" /\ wire' = <<>>
      /\ UNCHANGED <<chain, queue, req, pending, late, torn, lock, cut, info>>
      /\ \/ conn = "closed" /\ board' = board
         \/ conn = "none" /\ board' \in 1 .. MaxBoards
  BY DEF Connect
<1>2. ~torn /\ conn = "none" => queue = <<>>
  BY <1>1, NobodyQueues
<1>3. /\ op' \in [Callers -> Ops] /\ calls' \in 0 .. MaxCalls
      /\ interval' \in BOOLEAN /\ wanted' \in BOOLEAN
      /\ \A d \in Callers : Stays(d) \/ GoesOn(d)
      /\ \A d \in Lockers : op'[d].step = "idle" <=> op[d].step = "idle"
      /\ StartInv' /\ StoppedStays'
  <2>1. CASE \E c \in Starters : Starts(c)
    BY <2>1, StartsFacts DEF StartInv, StoppedStays
  <2>2. CASE UNCHANGED <<op, calls, polling>>
    BY <2>2 DEF polling, IInv, Types, Stays, StartInv, StoppedStays
  <2> QED BY <2>1, <2>2 DEF Connect
<1>4. Types'
  <2>1. wire' \in Seq(Messages) /\ Len(wire') = 0 /\ MaxWire \in Nat
    BY <1>1, MspAssumption
  <2>2. board' \in 1 .. MaxBoards
    BY <1>1 DEF IInv, Types
  <2> QED BY <1>1, <1>3, <2>1, <2>2 DEF IInv, Types
<1>5. CallerInv'
  BY <1>1, <1>3 DEF IInv, CallerInv, Stays, GoesOn
<1>6. QueueInv' /\ ChainInv' /\ MutexInv'
  <2>1. ~torn => \A i \in DOMAIN queue : req[queue[i]].chain = chain
    BY <1>1, <1>2 DEF IInv, MutexInv
  <2> QED BY <1>1, <2>1 DEF IInv, QueueInv, ChainInv, MutexInv, InFlight
<1>7. GoneInv' /\ PendingInv'
  BY <1>1 DEF IInv, GoneInv, PendingInv
<1>8. WireInv' /\ SettingsNamed'
  BY <1>1 DEF IInv, WireInv, Info, SettingsNamed, GoneInv
<1>9. InfoInv'
  <2>1. \A c \in Callers : req[c].pc # "resolved"
    BY <1>1 DEF Quiet
  <2> QED BY <1>1, <1>3, <2>1 DEF IInv, InfoInv, Stays, GoesOn
<1>10. LockInv'
  BY <1>1, <1>3, LockKeeps DEF IInv
<1> QED BY <1>3, <1>4, <1>5, <1>6, <1>7, <1>8, <1>9, <1>10 DEF IInv

-----------------------------------------------------------------------------
(* The theorems.                                                             *)

LEMMA StutterGood == IInv /\ UNCHANGED vars => IInv'
<1> SUFFICES ASSUME IInv, UNCHANGED vars
             PROVE  IInv'
  OBVIOUS
<1>1. UNCHANGED <<board, conn, cli, wire, chain, queue, req, pending, late, torn, op, calls,
                  lock, cut, info, interval, wanted>>
  BY DEF vars, link, requests, callers, polling
<1>2. Types' /\ CallerInv' /\ QueueInv' /\ ChainInv' /\ MutexInv' /\ GoneInv'
  BY <1>1 DEF IInv, Types, CallerInv, QueueInv, ChainInv, MutexInv, GoneInv, InFlight
<1>3. PendingInv' /\ WireInv' /\ InfoInv' /\ SettingsNamed'
  BY <1>1 DEF IInv, PendingInv, WireInv, Info, InfoInv, SettingsNamed, InFlight
<1>4. LockInv' /\ StartInv' /\ StoppedStays'
  BY <1>1 DEF IInv, LockInv, Locking, StartInv, StoppedStays
<1> QED BY <1>2, <1>3, <1>4 DEF IInv

LEMMA StepGood == IInv /\ [Next]_vars => IInv'
<1> SUFFICES ASSUME IInv, [Next]_vars
             PROVE  IInv'
  OBVIOUS
<1>1. CASE Microtask
  BY <1>1, MicrotaskGood
<1>2. CASE Settles
  BY <1>2, WriteDoneGood, TimeoutGood, DelayOverGood DEF Settles
<1>3. CASE Receive
  BY <1>3, ReceiveGood
<1>4. CASE \E c \in Editors, n \in Names : SetSetting(c, n)
  BY <1>4, SetSettingGood
<1>5. CASE \E c \in Lockers : TakeConfigLock(c)
  BY <1>5, TakeConfigLockGood
<1>6. CASE \E c \in Pollers : PollTick(c)
  BY <1>6, PollTickGood
<1>7. CASE \E c \in Starters : StartTelemetry(c)
  BY <1>7, StartTelemetryGood
<1>8. CASE StopTelemetry
  BY <1>8, StopTelemetryGood
<1>9. CASE EnterCli \/ CliPrompt \/ ExitCli
  BY <1>9, CliGood
<1>10. CASE Cleanup
  BY <1>10, CleanupGood
<1>11. CASE Drop
  BY <1>11, DropGood
<1>12. CASE Connect
  BY <1>12, ConnectGood
<1>13. CASE UNCHANGED vars
  BY <1>13, StutterGood
<1> QED BY <1>1, <1>2, <1>3, <1>4, <1>5, <1>6, <1>7, <1>8, <1>9, <1>10, <1>11, <1>12, <1>13 DEF Next

(* A poll that was not under way is started by a tick and by nothing else.   *)
LEMMA OnlyTicksPoll ==
  ASSUME IInv, Next, NEW p \in Pollers, op[p] = Idle, op'[p] # Idle
  PROVE  PollTick(p)
<1>1. /\ p \in Callers /\ p \notin Editors /\ p \notin Lockers /\ p \notin Starters
      /\ op \in [Callers -> Ops] /\ op[p].step = "idle"
  BY CallerFacts, IdleFacts DEF IInv, Types
<1>2. ASSUME NEW c \in Callers, Step(c)
      PROVE  FALSE
  <2>1. ~(op' = op)
    OBVIOUS
  <2>2. Return(c)
    BY <1>2, <2>1 DEF Step, Issue, Begin, callers
  <2>3. op[c].step = "go" /\ c # p
    BY <1>1, <2>2, ReturnFacts
  <2> QED BY <1>1, <2>2, <2>3
          DEF Return, EditorGoesOn, LockerGoesOn, PollerGoesOn, StarterGoesOn
<1>3. ASSUME Settles
      PROVE  FALSE
  <2>1. PICK c \in Callers : WriteDone(c) \/ Timeout(c) \/ DelayOver(c)
    BY <1>3 DEF Settles
  <2>2. CASE WriteDone(c) \/ Timeout(c)
    BY <2>2 DEF WriteDone, Timeout, callers
  <2>3. CASE DelayOver(c)
    BY <1>1, <2>3 DEF DelayOver
  <2> QED BY <2>1, <2>2, <2>3
<1>4. ~Receive /\ ~Drop
  BY DEF Receive, Drop, callers
<1>5. ASSUME NEW c \in Editors, NEW n \in Names, SetSetting(c, n)
      PROVE  FALSE
  BY <1>1, <1>5 DEF SetSetting
<1>6. ASSUME NEW c \in Lockers, TakeConfigLock(c)
      PROVE  FALSE
  BY <1>1, <1>6 DEF TakeConfigLock
<1>7. ASSUME NEW c \in Pollers, PollTick(c)
      PROVE  PollTick(p)
  BY <1>1, <1>7 DEF PollTick
<1>8. ASSUME NEW c \in Starters, Starts(c)
      PROVE  FALSE
  BY <1>1, <1>8, StartsFacts DEF Stays
<1>9. ~Stops
  BY <1>1, OvertakenFacts DEF Stops, IInv
<1>10. op' # op
  OBVIOUS
<1>11. ~(StopTelemetry \/ EnterCli \/ ExitCli \/ Cleanup)
  BY <1>9 DEF StopTelemetry, EnterCli, ExitCli, Cleanup, Clear
<1>12. ~(CliPrompt \/ Connect \/ \E c \in Starters : StartTelemetry(c))
  BY <1>8, <1>10 DEF CliPrompt, Connect, StartTelemetry
<1> QED BY <1>2, <1>3, <1>4, <1>5, <1>6, <1>7, <1>11, <1>12 DEF Next, Microtask

(* The lock is zero or below only when no command holds it, or one was cut   *)
(* off.                                                                      *)
LEMMA TicksPause ==
  ASSUME IInv, NEW p \in Pollers, PollTick(p)
  PROVE  cut \/ \A c \in Lockers : op[c] = Idle
<1>1. lock <= 0 /\ lock \in Int
  BY DEF PollTick, IInv, Types
<1>2. IsFiniteSet(Locking)
  BY CallerFacts, FS_Subset DEF Locking
<1>3. ~cut => Locking = {}
  <2>1. Cardinality(Locking) \in Nat
    BY <1>2, FS_CardinalityType
  <2>2. ~cut => Cardinality(Locking) = 0
    BY <1>1, <2>1 DEF IInv, LockInv
  <2> QED BY <1>2, <2>2, FS_EmptySet
<1> QED BY <1>3, CallerFacts DEF Locking, IInv, CallerInv

(* The invariant holds, whatever requests a cleanup leaves behind.           *)
THEOREM MspInvariance == Spec => []IInv
<1>1. Init => IInv
  BY InitGood
<1>2. IInv /\ [Next]_vars => IInv'
  BY StepGood
<1> QED BY <1>1, <1>2, PTL DEF Spec

(* The state keeps its types, and pending holds requests that await a reply. *)
THEOREM MspTypeCorrect == Spec => []TypeOK
<1>1. IInv => TypeOK
  BY DEF IInv, Types, QueueInv, PendingInv, TypeOK, IsInjective, ToSet
<1> QED BY <1>1, MspInvariance, PTL

(* One request of a chain is on the wire at a time; of all chains together   *)
(* unless the last cleanup left a request in flight.                         *)
THEOREM OneAtATime == Spec => []OneInFlight
<1>1. IInv => OneInFlight
  <2> SUFFICES ASSUME IInv PROVE OneInFlight
    OBVIOUS
  <2> DEFINE S == {c \in Callers : req[c].pc \in {"writing", "awaiting"}}
  <2>1. ASSUME NEW c \in S, NEW d \in S, req[c].chain = req[d].chain
        PROVE  c = d
    <3>1. PICK i \in DOMAIN queue, j \in DOMAIN queue : queue[i] = c /\ queue[j] = d
      BY DEF IInv, ChainInv, InFlight
    <3>2. i \in Int /\ j \in Int /\ InFlight(queue[i]) /\ InFlight(queue[j])
      BY <3>1 DEF IInv, Types, InFlight
    <3>3. ~(i < j) /\ ~(j < i)
      BY <2>1, <3>1, <3>2 DEF IInv, ChainInv
    <3> QED BY <3>1, <3>2, <3>3
  <2>2. ASSUME ~torn
        PROVE  Cardinality(S) <= 1
    <3>1. \A c \in S : queue[1] = c
      BY <2>2 DEF IInv, MutexInv, InFlight
    <3>2. S = {} \/ S = {queue[1]}
      BY <3>1
    <3>3. Cardinality(S) = 0 \/ Cardinality(S) = 1
      BY <3>2, FS_EmptySet, FS_Singleton
    <3> QED BY <3>3
  <2> QED BY <2>1, <2>2 DEF OneInFlight
<1> QED BY <1>1, MspInvariance, PTL

(* Metadata are cached under the name they were asked for, and of the board  *)
(* that is connected; of another name only once a request for metadata was   *)
(* given up, or the last cleanup left one in flight.                         *)
THEOREM NamedInTime == Spec => []SettingsNamed
BY MspInvariance, PTL DEF IInv

(* Telemetry that was stopped is not polled again by a start-up that was     *)
(* still under way.                                                          *)
THEOREM StopsForGood == Spec => []StoppedStays
BY MspInvariance, PTL DEF IInv

(* No poll starts while a config command is under way that no cleanup cut    *)
(* off.                                                                      *)
THEOREM PausedForCommands == Spec => PollsPause
<1>1. IInv /\ [Next]_vars =>
        [\A p \in Pollers : op[p] = Idle /\ op'[p] # Idle =>
           cut \/ \A c \in Lockers : op[c] = Idle]_vars
  BY OnlyTicksPoll, TicksPause
<1> QED BY <1>1, MspInvariance, PTL DEF Spec, PollsPause
=============================================================================
