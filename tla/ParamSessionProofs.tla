-------------------------- MODULE ParamSessionProofs --------------------------
(***************************************************************************)
(* Proofs about ParamSession, for every set of vehicles and boards, their  *)
(* system ids and parameters, every set of requests and browsers, and every*)
(* number of retries, calls and moves of the focus.                        *)
(***************************************************************************)
EXTENDS ParamSession, FiniteSetTheorems, FunctionTheorems, TLAPS

-----------------------------------------------------------------------------
(* The inductive invariant.                                                  *)

Sessions ==
  [received : [Names -> Vehicles \cup {None}], indices : SUBSET Nat,
   expected : Nat, active : BOOLEAN, timer : BOOLEAN, gapFill : BOOLEAN,
   round : SUBSET Nat, retries : 0 .. MaxRetries, stalled : 0 .. MaxStalled,
   progress : Nat, told : {None, "complete"}]

Ops == [pc : {"idle", "asked", "ftp", "list"}, to : Vehicles \cup {None},
        guarded : BOOLEAN, n : 0 .. FtpLen, src : SUBSET (Vehicles \cup {"file"})]

Types ==
  /\ focus \in Vehicles \cup {None} /\ board \in Boards \cup {None}
  /\ slot \in Users \cup {None} /\ saved \in [Browsers -> Users \cup {None}]
  /\ op \in [Users -> Ops]
  /\ \A u \in Users : op[u].pc # "idle" => op[u].to # None

(* What a session t is like: a round asks for indices not seen, and an       *)
(* active download has not stalled too often.                                *)
Sound(t) ==
  /\ t \in Sessions
  /\ IsFiniteSet(t.indices)
  /\ t.round \cap t.indices = {}
  /\ t.gapFill => t.active
  /\ t.active => t.stalled < MaxStalled

(* Every value of t is of one of the vehicles vs.                            *)
Of(t, vs) == \A n \in Names : t.received[n] \in vs \cup {None}

(* The indices seen are vehicle v's.                                         *)
Indexed(t, v) == \A i \in t.indices : i + 1 \in DOMAIN Table[v]

(* The values are of parameters v has, an index that was seen has one, and   *)
(* the count, if any, is that of v.                                          *)
Own(t, v) ==
  /\ \A n \in Names : t.received[n] # None => n \in NamesOf(v)
  /\ \A i \in t.indices : t.received[Table[v][i + 1]] = v
  /\ t.expected \in {0, Len(Table[v])}

(* What t holds when the vehicles hs were focused since the reset; if the    *)
(* values are not leaked, and if there was one vehicle only.                 *)
Held(t, hs, leak) ==
  /\ ~leak => Of(t, hs)
  /\ \A v \in Vehicles : hs = {v} => Indexed(t, v) /\ (~leak => Own(t, v))

(* The vehicles that requests read from have all been focused since the      *)
(* session was reset, but for those under way then.                          *)
Asks(r, hs) == op[r].pc # "idle" => op[r].to \in hs /\ op[r].src \subseteq hs \cup {"file"}

HeardInv ==
  /\ heard \subseteq Vehicles /\ heard # {} /\ focus \in heard \cup {None}
  /\ leaked \in BOOLEAN
  /\ \A r \in Requests \ outlived : Asks(r, heard)
  /\ Held(s, heard, leaked)

IInv == Types /\ Sound(s) /\ HeardInv

-----------------------------------------------------------------------------
(* Facts about the constants and the data.                                   *)

LEMMA DataFacts ==
  /\ None \notin Vehicles /\ None \notin Users /\ Boards \subseteq Vehicles
  /\ Requests \subseteq Users /\ Browsers \subseteq Users
  /\ Idle \in Ops /\ Idle.pc = "idle" /\ Idle.src = {}
  /\ Nothing \in [Names -> Vehicles \cup {None}] /\ \A n \in Names : Nothing[n] = None
BY ParamAssumption DEF Users, Idle, Ops, Nothing

LEMMA TableFacts ==
  ASSUME NEW v \in Vehicles
  PROVE  /\ Len(Table[v]) \in Nat /\ DOMAIN Table[v] = 1 .. Len(Table[v])
         /\ NamesOf(v) \subseteq Names
         /\ \A k \in DOMAIN Table[v] : Table[v][k] \in NamesOf(v)
         /\ \A n \in NamesOf(v) : \E k \in DOMAIN Table[v] : n = Table[v][k]
         /\ IsFiniteSet(NamesOf(v)) /\ Cardinality(NamesOf(v)) \in Nat
         /\ Cardinality(NamesOf(v)) <= Len(Table[v])
<1> DEFINE h == Table[v]
           m == Len(h)
<1>1. h \in Seq(Names)
  BY ParamAssumption
<1>2. m \in Nat /\ DOMAIN h = 1 .. m /\ h \in [1 .. m -> Names]
  BY <1>1
<1>3. /\ NamesOf(v) \subseteq Names
      /\ \A k \in DOMAIN h : h[k] \in NamesOf(v)
      /\ \A n \in NamesOf(v) : \E k \in DOMAIN h : n = h[k]
  BY <1>2 DEF NamesOf, Range
<1>4. IsFiniteSet(1 .. m) /\ Cardinality(1 .. m) = m
  <2>1. IsFiniteSet(1 .. m) /\ Cardinality(1 .. m) = (IF 1 > m THEN 0 ELSE m - 1 + 1)
    BY <1>2, FS_Interval, SMTT(30)
  <2> QED BY <1>2, <2>1
<1> HIDE DEF m, h
<1>5. h \in [1 .. m -> NamesOf(v)]
  BY <1>2, <1>3
<1>6. h \in Surjection(1 .. m, NamesOf(v))
  BY <1>2, <1>3, <1>5, Fun_IsSurj
<1>7. IsFiniteSet(NamesOf(v)) /\ Cardinality(NamesOf(v)) <= m
  BY <1>4, <1>6, FS_Surjection
<1>8. Cardinality(NamesOf(v)) \in Nat
  BY <1>7, FS_CardinalityType
<1> QED BY <1>2, <1>3, <1>7, <1>8 DEF m, h

(* As many names of v as v has parameters are all its names.                 *)
LEMMA AllNames ==
  ASSUME NEW v \in Vehicles, NEW S \in SUBSET NamesOf(v),
         \/ Cardinality(S) >= Len(Table[v])
         \/ Cardinality(S) = Cardinality(NamesOf(v))
  PROVE  S = NamesOf(v)
<1>1. IsFiniteSet(S) /\ Cardinality(S) \in Nat /\ Cardinality(S) <= Cardinality(NamesOf(v))
  BY TableFacts, FS_Subset, FS_CardinalityType
<1>2. Cardinality(S) = Cardinality(NamesOf(v))
  BY <1>1, TableFacts
<1> QED BY <1>2, TableFacts, FS_Subset

(* What a session holds depends on three of its fields.                      *)
LEMMA HeldSame ==
  ASSUME NEW t, NEW t2, NEW hs, NEW leak, Held(t, hs, leak),
         t2.received = t.received, t2.indices = t.indices, t2.expected = t.expected
  PROVE  Held(t2, hs, leak)
BY DEF Held, Of, Indexed, Own

(* A vehicle more makes no difference to what is held.                       *)
LEMMA HeldMore ==
  ASSUME NEW t, NEW hs, NEW leak \in BOOLEAN, NEW v, Held(t, hs, leak), hs # {}
  PROVE  Held(t, hs \cup {v}, leak)
<1>1. ~leak => Of(t, hs \cup {v})
  BY DEF Held, Of
<1>2. ASSUME NEW w \in Vehicles, hs \cup {v} = {w} PROVE hs = {w}
  BY <1>2
<1> QED BY <1>1, <1>2 DEF Held

-----------------------------------------------------------------------------
(* What the steps do to the session.                                         *)

LEMMA EmptyHeld ==
  ASSUME NEW t \in Sessions, t.received = Nothing, t.indices = {}, t.expected = 0
  PROVE  \A hs, leak : Held(t, hs, leak)
BY DataFacts DEF Held, Of, Indexed, Own

LEMMA FreshSound ==
  /\ Sound(Fresh) /\ \A hs, leak : Held(Fresh, hs, leak)
  /\ Sound(Listed) /\ \A hs, leak : Held(Listed, hs, leak)
  /\ Fresh.told = None /\ Listed.told = None
<1>1. Fresh \in Sessions
  BY DataFacts, ParamAssumption DEF Fresh, Sessions
<1>2. Listed \in Sessions
  BY <1>1 DEF Listed, Sessions
<1>3. IsFiniteSet({})
  BY FS_EmptySet
<1>4. /\ Fresh.received = Nothing /\ Fresh.indices = {} /\ Fresh.expected = 0
      /\ Listed.received = Nothing /\ Listed.indices = {} /\ Listed.expected = 0
      /\ Fresh.told = None /\ Listed.told = None
  BY DEF Fresh, Listed
<1>5. Sound(Fresh) /\ Sound(Listed)
  BY <1>1, <1>2, <1>3, ParamAssumption DEF Sound, Fresh, Listed
<1> QED BY <1>1, <1>2, <1>4, <1>5, EmptyHeld

LEMMA ResetSound ==
  ASSUME Sound(s), Reset
  PROVE  Sound(s') /\ (\A hs, leak : Held(s', hs, leak)) /\ s'.told = None
<1>1. s' = [s EXCEPT !.received = Nothing, !.indices = {}, !.expected = 0, !.active = FALSE,
                     !.timer = FALSE, !.gapFill = FALSE, !.round = {}, !.told = None]
  BY DEF Reset
<1>2. s' \in Sessions
  BY <1>1, DataFacts DEF Sound, Sessions
<1>3. /\ s'.received = Nothing /\ s'.indices = {} /\ s'.expected = 0 /\ s'.round = {}
      /\ s'.active = FALSE /\ s'.gapFill = FALSE /\ s'.told = None
  BY <1>1 DEF Sound, Sessions
<1>4. IsFiniteSet({})
  BY FS_EmptySet
<1> QED BY <1>2, <1>3, <1>4, EmptyHeld DEF Sound

(* A parameter of the focused vehicle arrives; if it completes the download  *)
(* of one vehicle, all of that vehicle's have arrived.                       *)
LEMMA ParamValueSound ==
  ASSUME IInv, focus # None, NEW k \in DOMAIN Table[focus], NEW indexed \in BOOLEAN,
         ParamValue(k, indexed)
  PROVE  /\ Sound(s') /\ Held(s', heard, leaked)
         /\ s'.told # s.told /\ ~leaked /\ heard = {focus}
              => \A n \in NamesOf(focus) : s'.received[n] = focus
<1> DEFINE name == Table[focus][k]
           count == Len(Table[focus])
           seen == IF s.active /\ indexed THEN {k - 1} ELSE {}
           t == [s EXCEPT !.received[name] = focus, !.expected = count,
                          !.indices = @ \cup seen, !.round = @ \ seen]
           all == Cardinality(Received(t)) >= count
<1>1. s \in Sessions /\ focus \in Vehicles /\ focus \in heard /\ IsFiniteSet(s.indices)
  BY DEF IInv, Sound, Types, HeardInv
<1>2. /\ name \in Names /\ name \in NamesOf(focus) /\ count \in Nat
      /\ k \in Nat \ {0} /\ k \in DOMAIN Table[focus]
  BY <1>1, TableFacts
<1>3. seen \subseteq Nat /\ seen \subseteq {k - 1} /\ IsFiniteSet(s.indices \cup seen)
  <2>1. k - 1 \in Nat
    BY <1>2
  <2>2. IsFiniteSet(s.indices \cup {k - 1}) /\ s.indices \cup {} = s.indices
    BY <1>1, FS_AddElement
  <2> QED BY <1>1, <2>1, <2>2
<1> HIDE DEF name, count, seen
<1>4. t \in Sessions
  BY <1>1, <1>2, <1>3 DEF Sessions
<1>5. /\ \A n \in Names : t.received[n] = IF n = name THEN focus ELSE s.received[n]
      /\ t.indices = s.indices \cup seen /\ t.round = s.round \ seen /\ t.expected = count
      /\ t.active = s.active /\ t.gapFill = s.gapFill /\ t.told = s.told
      /\ t.stalled = s.stalled
  BY <1>1, <1>2 DEF Sessions
<1>6. Sound(t)
  BY <1>1, <1>3, <1>4, <1>5 DEF IInv, Sound
<1>7. Held(t, heard, leaked)
  <2>1. ~leaked => Of(t, heard)
    BY <1>1, <1>5 DEF IInv, HeardInv, Held, Of
  <2>2. ASSUME NEW v \in Vehicles, heard = {v}
        PROVE  Indexed(t, v) /\ (~leaked => Own(t, v))
    <3>1. v = focus /\ Indexed(s, v) /\ (~leaked => Own(s, v))
      BY <1>1, <2>2 DEF IInv, HeardInv, Held
    <3>2. Indexed(t, v)
      BY <1>2, <1>3, <1>5, <3>1 DEF Indexed
    <3>3. ASSUME ~leaked PROVE Own(t, v)
      <4>1. \A n \in Names : t.received[n] # None => n \in NamesOf(v)
        BY <1>2, <1>5, <3>1, <3>3 DEF Own
      <4>2. ASSUME NEW i \in t.indices PROVE t.received[Table[v][i + 1]] = v
        <5>1. i + 1 \in DOMAIN Table[v]
          BY <3>2 DEF Indexed
        <5>2. Table[v][i + 1] \in Names
          BY <5>1, TableFacts
        <5>3. CASE i \in s.indices
          BY <1>5, <3>1, <3>3, <5>2, <5>3 DEF Own
        <5>4. CASE i \notin s.indices
          <6>1. i = k - 1 /\ i + 1 = k
            BY <1>2, <1>3, <1>5, <5>4
          <6> QED BY <1>5, <3>1, <5>2, <6>1 DEF name
        <5> QED BY <5>3, <5>4
      <4>3. t.expected = Len(Table[v])
        BY <1>5, <3>1 DEF count
      <4> QED BY <4>1, <4>2, <4>3 DEF Own
    <3> QED BY <3>2, <3>3
  <2> QED BY <2>1, <2>2 DEF Held
<1>8. \/ s' = t
      \/ /\ all
         /\ s' = [t EXCEPT !.active = FALSE, !.gapFill = FALSE, !.round = {},
                           !.timer = FALSE, !.told = "complete"]
      \/ \E timer \in BOOLEAN : s' = [t EXCEPT !.timer = timer]
  BY DEF ParamValue, name, count, seen
<1> HIDE DEF t, all
<1>9. CASE s' = t
  BY <1>5, <1>6, <1>7, <1>9
<1>10. CASE /\ all
            /\ s' = [t EXCEPT !.active = FALSE, !.gapFill = FALSE, !.round = {},
                              !.timer = FALSE, !.told = "complete"]
  <2>1. /\ s' \in Sessions /\ s'.received = t.received /\ s'.indices = t.indices
        /\ s'.expected = t.expected /\ s'.active = FALSE /\ s'.gapFill = FALSE
        /\ s'.round = {}
    BY <1>4, <1>10 DEF Sessions
  <2>2. Sound(s') /\ Held(s', heard, leaked)
    BY <1>6, <1>7, <2>1, HeldSame DEF Sound
  <2>3. ASSUME ~leaked, heard = {focus}
        PROVE  \A n \in NamesOf(focus) : s'.received[n] = focus
    <3>1. Own(t, focus) /\ Of(t, {focus})
      BY <1>1, <1>7, <2>3 DEF Held
    <3>2. Received(t) \subseteq NamesOf(focus)
      BY <3>1 DEF Received, Own
    <3>3. Received(t) = NamesOf(focus)
      BY <1>1, <1>10, <3>2, AllNames DEF all, count
    <3> QED BY <2>1, <3>1, <3>3 DEF Of, Received
  <2> QED BY <2>2, <2>3
<1>11. ASSUME NEW timer \in BOOLEAN, s' = [t EXCEPT !.timer = timer]
       PROVE  Sound(s') /\ Held(s', heard, leaked) /\ s'.told = s.told
  <2>1. /\ s' \in Sessions /\ s'.received = t.received /\ s'.indices = t.indices
        /\ s'.expected = t.expected /\ s'.active = t.active /\ s'.gapFill = t.gapFill
        /\ s'.round = t.round /\ s'.told = t.told /\ s'.stalled = t.stalled
    BY <1>4, <1>11 DEF Sessions
  <2> QED BY <1>5, <1>6, <1>7, <2>1, HeldSame DEF Sound
<1> QED BY <1>8, <1>9, <1>10, <1>11

(* Two sessions that hold the same.                                          *)
Alike(t, t2) ==
  t2.received = t.received /\ t2.indices = t.indices /\ t2.expected = t.expected

LEMMA EndedSound ==
  ASSUME Sound(s), NEW told \in {None, "complete"}
  PROVE  /\ Sound(Ended(told)) /\ Alike(s, Ended(told))
         /\ Ended(told).active = FALSE /\ Ended(told).told = told
<1>1. Ended(told) \in Sessions
  BY DEF Ended, Sound, Sessions
<1> QED BY <1>1 DEF Ended, Sound, Sessions, Alike

(* The recovery changes nothing of what the session holds, and ends the      *)
(* download as complete only when every index was seen.                      *)
LEMMA RecoverSound ==
  ASSUME Sound(s), recoverParamDownload
  PROVE  /\ Sound(s') /\ Alike(s, s')
         /\ s'.told \notin {s.told, None} => s.expected # 0 /\ Missing = {}
<1>1. s \in Sessions
  BY DEF Sound
<1>2. ASSUME NEW timer \in BOOLEAN, s' = [s EXCEPT !.timer = timer]
      PROVE  Sound(s') /\ Alike(s, s') /\ s'.told = s.told
  BY <1>1, <1>2 DEF Sound, Sessions, Alike
<1>3. CASE s' = Ended(None)
  BY <1>3, EndedSound DEF None
<1>4. CASE ListAgain
  <2>1. CASE s.retries >= MaxRetries
    BY <1>3, <1>4, <2>1 DEF ListAgain
  <2>2. CASE s.retries < MaxRetries
    <3>1. s' = [s EXCEPT !.timer = FALSE, !.retries = @ + 1]
      BY <1>1, <1>4, <2>2, ParamAssumption DEF ListAgain, Sessions
    <3>2. s.retries + 1 \in 0 .. MaxRetries
      BY <1>1, <2>2, ParamAssumption DEF Sessions
    <3>3. s' \in Sessions
      BY <1>1, <3>1, <3>2 DEF Sessions
    <3> QED BY <1>1, <3>1, <3>3 DEF Sound, Sessions, Alike
  <2> QED BY <1>1, <2>1, <2>2, ParamAssumption DEF Sessions
<1>5. CASE s.active /\ s.expected # 0 /\ GapRound
  <2> DEFINE stalled == IF Cardinality(s.indices) <= s.progress THEN s.stalled + 1 ELSE 0
             progress == Cardinality(s.indices)
             counted(t) == [t EXCEPT !.stalled = stalled, !.progress = progress]
  <2>1. progress \in Nat /\ stalled \in 0 .. MaxStalled
    <3>1. progress \in Nat
      BY FS_CardinalityType DEF Sound
    <3> QED BY <1>1, <1>5, <3>1, ParamAssumption DEF Sound, Sessions
  <2>2. ASSUME NEW told \in {None, "complete"}, s' = counted(Ended(told))
        PROVE  Sound(s') /\ Alike(s, s') /\ s'.told = told
    <3>1. /\ Sound(Ended(told)) /\ Alike(s, Ended(told))
          /\ Ended(told).active = FALSE /\ Ended(told).told = told
      BY EndedSound
    <3> DEFINE e == Ended(told)
    <3>2. s' = [e EXCEPT !.stalled = stalled, !.progress = progress]
      BY <2>2
    <3> HIDE DEF e, stalled, progress
    <3>3. s' \in Sessions
      BY <2>1, <3>1, <3>2 DEF Sound, Sessions, e
    <3> QED BY <3>1, <3>2, <3>3 DEF Sound, Sessions, Alike, e
  <2>3. ASSUME NEW asked \in SUBSET Missing, stalled < MaxStalled,
               s' = [counted(s) EXCEPT !.gapFill = TRUE, !.round = asked, !.timer = TRUE]
        PROVE  Sound(s') /\ Alike(s, s') /\ s'.told = s.told
    <3>1. asked \subseteq Nat /\ asked \cap s.indices = {}
      BY <1>1 DEF Missing, Sessions
    <3> HIDE DEF stalled, progress
    <3>2. s' \in Sessions
      BY <1>1, <2>1, <2>3, <3>1 DEF Sessions
    <3> QED BY <1>1, <1>5, <2>3, <3>1, <3>2 DEF Sound, Sessions, Alike
  <2>4. \/ s' = counted(Ended(None))
        \/ Missing = {} /\ s' = counted(Ended("complete"))
        \/ /\ stalled < MaxStalled
           /\ \E asked \in SUBSET Missing :
                s' = [counted(s) EXCEPT !.gapFill = TRUE, !.round = asked, !.timer = TRUE]
    BY <1>5 DEF GapRound
  <2> HIDE DEF counted, stalled
  <2> QED BY <1>5, <2>2, <2>3, <2>4
<1> QED BY <1>2, <1>3, <1>4, <1>5 DEF recoverParamDownload

-----------------------------------------------------------------------------
(* The focus.                                                                *)

(* The parts of the invariant that a move of the focus leaves to be shown.   *)
LEMMA MoveGood ==
  ASSUME IInv, focus' \in Vehicles \cup {None}, board' \in Boards \cup {None},
         slot' \in {slot, None}, UNCHANGED <<op, saved>>, Sound(s'), HeardInv'
  PROVE  IInv'
BY DEF IInv, Types, Sound

LEMMA RefocusGood ==
  ASSUME IInv, NEW v \in Vehicles \cup {None}, Refocus(v),
         UNCHANGED <<op, s, outlived, leaked>>
  PROVE  HeardInv' /\ Sound(s') /\ focus' \in Vehicles \cup {None}
<1>1. /\ heard' \subseteq Vehicles /\ heard' # {} /\ heard \subseteq heard'
      /\ focus' \in heard' \cup {None}
      /\ heard' = heard \/ heard' = heard \cup {v}
  BY DEF Refocus, IInv, HeardInv
<1>2. \A r \in Requests \ outlived : Asks(r, heard')
  BY <1>1 DEF IInv, HeardInv, Asks
<1>3. Held(s, heard', leaked)
  <2>1. Held(s, heard, leaked) /\ leaked \in BOOLEAN /\ heard # {}
    BY DEF IInv, HeardInv
  <2>2. Held(s, heard \cup {v}, leaked)
    BY <2>1, HeldMore
  <2> QED BY <1>1, <2>1, <2>2
<1>4. HeardInv'
  BY <1>1, <1>2, <1>3 DEF IInv, HeardInv, Asks, Held, Of, Indexed, Own
<1> QED BY <1>4 DEF IInv, Sound, Refocus

(* syncVehicleFocus empties the session or keeps it.                         *)
LEMMA SyncGood ==
  ASSUME IInv, NEW v \in Vehicles, NEW id, syncVehicleFocus(v, id),
         UNCHANGED <<op, saved>>, board' \in Boards \cup {None}
  PROVE  IInv' /\ s'.told \in {s.told, None}
<1>1. CASE /\ Reset
           /\ focus' = v /\ heard' = {v} /\ outlived' = UnderWay /\ leaked' = FALSE
  <2>1. Sound(s') /\ (\A hs, leak : Held(s', hs, leak)) /\ s'.told = None /\ slot' = None
    BY <1>1, ResetSound DEF IInv, Reset
  <2>2. HeardInv'
    <3>1. \A r \in Requests \ outlived' : Asks(r, heard)'
      BY <1>1 DEF UnderWay, Asks
    <3> QED BY <1>1, <2>1, <3>1 DEF HeardInv
  <2> QED BY <1>1, <2>1, <2>2, MoveGood
<1>2. CASE Refocus(v) /\ KeepSession
  <2>1. UNCHANGED <<s, slot, outlived, leaked>>
    BY <1>2 DEF KeepSession
  <2> QED BY <1>2, <2>1, RefocusGood, MoveGood
<1> QED BY <1>1, <1>2 DEF syncVehicleFocus

LEMMA SelectGood ==
  ASSUME IInv, NEW v \in Vehicles, Select(v)
  PROVE  IInv' /\ s'.told \in {s.told, None}
<1>1. UNCHANGED <<op, saved, board>> /\ syncVehicleFocus(v, focusIdentity(v))
  BY DEF Select, Move, Aside
<1> QED BY <1>1, SyncGood DEF IInv, Types

LEMMA LinkGood ==
  ASSUME IInv, LinkCloses \/ Unregister
  PROVE  IInv' /\ s'.told \in {s.told, None}
<1>1. UNCHANGED <<op, saved, board>> /\ board \in Boards \cup {None} /\ Boards \subseteq Vehicles
  BY DataFacts DEF LinkCloses, Unregister, Move, Aside, IInv, Types
<1>2. CASE LinkCloses
  <2>1. Refocus(IF connected THEN board ELSE None) /\ UNCHANGED <<s, slot, outlived, leaked>>
    BY <1>2 DEF LinkCloses, KeepSession
  <2> QED BY <1>1, <2>1, RefocusGood, MoveGood
<1>3. CASE Unregister /\ focus = None
  <2>1. UNCHANGED <<focus, heard, s, slot, outlived, leaked>>
    BY <1>3 DEF Unregister, KeepSession
  <2>2. Refocus(None)
    BY <1>3, <2>1 DEF Refocus
  <2> QED BY <1>1, <2>1, <2>2, RefocusGood, MoveGood
<1>4. CASE Unregister /\ focus # None
  <2>1. syncVehicleFocus(focus, focusIdentity(focus)) /\ focus \in Vehicles
    BY <1>4 DEF Unregister, IInv, Types
  <2> QED BY <1>1, <2>1, SyncGood
<1> QED BY <1>2, <1>3, <1>4

LEMMA PrimaryGood ==
  ASSUME IInv, \/ PrimaryCloses \/ Disconnect
               \/ \E v \in Boards : Connect(v)
  PROVE  IInv' /\ s'.told \in {s.told, None}
<1>1. CASE PrimaryCloses \/ Disconnect
  <2>1. /\ UNCHANGED <<op, saved, s, heard, outlived, leaked>>
        /\ focus' \in {focus, None} /\ board' \in {board, None} /\ slot' \in {slot, None}
    BY <1>1 DEF PrimaryCloses, Disconnect, PrimaryGoes, Move, Aside
  <2>2. HeardInv' /\ Sound(s')
    BY <2>1 DEF IInv, HeardInv, Held, Of, Indexed, Own, Asks, Sound
  <2> QED BY <2>1, <2>2, MoveGood DEF IInv, Types
<1>2. ASSUME NEW v \in Boards, Connect(v) PROVE IInv' /\ s'.told \in {s.told, None}
  <2>1. v \in Vehicles /\ board' = v /\ UNCHANGED <<op, saved>>
    BY <1>2, DataFacts DEF Connect, Aside
  <2>2. CASE UNCHANGED <<focus, identity, heard>> /\ KeepSession
    <3>1. HeardInv' /\ Sound(s') /\ slot' = slot /\ s' = s
      BY <2>1, <2>2 DEF KeepSession, IInv, HeardInv, Held, Of, Indexed, Own, Asks, Sound
    <3> QED BY <2>1, <2>2, <3>1, MoveGood DEF IInv, Types
  <2>3. CASE Refocus(v) /\ KeepSession
    <3>1. UNCHANGED <<s, slot, outlived, leaked>>
      BY <2>3 DEF KeepSession
    <3> QED BY <2>1, <2>3, <3>1, RefocusGood, MoveGood
  <2>4. CASE syncVehicleFocus(v, v)
    BY <2>1, <2>4, SyncGood
  <2> QED BY <1>2, <2>2, <2>3, <2>4 DEF Connect
<1> QED BY <1>1, <1>2

-----------------------------------------------------------------------------
(* The list download.                                                        *)

LEMMA ListingGood ==
  ASSUME IInv, UNCHANGED <<focus, board, calls, heard, outlived, leaked>>,
         Sound(s'), Held(s', heard, leaked)
  PROVE  IInv'
<1>1. Types'
  BY DEF IInv, Types, calls
<1>2. HeardInv'
  BY DEF IInv, HeardInv, Asks, calls
<1> QED BY <1>1, <1>2 DEF IInv, Sound

LEMMA TimerSound ==
  ASSUME Sound(s), s' = [s EXCEPT !.timer = TRUE]
  PROVE  Sound(s') /\ Alike(s, s') /\ s'.told = s.told
BY DEF Sound, Alike, Sessions

LEMMA WriteGood ==
  ASSUME IInv, ResendOver \/ RoundSent
  PROVE  IInv' /\ s'.told = s.told
<1>1. CASE ResendOver
  <2>1. UNCHANGED <<focus, board, calls, heard, outlived, leaked>>
    BY <1>1 DEF ResendOver, history, links
  <2>2. Sound(s') /\ Alike(s, s') /\ s'.told = s.told
    BY <1>1, TimerSound DEF ResendOver, IInv
  <2> QED BY <2>1, <2>2, HeldSame, ListingGood DEF Alike, IInv, HeardInv
<1>2. CASE RoundSent
  <2>1. UNCHANGED <<focus, board, calls, heard, outlived, leaked, s>>
    BY <1>2 DEF RoundSent, history, links
  <2> QED BY <2>1, ListingGood DEF IInv, HeardInv
<1> QED BY <1>1, <1>2

(* A list download that is reported as complete has it all.                  *)
Complete ==
  s'.told \notin {s.told, None} /\ ~leaked /\ heard = {focus}
    => \A n \in NamesOf(focus) : s'.received[n] = focus

LEMMA DownloadGood ==
  ASSUME IInv,
         \/ /\ focus # None
            /\ \E k \in DOMAIN Table[focus], indexed \in BOOLEAN : ParamValue(k, indexed)
         \/ Recover
  PROVE  IInv' /\ Complete
<1>1. ASSUME focus # None, NEW k \in DOMAIN Table[focus], NEW indexed \in BOOLEAN,
             ParamValue(k, indexed)
      PROVE  IInv' /\ Complete
  <2>1. UNCHANGED <<focus, board, calls, heard, outlived, leaked>>
    BY <1>1 DEF ParamValue, history, links
  <2> QED BY <1>1, <2>1, ParamValueSound, ListingGood DEF Complete
<1>2. CASE Recover
  <2>1. UNCHANGED <<focus, board, calls, heard, outlived, leaked>> /\ recoverParamDownload
    BY <1>2 DEF Recover, history, links
  <2>2. /\ Sound(s') /\ Alike(s, s')
        /\ s'.told \notin {s.told, None} => s.expected # 0 /\ Missing = {}
    BY <2>1, RecoverSound DEF IInv
  <2>3. IInv'
    BY <2>1, <2>2, HeldSame, ListingGood DEF Alike, IInv, HeardInv
  <2>4. ASSUME s'.told \notin {s.told, None}, ~leaked, heard = {focus}
        PROVE  \A n \in NamesOf(focus) : s'.received[n] = focus
    <3>1. focus \in Vehicles /\ Own(s, focus) /\ s.expected # 0 /\ Missing = {}
      BY <2>2, <2>4 DEF IInv, HeardInv, Held
    <3>2. s.expected = Len(Table[focus])
      BY <3>1 DEF Own
    <3>3. ASSUME NEW n \in NamesOf(focus) PROVE s.received[n] = focus
      <4>1. PICK k \in DOMAIN Table[focus] : n = Table[focus][k]
        BY <3>1, TableFacts
      <4>2. k \in 1 .. Len(Table[focus]) /\ Len(Table[focus]) \in Nat
        BY <3>1, TableFacts
      <4>3. k - 1 \in 0 .. s.expected - 1 /\ k - 1 + 1 = k
        BY <3>2, <4>2
      <4>4. k - 1 \in s.indices
        BY <3>1, <4>3 DEF Missing
      <4> QED BY <3>1, <4>1, <4>3, <4>4 DEF Own
    <3> QED BY <2>2, <3>3 DEF Alike
  <2> QED BY <2>3, <2>4 DEF Complete
<1> QED BY <1>1, <1>2

-----------------------------------------------------------------------------
(* The requests.                                                             *)

(* User u goes on as o, or ends.                                             *)
Goes(u, o) ==
  /\ o \in Ops
  /\ o.pc # "idle" => o.to # None
  /\ u \in Requests \ outlived /\ o.pc # "idle"
       => o.to \in heard /\ o.src \subseteq heard \cup {"file"}

LEMMA OperationGood ==
  ASSUME IInv, UNCHANGED <<focus, board, heard>>,
         NEW u \in Users, NEW o, op' = [op EXCEPT ![u] = o], Goes(u, o),
         outlived' = outlived \/ (outlived' = outlived \ {u} /\ o.pc = "idle"),
         leaked' \in BOOLEAN, Sound(s'), Held(s', heard, leaked'),
         slot' \in Users \cup {None}, saved' \in [Browsers -> Users \cup {None}]
  PROVE  IInv'
<1>1. /\ op' \in [Users -> Ops]
      /\ \A w \in Users : op'[w] = IF w = u THEN o ELSE op[w]
  BY DEF IInv, Types, Goes
<1>2. Types'
  BY <1>1 DEF IInv, Types, Goes
<1>3. \A r \in Requests \ outlived' : Asks(r, heard)'
  <2> SUFFICES ASSUME NEW r \in Requests \ outlived' PROVE Asks(r, heard)'
    OBVIOUS
  <2>1. r \in Users /\ heard' = heard /\ op'[r] = IF r = u THEN o ELSE op[r]
    BY <1>1, DataFacts
  <2>2. CASE r = u
    BY <2>1, <2>2 DEF Asks, Goes
  <2>3. CASE r # u
    BY <2>1, <2>3 DEF IInv, HeardInv, Asks
  <2> QED BY <2>2, <2>3
<1>4. HeardInv'
  <2>1. Held(s', heard', leaked')
    OBVIOUS
  <2> QED BY <1>3, <2>1 DEF IInv, HeardInv
<1> QED BY <1>2, <1>4 DEF IInv, Sound

(* Values loaded at once; the indices that were seen stay.                   *)
LEMMA LoadFacts ==
  ASSUME IInv, NEW r \in Requests, NEW f \in [Names -> Vehicles \cup {None}],
         NEW w \in Vehicles, Load(r, f, w),
         r \notin outlived =>
           /\ \A n \in Names : f[n] \in heard \cup {None}
           /\ \A v \in Vehicles : heard = {v} =>
                w = v /\ \A n \in Names : f[n] = IF n \in NamesOf(v) THEN v ELSE None
  PROVE  /\ op' = [op EXCEPT ![r] = Idle] /\ outlived' = outlived \ {r}
         /\ leaked' \in BOOLEAN
         /\ Sound(s') /\ s'.told = None /\ Held(s', heard, leaked')
<1>1. s' = [s EXCEPT !.received = f, !.expected = Len(Table[w]), !.told = None]
  BY DEF Load
<1>2. s' \in Sessions
  BY <1>1, TableFacts DEF IInv, Sound, Sessions
<1>3. /\ s'.received = f /\ s'.told = None /\ s'.expected = Len(Table[w])
      /\ s'.indices = s.indices /\ s'.round = s.round /\ s'.gapFill = s.gapFill
      /\ s'.active = s.active /\ s'.stalled = s.stalled
  BY <1>1 DEF IInv, Sound, Sessions
<1>4. Sound(s')
  BY <1>2, <1>3 DEF IInv, Sound
<1>5. leaked' = (r \in outlived)
  BY DEF Load
<1>6. ~leaked' => Of(s', heard)
  BY <1>3, <1>5 DEF Of
<1>7. ASSUME NEW v \in Vehicles, heard = {v}
      PROVE  Indexed(s', v) /\ (~leaked' => Own(s', v))
  <2>1. Indexed(s', v)
    BY <1>3, <1>7 DEF IInv, HeardInv, Held, Indexed
  <2>2. ASSUME ~leaked' PROVE Own(s', v)
    <3>1. w = v /\ \A n \in Names : f[n] = IF n \in NamesOf(v) THEN v ELSE None
      BY <1>5, <1>7, <2>2
    <3>2. ASSUME NEW i \in s'.indices PROVE s'.received[Table[v][i + 1]] = v
      <4>1. i + 1 \in DOMAIN Table[v]
        BY <2>1 DEF Indexed
      <4>2. Table[v][i + 1] \in NamesOf(v) /\ Table[v][i + 1] \in Names
        BY <4>1, TableFacts
      <4> QED BY <1>3, <3>1, <4>2
    <3> QED BY <1>3, <3>1, <3>2 DEF Own
  <2> QED BY <2>1, <2>2
<1>8. Held(s', heard, leaked')
  BY <1>6, <1>7 DEF Held
<1> QED BY <1>3, <1>4, <1>5, <1>8 DEF Load

LEMMA ListFacts ==
  ASSUME NEW r, NEW o, List(r, o)
  PROVE  /\ op' = [op EXCEPT ![r] = [o EXCEPT !.pc = "list"]]
         /\ leaked' = FALSE /\ Sound(s') /\ s'.told = None /\ Held(s', heard, FALSE)
BY FreshSound DEF List

LEMMA RequestAllGood ==
  ASSUME IInv, NEW r \in Requests, NEW guarded \in BOOLEAN, RequestAll(r, guarded)
  PROVE  IInv' /\ s'.told \in {s.told, None}
<1> DEFINE o == [Idle EXCEPT !.to = focus, !.guarded = guarded]
<1>1. /\ focus \in Vehicles /\ focus # None /\ focus \in heard
      /\ r \in Users /\ UNCHANGED <<focus, board, heard, outlived, saved>>
  BY DataFacts DEF RequestAll, Call, IInv, Types, HeardInv, links
<1>2. o \in Ops /\ o.to = focus /\ o.src = {}
  BY <1>1, DataFacts DEF Ops
<1>3. \/ op' = [op EXCEPT ![r] = [o EXCEPT !.pc = "asked"]] /\ UNCHANGED <<s, slot, leaked>>
      \/ Ftp(r, o)
      \/ List(r, o) /\ UNCHANGED slot
  BY DEF RequestAll
<1> HIDE DEF o
<1>4. ASSUME NEW pc \in {"asked", "ftp", "list"}
      PROVE  Goes(r, [o EXCEPT !.pc = pc])
  BY <1>1, <1>2 DEF Goes, Ops
<1>5. /\ slot \in Users \cup {None} /\ saved \in [Browsers -> Users \cup {None}]
      /\ Sound(s) /\ Held(s, heard, leaked) /\ leaked \in BOOLEAN
  BY DEF IInv, Types, HeardInv
<1>6. CASE op' = [op EXCEPT ![r] = [o EXCEPT !.pc = "asked"]] /\ UNCHANGED <<s, slot, leaked>>
  BY <1>1, <1>4, <1>5, <1>6, OperationGood
<1>7. CASE Ftp(r, o)
  BY <1>1, <1>4, <1>5, <1>7, OperationGood DEF Ftp
<1>8. CASE List(r, o) /\ UNCHANGED slot
  BY <1>1, <1>4, <1>5, <1>8, ListFacts, OperationGood
<1> QED BY <1>3, <1>6, <1>7, <1>8

LEMMA CacheAnswersGood ==
  ASSUME IInv, NEW r \in Requests, CacheAnswers(r)
  PROVE  IInv' /\ s'.told \in {s.told, None}
<1>1. /\ r \in Users /\ op[r].pc = "asked" /\ UNCHANGED <<focus, board, heard, saved>>
  BY DataFacts DEF CacheAnswers, links
<1>2. /\ op[r] \in Ops /\ op[r].to \in Vehicles
      /\ r \notin outlived => op[r].to \in heard /\ op[r].src \subseteq heard \cup {"file"}
  BY <1>1, DataFacts DEF IInv, Types, HeardInv, Ops, Asks
<1>3. ASSUME NEW pc \in {"ftp", "list"}
      PROVE  Goes(r, [op[r] EXCEPT !.pc = pc])
  BY <1>2, DataFacts DEF Goes, Ops
<1>4. /\ slot \in Users \cup {None} /\ saved \in [Browsers -> Users \cup {None}]
      /\ Sound(s) /\ Held(s, heard, leaked) /\ leaked \in BOOLEAN
  BY DEF IInv, Types, HeardInv
<1>5. CASE Load(r, Cached(op[r].to), op[r].to) /\ UNCHANGED slot
  <2> DEFINE f == Cached(op[r].to)
  <2>1. /\ f \in [Names -> Vehicles \cup {None}]
        /\ \A n \in Names : f[n] = IF n \in NamesOf(op[r].to) THEN op[r].to ELSE None
    BY <1>2 DEF Cached
  <2> HIDE DEF f
  <2>2. r \notin outlived =>
           /\ \A n \in Names : f[n] \in heard \cup {None}
           /\ \A v \in Vehicles : heard = {v} =>
                op[r].to = v /\ \A n \in Names : f[n] = IF n \in NamesOf(v) THEN v ELSE None
    BY <1>2, <2>1
  <2>3. Load(r, f, op[r].to)
    BY <1>5 DEF f
  <2>4. /\ op' = [op EXCEPT ![r] = Idle] /\ outlived' = outlived \ {r} /\ leaked' \in BOOLEAN
        /\ Sound(s') /\ s'.told = None /\ Held(s', heard, leaked')
    BY <1>2, <2>1, <2>2, <2>3, LoadFacts
  <2>5. Goes(r, Idle)
    BY DataFacts DEF Goes
  <2> QED BY <1>1, <1>4, <1>5, <2>4, <2>5, OperationGood, DataFacts
<1>6. CASE Ftp(r, op[r]) /\ UNCHANGED outlived
  BY <1>1, <1>3, <1>4, <1>6, OperationGood DEF Ftp
<1>7. CASE List(r, op[r]) /\ UNCHANGED <<slot, outlived>>
  BY <1>1, <1>3, <1>4, <1>7, ListFacts, OperationGood
<1> QED BY <1>5, <1>6, <1>7 DEF CacheAnswers

LEMMA FtpReturnsGood ==
  ASSUME IInv, NEW r \in Requests, FtpReturns(r)
  PROVE  IInv' /\ s'.told \in {s.told, None}
<1>1. /\ r \in Users /\ op[r].pc = "ftp" /\ slot' = None
      /\ UNCHANGED <<focus, board, heard, saved>>
  BY DataFacts DEF FtpReturns, links
<1>2. /\ op[r] \in Ops /\ op[r].to \in Vehicles
      /\ r \notin outlived => op[r].to \in heard /\ op[r].src \subseteq heard \cup {"file"}
  BY <1>1, DataFacts DEF IInv, Types, HeardInv, Ops, Asks
<1>3. Goes(r, [op[r] EXCEPT !.pc = "list"])
  BY <1>2, DataFacts DEF Goes, Ops
<1>4. saved \in [Browsers -> Users \cup {None}]
  BY DEF IInv, Types
<1>5. ASSUME "file" \notin op[r].src, NEW w \in op[r].src, NEW f \in Packs(op[r].src, w),
             Load(r, f, w)
      PROVE  IInv' /\ s'.told = None
  <2>1. op[r].src \subseteq Vehicles /\ w \in Vehicles
    BY <1>2, <1>5 DEF Ops
  <2>2. /\ f \in [Names -> op[r].src \cup {None}]
        /\ \A n \in Names : f[n] # None => n \in NamesOf(f[n])
        /\ Cardinality({n \in Names : f[n] # None}) = Cardinality(NamesOf(w))
    BY DEF Packs
  <2>3. f \in [Names -> Vehicles \cup {None}]
    BY <2>1, <2>2
  <2>4. r \notin outlived => op[r].src \subseteq heard
    BY <1>2, <1>5
  <2>5. ASSUME r \notin outlived, NEW v \in Vehicles, heard = {v}
        PROVE  w = v /\ \A n \in Names : f[n] = IF n \in NamesOf(v) THEN v ELSE None
    <3> DEFINE S == {n \in Names : f[n] # None}
    <3>1. w = v /\ \A n \in S : f[n] = v
      BY <2>2, <2>4, <2>5
    <3>2. S \subseteq NamesOf(v)
      BY <2>2, <3>1
    <3>3. S = NamesOf(v)
      BY <2>2, <3>1, <3>2, AllNames
    <3> QED BY <3>1, <3>3
  <2>6. r \notin outlived => \A n \in Names : f[n] \in heard \cup {None}
    BY <2>2, <2>4
  <2>7. /\ op' = [op EXCEPT ![r] = Idle] /\ outlived' = outlived \ {r} /\ leaked' \in BOOLEAN
        /\ Sound(s') /\ s'.told = None /\ Held(s', heard, leaked')
    BY <1>5, <2>1, <2>3, <2>5, <2>6, LoadFacts
  <2>8. Goes(r, Idle)
    BY DataFacts DEF Goes
  <2> QED BY <1>1, <1>4, <2>7, <2>8, OperationGood, DataFacts
<1>6. CASE List(r, op[r]) /\ UNCHANGED outlived
  BY <1>1, <1>3, <1>4, <1>6, ListFacts, OperationGood
<1> QED BY <1>5, <1>6 DEF FtpReturns

LEMMA ListSentGood ==
  ASSUME IInv, NEW r \in Requests, ListSent(r)
  PROVE  IInv' /\ s'.told = s.told
<1>1. /\ r \in Users /\ op' = [op EXCEPT ![r] = Idle] /\ outlived' = outlived \ {r}
      /\ UNCHANGED <<focus, board, heard, saved, slot, leaked>>
      /\ s' = [s EXCEPT !.timer = TRUE] \/ UNCHANGED s
  BY DataFacts DEF ListSent, links
<1>2. Sound(s') /\ Alike(s, s') /\ s'.told = s.told
  BY <1>1, TimerSound DEF IInv, Alike
<1>3. Held(s', heard, leaked) /\ leaked \in BOOLEAN
  BY <1>2, HeldSame DEF IInv, HeardInv, Alike
<1>4. Goes(r, Idle)
  BY DataFacts DEF Goes
<1>5. slot \in Users \cup {None} /\ saved \in [Browsers -> Users \cup {None}]
  BY DEF IInv, Types
<1> QED BY <1>1, <1>2, <1>3, <1>4, <1>5, OperationGood, DataFacts

LEMMA ReplyGood ==
  ASSUME IInv, NEW u \in Users, Reply(u)
  PROVE  IInv' /\ s'.told = s.told
<1> DEFINE from == IF u \in Browsers THEN "file" ELSE focus
           o == [op[slot] EXCEPT !.n = @ + 1, !.src = @ \cup {from}]
<1>1. /\ slot \in Users /\ op[slot].pc = "ftp" /\ op[slot].n < FtpLen
      /\ focus \in Vehicles /\ focus \in heard
      /\ op[slot] \in Ops /\ op[slot].to # None
      /\ UNCHANGED <<focus, board, s, slot, saved, heard, outlived, leaked>>
  BY DataFacts DEF Reply, IInv, Types, HeardInv, history, links
<1>2. op' = [op EXCEPT ![slot] = o]
  <2>1. op' = [op EXCEPT ![slot].n = @ + 1, ![slot].src = @ \cup {from}]
    BY DEF Reply
  <2> QED BY <1>1, <2>1 DEF IInv, Types, Ops
<1>3. op[slot].n + 1 \in 0 .. FtpLen
  BY <1>1, ParamAssumption DEF Ops
<1>4. from \in Vehicles \cup {"file"} /\ from \in heard \cup {"file"}
  BY <1>1
<1> HIDE DEF from
<1>5. o \in Ops /\ o.pc = "ftp" /\ o.to = op[slot].to /\ o.src = op[slot].src \cup {from}
  BY <1>1, <1>3, <1>4 DEF Ops
<1> HIDE DEF o
<1>6. Goes(slot, o)
  BY <1>1, <1>4, <1>5 DEF Goes, IInv, HeardInv, Asks
<1>7. Sound(s) /\ Held(s, heard, leaked) /\ leaked \in BOOLEAN
  BY DEF IInv, HeardInv
<1> QED BY <1>1, <1>2, <1>5, <1>6, <1>7, OperationGood DEF IInv, Types

-----------------------------------------------------------------------------
(* The file browser.                                                         *)

LEMMA BrowserGood ==
  ASSUME IInv, NEW b \in Browsers, Browse(b) \/ Browsed(b)
  PROVE  IInv' /\ s'.told = s.told
<1>1. b \in Users /\ UNCHANGED <<focus, board, heard, outlived, leaked, s>>
  BY DataFacts DEF Browse, Browsed, history, links
<1>2. /\ slot \in Users \cup {None} /\ saved \in [Browsers -> Users \cup {None}]
      /\ Sound(s) /\ Held(s, heard, leaked) /\ leaked \in BOOLEAN
  BY DEF IInv, Types, HeardInv
<1>3. CASE Browse(b)
  <2> DEFINE o == [Idle EXCEPT !.pc = "ftp", !.to = focus]
  <2>1. focus \in Vehicles /\ focus # None /\ focus \in heard
    BY <1>3 DEF Browse, Call, IInv, Types, HeardInv
  <2>2. o \in Ops /\ o.to = focus /\ o.src = {}
    BY <2>1, DataFacts DEF Ops
  <2>3. op' = [op EXCEPT ![b] = o] /\ slot' = b /\ saved' \in [Browsers -> Users \cup {None}]
    BY <1>1, <1>2, <1>3 DEF Browse
  <2> HIDE DEF o
  <2>4. Goes(b, o)
    BY <2>1, <2>2 DEF Goes
  <2> QED BY <1>1, <1>2, <2>3, <2>4, OperationGood
<1>4. CASE Browsed(b)
  <2>1. /\ op' = [op EXCEPT ![b] = Idle] /\ slot' \in Users \cup {None}
        /\ saved' \in [Browsers -> Users \cup {None}]
    BY <1>2, <1>4 DEF Browsed
  <2>2. Goes(b, Idle)
    BY DataFacts DEF Goes
  <2> QED BY <1>1, <1>2, <2>1, <2>2, OperationGood
<1> QED BY <1>3, <1>4

-----------------------------------------------------------------------------
(* The theorems.                                                             *)

LEMMA InitGood == Init => IInv
<1> SUFFICES ASSUME Init PROVE IInv
  OBVIOUS
<1> USE DEF Init
<1>1. Types
  BY DataFacts DEF Types
<1>2. Sound(s)
  BY FreshSound
<1>3. HeardInv
  <2>1. \A r \in Requests \ outlived : Asks(r, heard)
    BY DataFacts DEF Asks
  <2>2. Held(s, heard, leaked)
    BY FreshSound
  <2> QED BY <2>1, <2>2, DataFacts DEF HeardInv
<1> QED BY <1>1, <1>2, <1>3 DEF IInv

LEMMA StepGood ==
  IInv /\ [Next]_vars => IInv' /\ Complete
<1> SUFFICES ASSUME IInv, [Next]_vars PROVE IInv' /\ Complete
  OBVIOUS
<1>1. s'.told \in {s.told, None} => Complete
  BY DEF Complete
<1>2. ASSUME NEW v \in Vehicles, Select(v) PROVE IInv' /\ Complete
  BY <1>1, <1>2, SelectGood
<1>3. CASE LinkCloses \/ Unregister
  BY <1>1, <1>3, LinkGood
<1>4. CASE PrimaryCloses \/ Disconnect \/ \E v \in Boards : Connect(v)
  BY <1>1, <1>4, PrimaryGood
<1>5. CASE \/ /\ focus # None
              /\ \E k \in DOMAIN Table[focus], indexed \in BOOLEAN : ParamValue(k, indexed)
           \/ Recover
  BY <1>5, DownloadGood
<1>6. CASE Writes
  BY <1>1, <1>6, WriteGood, ListSentGood DEF Writes
<1>7. CASE Answers
  BY <1>1, <1>7, CacheAnswersGood, FtpReturnsGood DEF Answers
<1>8. ASSUME NEW guarded \in BOOLEAN, Free # {}, RequestAll(CHOOSE r \in Free : TRUE, guarded)
      PROVE  IInv' /\ Complete
  <2>1. (CHOOSE r \in Free : TRUE) \in Requests
    BY <1>8 DEF Free
  <2> QED BY <1>1, <1>8, <2>1, RequestAllGood
<1>9. ASSUME NEW u \in Users, Reply(u) PROVE IInv' /\ Complete
  BY <1>1, <1>9, ReplyGood
<1>10. ASSUME NEW b \in Browsers, Browse(b) \/ Browsed(b) PROVE IInv' /\ Complete
  BY <1>1, <1>10, BrowserGood
<1>11. CASE UNCHANGED vars
  <2>1. UNCHANGED <<focus, board, calls, heard, outlived, leaked, s>>
    BY <1>11 DEF vars, history, links
  <2> QED BY <1>1, <2>1, ListingGood DEF IInv, HeardInv
<1> QED BY <1>2, <1>3, <1>4, <1>5, <1>6, <1>7, <1>8, <1>9, <1>10, <1>11 DEF Next

(* The invariant holds however requests, browser operations, the stream and  *)
(* the moves of the focus overlap.                                           *)
THEOREM SessionInvariance == Spec => []IInv
<1>1. Init => IInv
  BY InitGood
<1>2. IInv /\ [Next]_vars => IInv'
  BY StepGood
<1> QED BY <1>1, <1>2, PTL DEF Spec

(* The session keeps its types; retries and stalled rounds stay bounded, and *)
(* a round asks for no parameter that was seen.                              *)
THEOREM SessionTypeCorrect == Spec => []TypeOK
<1>1. IInv => TypeOK
  <2> SUFFICES ASSUME IInv PROVE TypeOK
    OBVIOUS
  <2>1. /\ s.indices \subseteq Nat /\ s.expected \in Nat
        /\ s.round \subseteq Nat \ s.indices /\ (s.gapFill => s.active)
        /\ s.retries <= MaxRetries /\ s.stalled <= MaxStalled
        /\ s.progress \in Nat
    BY ParamAssumption DEF IInv, Sound, Sessions
  <2>2. \A u \in Users : op[u].pc \in {"idle", "asked", "ftp", "list"} /\ op[u].n <= FtpLen
    BY ParamAssumption DEF IInv, Types, Ops
  <2> QED BY <2>1, <2>2 DEF IInv, Types, TypeOK
<1> QED BY <1>1, SessionInvariance, PTL

(* The session holds parameters of vehicles focused since it was reset,      *)
(* unless they are those that a request under way at the reset was answered. *)
THEOREM OwnUnlessOutlived == Spec => []SessionOwn
<1>1. IInv => SessionOwn
  <2> SUFFICES ASSUME IInv, ~leaked PROVE Range(s.received) \subseteq heard \cup {None}
    BY DEF SessionOwn
  <2>1. Of(s, heard) /\ DOMAIN s.received = Names
    BY DEF IInv, Sound, Sessions, HeardInv, Held
  <2> QED BY <2>1 DEF Of, Range
<1> QED BY <1>1, SessionInvariance, PTL

(* A list download reported as complete has every parameter of the focused   *)
(* vehicle, and of it, unless values asked for before the reset were loaded  *)
(* since the list was asked for, or another vehicle was focused since the    *)
(* reset.                                                                    *)
THEOREM CompleteIsWhole == Spec => Whole
<1>1. IInv /\ [Next]_vars =>
        [(s.told # "complete" /\ s'.told = "complete" /\ ~leaked /\ heard = {focus})
           => \A n \in NamesOf(focus) : s'.received[n] = focus]_vars
  <2>1. "complete" # None
    BY DEF None
  <2> QED BY <2>1, StepGood DEF Complete
<1> QED BY <1>1, SessionInvariance, PTL DEF Spec, Whole
=============================================================================
