--------------------------- MODULE ParamFetchProofs ---------------------------
(***************************************************************************)
(* Proofs about ParamFetch, for every set of boards, every number of       *)
(* parameters and reads, and every number of sessions, switches of the     *)
(* link and values on it.                                                  *)
(***************************************************************************)
EXTENDS ParamFetch, FiniteSetTheorems, TLAPS

-----------------------------------------------------------------------------
(* The inductive invariant.                                                  *)

Sources == Boards \cup {Nowhere}

Vehicles == [n : 0 .. MaxSessions, uid : Uids, of : Sources,
             connected : BOOLEAN, armed : BOOLEAN]

Sessions == [n : 0 .. MaxSessions, attempts : 0 .. MaxAttempts, fetched : BOOLEAN]

Jobs == [pc : {"ftp", "stream", "gaps"}, n : 1 .. MaxSessions, uid : Uids,
         read : Seq(Boards), list : [Params -> Sources],
         stalled : 0 .. MaxStalled, before : Nat]

Snapshots == [params : [Params -> Sources], fetched : BOOLEAN]

Types ==
  /\ board \in Boards /\ clients \in BOOLEAN
  /\ vehicle \in Vehicles /\ session \in Sessions
  /\ job = NoJob \/ (job \in Jobs /\ Len(job.read) <= FtpLen)
  /\ aborted \in BOOLEAN /\ outlived \in BOOLEAN /\ mistaken \in BOOLEAN
  /\ cache \in [Uids -> Snapshots]
  /\ bounds \in [sessions : 0 .. MaxSessions, switches : Nat, values : Nat]

(* The vehicle the tracker is connected to is the one on the link; a vehicle *)
(* it follows is known under its own uid or under none.                      *)
LinkInv ==
  /\ session.n \in {0, vehicle.n}
  /\ vehicle.n = 0 => vehicle = NoVehicle
  /\ vehicle.connected => vehicle.of = board
  /\ ~mistaken => vehicle.uid \in {Provisional, vehicle.of}

(* A download that may still be taken for complete is of the board on the    *)
(* link, which is connected as the vehicle the download was started for, and *)
(* goes to a snapshot of that board.                                         *)
OfBoard ==
  /\ vehicle.connected /\ job.n = vehicle.n
  /\ job.uid \in {Provisional, board}
  /\ \A k \in 1 .. Len(job.read) : job.read[k] = board
  /\ \A i \in Params : job.list[i] \in {Nowhere, board}

JobInv == ~outlived /\ ~mistaken /\ Busy /\ (job.pc = "ftp" \/ ~aborted) => OfBoard

IInv == Types /\ LinkInv /\ JobInv /\ CachedOwn /\ FetchedWhole

-----------------------------------------------------------------------------
(* Facts about the constants and the data.                                   *)

LEMMA DataFacts ==
  /\ Provisional \notin Boards /\ Nowhere \notin Boards /\ Params # {}
  /\ NoVehicle \in Vehicles /\ NoSession \in Sessions /\ Empty \in Snapshots
  /\ Boards \subseteq Uids /\ Provisional \in Uids
BY FetchAssumption DEF NoVehicle, NoSession, Empty, Vehicles, Sessions, Snapshots,
                       Sources, Uids, Params

LEMMA JobFacts ==
  ASSUME Types
  PROVE  /\ Busy => job \in Jobs /\ Len(job.read) <= FtpLen
         /\ job \in Jobs => Busy
BY DEF Types, Busy, NoJob, Jobs

LEMMA ConnectedFacts ==
  ASSUME IInv, vehicle.connected
  PROVE  vehicle.n \in 1 .. MaxSessions
<1>1. vehicle # NoVehicle
  BY DEF NoVehicle
<1> QED BY <1>1, FetchAssumption DEF IInv, Types, LinkInv, Vehicles

LEMMA GapsFacts ==
  /\ IsFiniteSet(Gaps) /\ Cardinality(Gaps) \in Nat /\ Gaps \subseteq Params
<1>1. IsFiniteSet(Params) /\ Gaps \subseteq Params
  BY FetchAssumption, FS_Interval DEF Params, Gaps
<1> QED BY <1>1, FS_Subset, FS_CardinalityType

-----------------------------------------------------------------------------
(* The cache.                                                                *)

LEMMA ReplaceAllGood ==
  ASSUME IInv, Busy, NEW from \in [Params -> Boards],
         ~outlived /\ ~mistaken => job.uid \in {Provisional, board} /\ \A i \in Params : from[i] = board,
         ReplaceAll(job.uid, from),
         UNCHANGED <<outlived, mistaken>>
  PROVE  cache' \in [Uids -> Snapshots] /\ CachedOwn' /\ FetchedWhole'
<1> DEFINE snap == [params |-> from, fetched |-> TRUE]
<1>1. job.uid \in Uids /\ cache \in [Uids -> Snapshots]
  BY JobFacts DEF IInv, Types, Jobs
<1>2. snap \in Snapshots /\ snap.params = from /\ snap.fetched
  BY DEF Snapshots, Sources
<1>3. cache' = [cache EXCEPT ![job.uid] = snap]
  BY DEF ReplaceAll
<1> HIDE DEF snap
<1>4. cache' \in [Uids -> Snapshots]
  BY <1>1, <1>2, <1>3
<1>5. CachedOwn'
  BY <1>1, <1>2, <1>3, DataFacts DEF IInv, CachedOwn, Own
<1>6. FetchedWhole'
  BY <1>1, <1>2, <1>3, DataFacts DEF IInv, FetchedWhole
<1> QED BY <1>4, <1>5, <1>6

LEMMA ApplyValueGood ==
  ASSUME IInv, Taken, NEW i \in Params, ApplyValue(vehicle.uid, i, board),
         outlived' = outlived
  PROVE  cache' \in [Uids -> Snapshots] /\ CachedOwn' /\ FetchedWhole'
<1> DEFINE u == vehicle.uid
           params == [cache[u].params EXCEPT ![i] = board]
           snap == [cache[u] EXCEPT !.params = params]
<1>1. u \in Uids /\ cache \in [Uids -> Snapshots] /\ board \in Boards
  BY DEF IInv, Types, Vehicles
<1>2. ~mistaken' => u \in {Provisional, board} /\ ~mistaken
  BY DEF IInv, Types, LinkInv, Taken
<1>3. params \in [Params -> Sources]
  BY <1>1 DEF Snapshots, Sources
<1>4. snap \in Snapshots /\ snap.params = params /\ snap.fetched = cache[u].fetched
  BY <1>1, <1>3 DEF Snapshots
<1>5. \A j \in Params : params[j] = IF j = i THEN board ELSE cache[u].params[j]
  BY <1>1 DEF Snapshots
<1>6. cache' = [cache EXCEPT ![u] = snap]
  BY DEF ApplyValue
<1> HIDE DEF u, params, snap
<1>7. cache' \in [Uids -> Snapshots]
  BY <1>1, <1>4, <1>6
<1>8. CachedOwn'
  BY <1>1, <1>2, <1>4, <1>5, <1>6, DataFacts DEF IInv, CachedOwn, Own
<1>9. FetchedWhole'
  BY <1>1, <1>4, <1>5, <1>6, DataFacts DEF IInv, FetchedWhole
<1> QED BY <1>7, <1>8, <1>9

LEMMA CacheKeeps ==
  ASSUME IInv, UNCHANGED cache, outlived => outlived', mistaken => mistaken'
  PROVE  cache' \in [Uids -> Snapshots] /\ CachedOwn' /\ FetchedWhole'
BY DEF IInv, Types, CachedOwn, Own, FetchedWhole

-----------------------------------------------------------------------------
(* The fetcher.                                                              *)

LEMMA EndsGood ==
  ASSUME IInv, Busy, NEW status, Ends(status), UNCHANGED <<aborted, bounds, outlived, mistaken>>,
         cache' \in [Uids -> Snapshots] /\ CachedOwn' /\ FetchedWhole'
  PROVE  IInv'
<1>1. session' \in Sessions /\ session'.n = session.n
  BY DEF Ends, IInv, Types, Sessions
<1>2. Types'
  BY <1>1 DEF Ends, IInv, Types
<1>3. LinkInv'
  BY <1>1 DEF Ends, IInv, LinkInv
<1>4. JobInv'
  BY DEF Ends, JobInv, Busy, NoJob
<1> QED BY <1>2, <1>3, <1>4 DEF IInv

LEMMA FtpReadGood ==
  ASSUME IInv, FtpRead
  PROVE  IInv'
<1> USE DEF FtpRead, Taken, link
<1>1. job \in Jobs /\ board \in Boards
  BY JobFacts DEF IInv, Types, Busy
<1> DEFINE read == Append(job.read, board)
<1>2. /\ read \in Seq(Boards) /\ Len(read) = Len(job.read) + 1
      /\ \A k \in 1 .. Len(read) : read[k] = IF k <= Len(job.read) THEN job.read[k] ELSE board
  BY <1>1 DEF Jobs
<1>3. job' = [job EXCEPT !.read = read]
  OBVIOUS
<1> HIDE DEF read
<1>4. /\ job' \in Jobs /\ job'.read = read /\ job'.pc = job.pc /\ job'.n = job.n
      /\ job'.uid = job.uid /\ job'.list = job.list
  BY <1>1, <1>2, <1>3 DEF Jobs
<1>5. Len(read) <= FtpLen
  BY <1>1, <1>2, FetchAssumption DEF Jobs
<1>6. Types' /\ LinkInv'
  BY <1>4, <1>5 DEF IInv, Types, LinkInv
<1>7. JobInv'
  <2> SUFFICES ASSUME ~outlived, ~mistaken, OfBoard
               PROVE  OfBoard'
    BY <1>4 DEF IInv, JobInv, Busy
  <2>1. \A k \in 1 .. Len(read) : read[k] = board
    BY <1>1, <1>2 DEF OfBoard, Jobs
  <2> QED BY <1>4, <2>1 DEF OfBoard
<1> QED BY <1>6, <1>7, CacheKeeps DEF IInv

LEMMA FtpDoneGood ==
  ASSUME IInv, FtpDone
  PROVE  IInv'
<1> USE DEF FtpDone
<1>1. job \in Jobs /\ Busy
  BY JobFacts DEF IInv, Busy
<1>2. PICK from \in [Params -> {job.read[k] : k \in 1 .. FtpLen}] : ReplaceAll(job.uid, from)
  OBVIOUS
<1>3. \A k \in 1 .. FtpLen : job.read[k] \in Boards
  BY <1>1 DEF Jobs
<1>4. from \in [Params -> Boards]
  BY <1>2, <1>3
<1>5. ~outlived /\ ~mistaken => /\ job.uid \in {Provisional, board}
                   /\ \A k \in 1 .. FtpLen : job.read[k] = board
  BY <1>1 DEF IInv, JobInv, OfBoard
<1>6. ~outlived /\ ~mistaken => \A i \in Params : from[i] = board
  BY <1>2, <1>5
<1>7. cache' \in [Uids -> Snapshots] /\ CachedOwn' /\ FetchedWhole'
  BY <1>1, <1>2, <1>4, <1>5, <1>6, ReplaceAllGood
<1> QED BY <1>1, <1>7, EndsGood

LEMMA FtpFailsGood ==
  ASSUME IInv, FtpFails
  PROVE  IInv'
<1> USE DEF FtpFails
<1>1. job \in Jobs /\ Busy
  BY JobFacts DEF IInv, Busy
<1>2. cache' \in [Uids -> Snapshots] /\ CachedOwn' /\ FetchedWhole'
  BY CacheKeeps
<1>3. CASE aborted
  BY <1>1, <1>2, <1>3, EndsGood
<1>4. CASE ~aborted
  <2>1. job' = Listing /\ UNCHANGED link
    BY <1>4
  <2>2. [i \in Params |-> Nowhere] \in [Params -> Sources]
    BY DEF Sources
  <2>3. /\ job' \in Jobs /\ job'.pc = "stream" /\ job'.n = job.n /\ job'.uid = job.uid
        /\ job'.read = job.read /\ \A i \in Params : job'.list[i] = Nowhere
    BY <1>1, <2>1, <2>2 DEF Listing, Jobs
  <2>4. Types' /\ LinkInv'
    BY <1>1, <2>1, <2>3, JobFacts, <1>2 DEF IInv, Types, LinkInv, link
  <2>5. JobInv'
    BY <1>1, <2>1, <2>3 DEF IInv, JobInv, OfBoard, Busy, link
  <2> QED BY <1>2, <2>4, <2>5 DEF IInv
<1> QED BY <1>3, <1>4

LEMMA ListEndsGood ==
  ASSUME IInv, job.pc \in {"stream", "gaps"}, ListEnds, UNCHANGED <<aborted, bounds, outlived, mistaken>>
  PROVE  IInv'
<1>1. job \in Jobs /\ Busy
  BY JobFacts DEF IInv, Busy
<1>2. CASE GivenUp
  <2>1. Ends("failed") /\ UNCHANGED cache
    BY <1>2 DEF ListEnds
  <2> QED BY <1>1, <2>1, CacheKeeps, EndsGood
<1>3. CASE ~GivenUp
  <2>1. Gaps = {} /\ ReplaceAll(job.uid, job.list) /\ Ends("complete") /\ ~aborted
    BY <1>3 DEF ListEnds, GivenUp
  <2>2. job.list \in [Params -> Boards]
    BY <1>1, <2>1 DEF Jobs, Gaps, Sources
  <2>3. ~outlived /\ ~mistaken => /\ job.uid \in {Provisional, board}
                     /\ \A i \in Params : job.list[i] = board
    BY <1>1, <2>1 DEF IInv, JobInv, OfBoard, Gaps
  <2>4. cache' \in [Uids -> Snapshots] /\ CachedOwn' /\ FetchedWhole'
    BY <1>1, <2>1, <2>2, <2>3, ReplaceAllGood
  <2> QED BY <1>1, <2>1, <2>4, EndsGood
<1> QED BY <1>2, <1>3

(* A round that goes on changes nothing but its counts.                      *)
LEMMA GoesOnGood ==
  ASSUME IInv, UNCHANGED <<link, aborted, cache, bounds, outlived, mistaken>>,
         job \in Jobs, job' \in Jobs, ~aborted, job.pc # "ftp",
         job'.n = job.n, job'.uid = job.uid, job'.read = job.read, job'.list = job.list
  PROVE  IInv'
<1>1. Types' /\ LinkInv'
  BY JobFacts, CacheKeeps DEF IInv, Types, LinkInv, link
<1>2. JobInv'
  BY DEF IInv, JobInv, OfBoard, Busy, link, Jobs
<1> QED BY <1>1, <1>2, CacheKeeps DEF IInv

LEMMA ListQuietGood ==
  ASSUME IInv, ListQuiet
  PROVE  IInv'
<1> USE DEF ListQuiet
<1>1. job \in Jobs /\ Busy
  BY JobFacts DEF IInv, Busy
<1>2. CASE ListEnds
  BY <1>2, ListEndsGood
<1>3. CASE Gaps = Params /\ Ends("failed") /\ UNCHANGED cache
  BY <1>1, <1>3, CacheKeeps, EndsGood
<1>4. CASE /\ ~aborted /\ job' = [job EXCEPT !.pc = "gaps", !.before = Cardinality(Gaps)]
           /\ UNCHANGED <<link, cache>>
  <2>1. /\ job' \in Jobs /\ job'.n = job.n /\ job'.uid = job.uid
        /\ job'.read = job.read /\ job'.list = job.list
    BY <1>1, <1>4, GapsFacts DEF Jobs
  <2> QED BY <1>1, <1>4, <2>1, GoesOnGood
<1> QED BY <1>2, <1>3, <1>4

LEMMA GapRoundGood ==
  ASSUME IInv, GapRound
  PROVE  IInv'
<1> USE DEF GapRound
<1>1. job \in Jobs /\ Busy
  BY JobFacts DEF IInv, Busy
<1>2. CASE ListEnds
  BY <1>2, ListEndsGood
<1>3. CASE ~ListEnds
  <2> DEFINE stalled == IF Cardinality(Gaps) < job.before THEN 0 ELSE job.stalled + 1
  <2>1. /\ job' = [job EXCEPT !.before = Cardinality(Gaps), !.stalled = stalled]
        /\ ~GivenUp /\ UNCHANGED <<link, cache>>
    BY <1>3
  <2>2. stalled \in 0 .. MaxStalled /\ ~aborted
    BY <1>1, <2>1, FetchAssumption DEF GivenUp, Jobs
  <2> HIDE DEF stalled
  <2>3. /\ job' \in Jobs /\ job'.n = job.n /\ job'.uid = job.uid
        /\ job'.read = job.read /\ job'.list = job.list
    BY <1>1, <2>1, <2>2, GapsFacts DEF Jobs
  <2> QED BY <1>1, <2>1, <2>2, <2>3, GoesOnGood
<1> QED BY <1>2, <1>3

LEMMA SendFailsGood ==
  ASSUME IInv, SendFails
  PROVE  IInv'
BY JobFacts, CacheKeeps, EndsGood DEF SendFails, Busy

LEMMA ParamValueGood ==
  ASSUME IInv, NEW i \in Params, ParamValue(i)
  PROVE  IInv'
<1>1. cache' \in [Uids -> Snapshots] /\ CachedOwn' /\ FetchedWhole'
  BY ApplyValueGood DEF ParamValue
<1> USE DEF ParamValue, Taken, link
<1>2. bounds' \in [sessions : 0 .. MaxSessions, switches : Nat, values : Nat]
  BY DEF IInv, Types
<1>3. CASE job.pc \in {"stream", "gaps"}
  <2> DEFINE list == [job.list EXCEPT ![i] = board]
  <2>1. job \in Jobs /\ board \in Boards /\ Len(job.read) <= FtpLen
    BY <1>3, JobFacts DEF IInv, Types, Busy
  <2>2. /\ list \in [Params -> Sources]
        /\ \A j \in Params : list[j] = IF j = i THEN board ELSE job.list[j]
    BY <2>1 DEF Jobs, Sources
  <2>3. job' = [job EXCEPT !.list = list]
    BY <1>3
  <2> HIDE DEF list
  <2>4. /\ job' \in Jobs /\ job'.pc = job.pc /\ job'.n = job.n /\ job'.uid = job.uid
        /\ job'.read = job.read /\ job'.list = list
    BY <2>1, <2>2, <2>3 DEF Jobs
  <2>5. Types' /\ LinkInv'
    BY <1>1, <1>2, <2>1, <2>4 DEF IInv, Types, LinkInv
  <2>6. JobInv'
    BY <2>2, <2>4 DEF IInv, JobInv, OfBoard, Busy
  <2> QED BY <1>1, <2>5, <2>6 DEF IInv
<1>4. CASE job.pc \notin {"stream", "gaps"}
  <2>1. Types' /\ LinkInv'
    BY <1>1, <1>2, <1>4 DEF IInv, Types, LinkInv
  <2>2. JobInv'
    BY <1>4 DEF IInv, JobInv, OfBoard, Busy
  <2> QED BY <1>1, <2>1, <2>2 DEF IInv
<1> QED BY <1>3, <1>4

-----------------------------------------------------------------------------
(* The service.                                                              *)

LEMMA HeartbeatGood ==
  ASSUME IInv, NEW armed \in BOOLEAN, Heartbeat(armed)
  PROVE  IInv'
<1> USE DEF Heartbeat
<1>1. cache' \in [Uids -> Snapshots] /\ CachedOwn' /\ FetchedWhole'
  BY CacheKeeps
<1>2. CASE vehicle.connected
  <2>1. /\ vehicle' \in Vehicles /\ vehicle'.n = vehicle.n /\ vehicle'.uid = vehicle.uid
        /\ vehicle'.of = vehicle.of /\ vehicle'.connected /\ UNCHANGED <<session, bounds>>
    BY <1>2 DEF IInv, Types, Vehicles
  <2>2. Types' /\ LinkInv'
    BY <1>1, <1>2, <2>1, ConnectedFacts DEF IInv, Types, LinkInv
  <2>3. JobInv'
    BY <2>1 DEF IInv, JobInv, OfBoard, Busy
  <2> QED BY <1>1, <2>2, <2>3 DEF IInv
<1>3. CASE ~vehicle.connected
  <2>1. bounds.sessions \in 1 .. MaxSessions
    BY <1>3, FetchAssumption DEF IInv, Types
  <2>2. /\ vehicle' \in Vehicles /\ vehicle'.n = bounds.sessions
        /\ vehicle'.uid = Provisional /\ vehicle'.connected /\ vehicle'.of = board
    <3>1. /\ vehicle' = [n |-> bounds.sessions, uid |-> Provisional, of |-> board,
                         connected |-> TRUE, armed |-> armed]
          /\ board \in Sources
      BY <1>3 DEF IInv, Types, Sources
    <3> HIDE DEF Heartbeat
    <3> QED BY <2>1, <3>1, DataFacts, FetchAssumption DEF Vehicles
  <2>3. session' \in Sessions /\ session'.n = bounds.sessions
    <3>1. session' = [NoSession EXCEPT !.n = bounds.sessions]
      BY <1>3
    <3> HIDE DEF Heartbeat
    <3> QED BY <2>1, <3>1, DataFacts, FetchAssumption DEF Sessions
  <2>4. bounds' \in [sessions : 0 .. MaxSessions, switches : Nat, values : Nat]
    BY <1>3, <2>1, FetchAssumption DEF IInv, Types
  <2>5. Types' /\ LinkInv'
    BY <1>1, <2>1, <2>2, <2>3, <2>4 DEF IInv, Types, LinkInv
  <2>6. JobInv'
    BY <1>3 DEF IInv, JobInv, OfBoard, Busy
  <2> QED BY <1>1, <2>5, <2>6 DEF IInv
<1> QED BY <1>2, <1>3

LEMMA IdentityGood ==
  ASSUME IInv, Identity
  PROVE  IInv'
<1> USE DEF Identity, Taken
<1>1. cache' \in [Uids -> Snapshots] /\ CachedOwn' /\ FetchedWhole'
  BY CacheKeeps
<1>2. /\ vehicle' \in Vehicles /\ vehicle'.n = vehicle.n /\ vehicle'.uid = board
      /\ vehicle'.connected = vehicle.connected /\ vehicle'.of = vehicle.of
  BY DataFacts DEF IInv, Types, Vehicles
<1>3. LinkInv'
  BY <1>2 DEF IInv, LinkInv, Types
<1>4. CASE job.n = vehicle.n /\ Busy
  <2>1. job \in Jobs /\ Len(job.read) <= FtpLen /\ board \in Uids
    BY <1>4, JobFacts, DataFacts DEF IInv, Types
  <2>2. /\ job' \in Jobs /\ job'.pc = job.pc /\ job'.n = job.n /\ job'.uid = board
        /\ job'.read = job.read /\ job'.list = job.list
    BY <1>4, <2>1 DEF Jobs
  <2>3. Types'
    BY <1>1, <1>2, <2>1, <2>2 DEF IInv, Types
  <2>4. JobInv'
    BY <1>2, <2>2 DEF IInv, JobInv, OfBoard, Busy
  <2> QED BY <1>1, <1>3, <2>3, <2>4 DEF IInv
<1>5. CASE job.n # vehicle.n
  <2>1. Types'
    BY <1>1, <1>2, <1>5 DEF IInv, Types
  <2>2. JobInv'
    BY <1>2, <1>5 DEF IInv, JobInv, OfBoard, Busy
  <2> QED BY <1>1, <1>3, <2>1, <2>2 DEF IInv
<1>6. job.n = vehicle.n => Busy
  BY DEF IInv, Types, LinkInv, Busy, Jobs, NoJob
<1> QED BY <1>4, <1>5, <1>6

LEMMA VehicleLostGood ==
  ASSUME IInv, VehicleLost
  PROVE  IInv'
<1> USE DEF VehicleLost, Forget
<1>1. cache' \in [Uids -> Snapshots] /\ CachedOwn' /\ FetchedWhole'
  BY CacheKeeps
<1>2. vehicle.n # 0
  BY ConnectedFacts, FetchAssumption
<1>3. /\ vehicle' \in Vehicles /\ vehicle'.n = vehicle.n /\ vehicle'.uid = vehicle.uid
      /\ ~vehicle'.connected /\ vehicle'.of = vehicle.of
  BY DEF IInv, Types, Vehicles
<1>4. session' \in Sessions /\ session'.n = 0
  BY DataFacts DEF NoSession
<1>5. Types' /\ LinkInv'
  BY <1>1, <1>2, <1>3, <1>4 DEF IInv, Types, LinkInv
<1>6. JobInv'
  BY DEF IInv, JobInv, OfBoard, Busy
<1> QED BY <1>1, <1>5, <1>6 DEF IInv

LEMMA SwitchLinkGood ==
  ASSUME IInv, NEW b \in Boards, SwitchLink(b)
  PROVE  IInv'
<1> USE DEF SwitchLink, Forget
<1>1. cache' \in [Uids -> Snapshots] /\ CachedOwn' /\ FetchedWhole'
  BY CacheKeeps
<1>2. bounds' \in [sessions : 0 .. MaxSessions, switches : Nat, values : Nat]
  BY DEF IInv, Types
<1>3. Types' /\ LinkInv'
  BY <1>1, <1>2, DataFacts DEF IInv, Types, LinkInv, NoVehicle, NoSession
<1>4. JobInv'
  BY DEF IInv, JobInv, Busy
<1> QED BY <1>1, <1>3, <1>4 DEF IInv

LEMMA BoardChangesGood ==
  ASSUME IInv, NEW b \in Boards, BoardChanges(b)
  PROVE  IInv'
<1> USE DEF BoardChanges
<1>1. Types' /\ LinkInv'
  BY CacheKeeps DEF IInv, Types, LinkInv
<1>2. JobInv'
  BY DEF IInv, JobInv, OfBoard, Busy
<1> QED BY <1>1, <1>2, CacheKeeps DEF IInv

LEMMA TickFetchGood ==
  ASSUME IInv, TickFetch
  PROVE  IInv'
<1> USE DEF TickFetch
<1>1. vehicle.n \in 1 .. MaxSessions /\ vehicle.uid \in Uids
  BY ConnectedFacts DEF IInv, Types, Vehicles
<1>2. session' \in Sessions /\ session'.n = session.n
  BY FetchAssumption DEF IInv, Types, Sessions
<1>3. [i \in Params |-> Nowhere] \in [Params -> Sources]
  BY DEF Sources
<1>4. PICK pc \in {"ftp", "stream"} :
        job' = [pc |-> pc, n |-> vehicle.n, uid |-> vehicle.uid, read |-> <<>>,
                list |-> [i \in Params |-> Nowhere], stalled |-> 0, before |-> 0]
  OBVIOUS
<1>5. /\ job' \in Jobs /\ job'.n = vehicle.n /\ job'.uid = vehicle.uid
      /\ job'.read = <<>> /\ Len(job'.read) = 0
      /\ \A i \in Params : job'.list[i] = Nowhere
  BY <1>1, <1>3, <1>4, FetchAssumption DEF Jobs
<1>6. Types' /\ LinkInv'
  <2>1. /\ aborted' \in BOOLEAN
        /\ UNCHANGED <<board, vehicle, clients, cache, bounds, outlived, mistaken>>
    OBVIOUS
  <2>2. Len(job'.read) <= FtpLen
    BY <1>5, FetchAssumption
  <2> HIDE DEF TickFetch
  <2> QED BY <1>2, <1>5, <2>1, <2>2 DEF IInv, Types, LinkInv
<1>7. JobInv'
  BY <1>5 DEF IInv, LinkInv, JobInv, OfBoard
<1> QED BY <1>6, <1>7, CacheKeeps DEF IInv

(* abort(), or nothing.                                                      *)
LEMMA AbortsGood ==
  ASSUME IInv, aborted' \in BOOLEAN, aborted => aborted', clients' \in BOOLEAN,
         UNCHANGED <<board, vehicle, session, job, cache, bounds, outlived, mistaken>>
  PROVE  IInv'
<1>1. Types' /\ LinkInv'
  BY CacheKeeps DEF IInv, Types, LinkInv
<1>2. JobInv'
  BY DEF IInv, JobInv, OfBoard, Busy
<1> QED BY <1>1, <1>2, CacheKeeps DEF IInv

-----------------------------------------------------------------------------
(* The theorems.                                                             *)

LEMMA InitGood == Init => IInv
<1> SUFFICES ASSUME Init PROVE IInv
  OBVIOUS
<1> USE DEF Init
<1>1. Types
  <2>1. /\ cache \in [Uids -> Snapshots]
        /\ vehicle \in Vehicles /\ session \in Sessions
    BY DataFacts
  <2>2. bounds \in [sessions : 0 .. MaxSessions, switches : Nat, values : Nat]
    BY FetchAssumption
  <2>3. First \in Boards
    BY FetchAssumption
  <2> QED BY <2>1, <2>2, <2>3 DEF Types
<1>2. LinkInv /\ JobInv
  BY DEF LinkInv, JobInv, NoVehicle, NoSession, Busy, NoJob
<1>3. CachedOwn /\ FetchedWhole
  BY DataFacts DEF CachedOwn, Own, FetchedWhole, Empty
<1> QED BY <1>1, <1>2, <1>3 DEF IInv

LEMMA StepGood ==
  IInv /\ [Next]_vars => IInv'
<1> SUFFICES ASSUME IInv, [Next]_vars PROVE IInv'
  OBVIOUS
<1>1. CASE FtpRead \/ Fetching
  BY <1>1, FtpReadGood, FtpDoneGood, FtpFailsGood, ListQuietGood, GapRoundGood,
     SendFailsGood DEF Fetching
<1>2. ASSUME NEW i \in Params, ParamValue(i) PROVE IInv'
  BY <1>2, ParamValueGood
<1>3. ASSUME NEW armed \in BOOLEAN, Heartbeat(armed) PROVE IInv'
  BY <1>3, HeartbeatGood
<1>4. CASE Identity \/ VehicleLost \/ TickFetch
  BY <1>4, IdentityGood, VehicleLostGood, TickFetchGood
<1>5. CASE TickArmed
  BY <1>5, AbortsGood DEF TickArmed, link, IInv, Types
<1>6. CASE ClientsChange
  BY <1>6, AbortsGood DEF ClientsChange, IInv, Types
<1>7. ASSUME NEW b \in Boards, SwitchLink(b) \/ BoardChanges(b) PROVE IInv'
  BY <1>7, SwitchLinkGood, BoardChangesGood
<1>8. CASE UNCHANGED vars
  BY <1>8, AbortsGood DEF vars, link, IInv, Types
<1> QED BY <1>1, <1>2, <1>3, <1>4, <1>5, <1>6, <1>7, <1>8 DEF Next

(* The invariant holds whatever the vehicles, the clients and the link do    *)
(* during a download.                                                        *)
THEOREM FetchInvariance == Spec => []IInv
<1>1. Init => IInv
  BY InitGood
<1>2. IInv /\ [Next]_vars => IInv'
  BY StepGood
<1> QED BY <1>1, <1>2, PTL DEF Spec

(* The state keeps its types; a vehicle is asked MaxAttempts times at most,  *)
(* and a list is given up after MaxStalled rounds.                           *)
THEOREM FetchTypeCorrect == Spec => []TypeOK
<1>1. IInv => TypeOK
  <2> SUFFICES ASSUME IInv PROVE TypeOK
    OBVIOUS
  <2>1. Busy => /\ job.n # 0 /\ Len(job.read) <= FtpLen
                /\ job.stalled \in 0 .. MaxStalled
    BY JobFacts DEF IInv, Jobs
  <2>2. job.pc \in {"none", "ftp", "stream", "gaps"}
    BY DEF IInv, Types, Jobs, NoJob
  <2> QED BY <2>1, <2>2 DEF IInv, Types, LinkInv, TypeOK, Vehicles, Sessions
<1> QED BY <1>1, FetchInvariance, PTL

(* The snapshot kept under a board's uid holds no value of another board,    *)
(* unless a MAVFTP download outlived the vehicle it was of, or a message of  *)
(* another board was taken for one of a vehicle that was lost.               *)
THEOREM SnapshotsOwn == Spec => []CachedOwn
BY FetchInvariance, PTL DEF IInv

(* A snapshot marked as fetched has a value for every parameter.             *)
THEOREM SnapshotsWhole == Spec => []FetchedWhole
BY FetchInvariance, PTL DEF IInv
=============================================================================
