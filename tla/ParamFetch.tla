----------------------------- MODULE ParamFetch -----------------------------
(***************************************************************************)
(* The background parameter download of the ArduDeck OS link daemon        *)
(* (apps/os-linkd/src/param-fetcher.ts, param-cache.ts, and the parts of   *)
(* link-service.ts and vehicle-state.ts that start and abort it): the      *)
(* fetcher reads the vehicle's parameters over MAVFTP or as a list whose   *)
(* gaps it fills, into a cache by board.  Meanwhile the vehicle arms, GCS  *)
(* clients attach, the vehicle falls silent and the link is switched.      *)
(*                                                                         *)
(* All vehicles have the same system id; what tells their parameters apart *)
(* is the board they come from.  A board speaks as soon as it is on the    *)
(* link: the tracker may still follow the one before, which it lost.       *)
(***************************************************************************)
EXTENDS Integers, Sequences, FiniteSets

CONSTANTS
  Boards,      \* flight controllers that may be on the link
  First,       \* the one on it at the start
  NParams,     \* parameters of each
  FtpLen,      \* reads of a MAVFTP download
  MaxAttempts, \* downloads tried for one vehicle
  MaxStalled,  \* rounds without progress before the list is given up
  MaxSessions, \* bound on the vehicles the tracker starts to follow
  MaxSwitches, \* bound on the times the link is switched, or another board turns up on it
  MaxValues    \* bound on the PARAM_VALUE messages of the vehicles

Provisional == "mavlink-1"       \* the uid until AUTOPILOT_VERSION arrives
Nowhere     == "nowhere"         \* where a value that was not read comes from

ASSUME FetchAssumption ==
  /\ Boards \cap {Provisional, Nowhere} = {} /\ First \in Boards
  /\ NParams \in Nat \ {0} /\ FtpLen \in Nat \ {0}
  /\ MaxAttempts \in Nat \ {0} /\ MaxStalled \in Nat \ {0}
  /\ MaxSessions \in Nat /\ MaxSwitches \in Nat /\ MaxValues \in Nat

VARIABLES
  board,      \* the flight controller on the link
  vehicle,    \* tracker.current; history: the board it was made for
  session,    \* the service's session with it
  clients,    \* a GCS client is attached
  job,        \* the fetch under way: its step and what it has read
  aborted,    \* fetcher.aborted
  cache,      \* the snapshots, by uid
  bounds,     \* sessions, switches and values left
  outlived,   \* history: a MAVFTP download went on after its vehicle was gone
  mistaken    \* history: a board's message was taken for that of one before it

link  == <<board, vehicle, session, clients>>
vars  == <<link, job, aborted, cache, bounds, outlived, mistaken>>

Uids   == Boards \cup {Provisional}
Params == 0 .. NParams - 1

NoVehicle == [n |-> 0, uid |-> Provisional, of |-> Nowhere,
              connected |-> FALSE, armed |-> FALSE]
NoSession == [n |-> 0, attempts |-> 0, fetched |-> FALSE]
NoJob     == [pc |-> "none", n |-> 0, uid |-> Provisional]

(* A snapshot holds for each parameter the board its value was read from.    *)
Empty    == [params |-> [i \in Params |-> Nowhere], fetched |-> FALSE]
Busy == job.pc # "none"

-----------------------------------------------------------------------------
(* The cache.                                                                *)

ReplaceAll(uid, params) ==
  cache' = [cache EXCEPT ![uid] = [params |-> params, fetched |-> TRUE]]

ApplyValue(uid, i, from) == cache' = [cache EXCEPT ![uid].params[i] = from]

-----------------------------------------------------------------------------
(* ParamFetcher.fetch                                                        *)

Ends(status) ==
  /\ job' = NoJob
  /\ session' = IF status = "complete" /\ session.n = job.n
                THEN [session EXCEPT !.fetched = TRUE] ELSE session
  /\ UNCHANGED <<board, vehicle, clients>>

Listing == [job EXCEPT !.pc = "stream", !.list = [i \in Params |-> Nowhere]]

(* A message of the board is taken for one of the vehicle that is tracked,   *)
(* connected or lost: they have the same system id.                          *)
Taken ==
  /\ vehicle # NoVehicle
  /\ mistaken' = (mistaken \/ vehicle.of # board)

(* The board's MAVFTP server answers one more read.                          *)
FtpRead ==
  /\ job.pc = "ftp" /\ Len(job.read) < FtpLen /\ Taken
  /\ job' = [job EXCEPT !.read = Append(@, board)]
  /\ UNCHANGED <<link, aborted, cache, bounds, outlived>>

(* The whole file is read and parsed; one pieced together from two boards'   *)
(* may parse or not.                                                         *)
FtpDone ==
  /\ job.pc = "ftp" /\ Len(job.read) = FtpLen
  /\ \E from \in [Params -> {job.read[k] : k \in 1 .. FtpLen}] : ReplaceAll(job.uid, from)
  /\ Ends("complete")
  /\ UNCHANGED <<aborted, bounds, outlived, mistaken>>

(* The download fails, or what it returns is refused: the list is tried.     *)
FtpFails ==
  /\ job.pc = "ftp"
  /\ IF aborted THEN Ends("failed")
     ELSE job' = Listing /\ UNCHANGED link
  /\ UNCHANGED <<aborted, cache, bounds, outlived, mistaken>>

Gaps == {i \in Params : job.list[i] = Nowhere}

(* Mutant: what an aborted download has read is complete all the same.       *)
GivenUpLate == job.stalled = MaxStalled

(* Neither loop of fetchViaList goes on.                                     *)
GivenUp == aborted \/ job.stalled = MaxStalled

(* Mutant: a list that stalls is taken for the whole.                        *)
ListEndsAnyhow ==
  /\ Gaps = {} \/ GivenUp
  /\ ~aborted
  /\ ReplaceAll(job.uid, job.list) /\ Ends("complete")

ListEnds ==
  /\ Gaps = {} \/ GivenUp
  /\ IF GivenUp THEN Ends("failed") /\ UNCHANGED cache
     ELSE ReplaceAll(job.uid, job.list) /\ Ends("complete")

(* The stream goes quiet, or is complete: a download that heard nothing at   *)
(* all is given up, another fills its gaps.                                  *)
ListQuiet ==
  /\ job.pc = "stream"
  /\ \/ ListEnds
     \/ Gaps = Params /\ Ends("failed") /\ UNCHANGED cache
     \/ /\ Gaps \notin {{}, Params} /\ ~aborted
        /\ job' = [job EXCEPT !.pc = "gaps", !.before = Cardinality(Gaps)]
        /\ UNCHANGED <<link, cache>>
  /\ UNCHANGED <<aborted, bounds, outlived, mistaken>>

(* Mutant: rounds that bring nothing are not counted.                        *)
GapRoundUncounted ==
  /\ job.pc = "gaps"
  /\ \/ ListEnds
     \/ /\ Gaps # {} /\ ~GivenUp
        /\ job' = [job EXCEPT !.before = Cardinality(Gaps)]
        /\ UNCHANGED <<link, cache>>
  /\ UNCHANGED <<aborted, bounds, outlived, mistaken>>

(* A round of PARAM_REQUEST_READ is over.                                    *)
GapRound ==
  /\ job.pc = "gaps"
  /\ \/ ListEnds
     \/ /\ Gaps # {} /\ ~GivenUp
        /\ job' = [job EXCEPT !.before = Cardinality(Gaps),
                     !.stalled = IF Cardinality(Gaps) < job.before THEN 0 ELSE @ + 1]
        /\ UNCHANGED <<link, cache>>
  /\ UNCHANGED <<aborted, bounds, outlived, mistaken>>

(* The send of a request throws: the link is not writable.                   *)
SendFails ==
  /\ job.pc \in {"stream", "gaps"} /\ vehicle = NoVehicle
  /\ Ends("failed")
  /\ UNCHANGED <<aborted, cache, bounds, outlived, mistaken>>

(* handlePacket: a PARAM_VALUE, whoever asked for it.                        *)
ParamValue(i) ==
  /\ Taken
  /\ bounds.values > 0 /\ bounds' = [bounds EXCEPT !.values = @ - 1]
  /\ ApplyValue(vehicle.uid, i, board)
  /\ job' = IF job.pc \in {"stream", "gaps"} THEN [job EXCEPT !.list[i] = board] ELSE job
  /\ UNCHANGED <<link, aborted, outlived>>

-----------------------------------------------------------------------------
(* The service.                                                              *)

(* The vehicle is gone and abort() is called.                                *)
Forget ==
  /\ aborted' = TRUE
  /\ session' = NoSession
  /\ outlived' = (outlived \/ job.pc = "ftp")

(* onHeartbeat, onNewVehicle                                                 *)
Heartbeat(armed) ==
  /\ IF vehicle.connected
     THEN vehicle' = [vehicle EXCEPT !.armed = armed] /\ UNCHANGED <<session, bounds>>
     ELSE /\ bounds.sessions > 0
          /\ bounds' = [bounds EXCEPT !.sessions = @ - 1]
          /\ vehicle' = [n |-> bounds.sessions, uid |-> Provisional, of |-> board,
                         connected |-> TRUE, armed |-> armed]
          /\ session' = [NoSession EXCEPT !.n = bounds.sessions]
  /\ UNCHANGED <<board, clients, job, aborted, cache, outlived, mistaken>>

(* AUTOPILOT_VERSION: the vehicle a fetch was started for learns its uid     *)
(* too.                                                                      *)
Identity ==
  /\ Taken
  /\ vehicle' = [vehicle EXCEPT !.uid = board]
  /\ job' = IF job.n = vehicle.n THEN [job EXCEPT !.uid = board] ELSE job
  /\ UNCHANGED <<board, session, clients, aborted, cache, bounds, outlived>>

(* onTick finds no heartbeat for LINK_TIMEOUT_MS.                            *)
VehicleLost ==
  /\ vehicle.connected
  /\ vehicle' = [vehicle EXCEPT !.connected = FALSE]
  /\ Forget
  /\ UNCHANGED <<board, clients, job, cache, bounds, mistaken>>

(* onTick aborts a download while the vehicle is armed.                      *)
TickArmed ==
  /\ vehicle.connected /\ vehicle.armed /\ Busy
  /\ aborted' = TRUE
  /\ UNCHANGED <<link, job, cache, bounds, outlived, mistaken>>

(* Mutant: a vehicle whose downloads fail is asked again and again.          *)
TickFetchAgain ==
  /\ vehicle.connected /\ ~vehicle.armed /\ ~Busy /\ ~clients /\ ~session.fetched
  /\ session' = [session EXCEPT !.attempts = @ + 1]
  /\ aborted' = FALSE
  /\ job' = [pc |-> "ftp", n |-> vehicle.n, uid |-> vehicle.uid, read |-> <<>>,
             list |-> [i \in Params |-> Nowhere], stalled |-> 0, before |-> 0]
  /\ UNCHANGED <<board, vehicle, clients, cache, bounds, outlived, mistaken>>

(* onTick starts a download (shouldFetch), over MAVFTP when the vehicle has  *)
(* it; the board's identity, or the time to wait for it, has come.           *)
TickFetch ==
  /\ vehicle.connected /\ ~vehicle.armed /\ ~Busy /\ ~clients
  /\ ~session.fetched /\ session.attempts < MaxAttempts
  /\ session' = [session EXCEPT !.attempts = @ + 1]
  /\ aborted' = FALSE
  /\ \E pc \in {"ftp", "stream"} :
       job' = [pc |-> pc, n |-> vehicle.n, uid |-> vehicle.uid, read |-> <<>>,
               list |-> [i \in Params |-> Nowhere], stalled |-> 0, before |-> 0]
  /\ UNCHANGED <<board, vehicle, clients, cache, bounds, outlived, mistaken>>

(* A GCS client is in charge, or the last one leaves.                        *)
ClientsChange ==
  /\ clients' = ~clients
  /\ aborted' = (aborted \/ (Busy /\ ~clients))
  /\ UNCHANGED <<board, vehicle, session, job, cache, bounds, outlived, mistaken>>

(* closeTransport, and another vehicle, or the same, on the new link.        *)
SwitchLink(b) ==
  /\ bounds.switches > 0
  /\ bounds' = [bounds EXCEPT !.switches = @ - 1]
  /\ board' = b /\ vehicle' = NoVehicle
  /\ Forget
  /\ UNCHANGED <<clients, job, cache, mistaken>>

(* Another vehicle turns up on the same link, once the last one is given up. *)
BoardChanges(b) ==
  /\ ~vehicle.connected /\ b # board /\ bounds.switches > 0
  /\ bounds' = [bounds EXCEPT !.switches = @ - 1]
  /\ board' = b
  /\ UNCHANGED <<vehicle, session, clients, job, aborted, cache, outlived, mistaken>>

-----------------------------------------------------------------------------
(* No vehicle was ever seen.                                                 *)
Init ==
  /\ board = First /\ vehicle = NoVehicle /\ session = NoSession /\ clients = FALSE
  /\ job = NoJob /\ aborted = FALSE
  /\ cache = [u \in Uids |-> Empty]
  /\ bounds = [sessions |-> MaxSessions, switches |-> MaxSwitches,
               values |-> MaxValues]
  /\ outlived = FALSE /\ mistaken = FALSE

Fetching == FtpDone \/ FtpFails \/ ListQuiet \/ GapRound \/ SendFails

Next ==
  \/ FtpRead \/ Fetching
  \/ \E i \in Params : ParamValue(i)
  \/ \E armed \in BOOLEAN : Heartbeat(armed)
  \/ Identity \/ VehicleLost
  \/ TickArmed \/ TickFetch
  \/ ClientsChange
  \/ \E b \in Boards : SwitchLink(b) \/ BoardChanges(b)

(* A download ends its waits: MAVFTP returns (FtpDownload), timers fire.     *)
Spec == Init /\ [][Next]_vars /\ WF_vars(Fetching)

-----------------------------------------------------------------------------
TypeOK ==
  /\ board \in Boards /\ vehicle.uid \in Uids /\ vehicle.n \in 0 .. MaxSessions
  /\ session.n \in {0, vehicle.n} /\ session.attempts \in 0 .. MaxAttempts
  /\ job.pc \in {"none", "ftp", "stream", "gaps"}
  /\ Busy => job.n # 0 /\ Len(job.read) <= FtpLen /\ job.stalled \in 0 .. MaxStalled

(* The snapshot kept under a board's uid is of that board's parameters,      *)
(* unless a MAVFTP download outlived its vehicle or a message of another     *)
(* board came before its heartbeat, while the lost one was still tracked.    *)
Own(snapshot, b) == \A i \in Params : snapshot.params[i] \in {Nowhere, b}

CachedOwn ==
  outlived \/ mistaken \/ \A b \in Boards : Own(cache[b], b)

(* A snapshot marked as fetched is whole.                                    *)
FetchedWhole ==
  \A u \in Uids : cache[u].fetched => \A i \in Params : cache[u].params[i] # Nowhere

(* Every download ends, however its vehicle is lost, armed or exchanged: the *)
(* values that keep a stream or a round going are finitely many (MaxValues). *)
Returns == []<>~Busy

(* "Per-vehicle parameter cache, keyed by board UID": always.                *)
KeyedByBoard == \A b \in Boards : Own(cache[b], b)
=============================================================================
