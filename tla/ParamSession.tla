----------------------------- MODULE ParamSession -----------------------------
(***************************************************************************)
(* The parameters of the focused vehicle in the desktop app                *)
(* (apps/desktop/src/main/ipc-handlers.ts): requests that try the cache of *)
(* ArduDeck OS, then MAVFTP, then a streamed list whose stalls are         *)
(* recovered; one session of module variables they all fill; one slot for  *)
(* the MAVFTP client whose replies are routed, shared with the file        *)
(* browser; and a focus that moves from vehicle to vehicle meanwhile, as   *)
(* the operator selects one, links close and the primary one is made again.*)
(***************************************************************************)
EXTENDS Integers, FiniteSets, Sequences, Functions

CONSTANTS
  Vehicles,    \* the vehicles
  Boards,      \* those that come to the primary connection; the others have a
               \* fleet link each
  SysId,       \* their system ids
  Table,       \* the names of the parameters of each vehicle, in its order
  Requests,    \* requests for all parameters that may be under way at a time
  Browsers,    \* file browser operations that may be under way at a time
  FtpLen,      \* replies that make a MAVFTP download
  MaxRetries,  \* PARAM_LIST_MAX_RETRIES
  MaxStalled,  \* PARAM_MAX_STALLED_ROUNDS
  MaxCalls, MaxMoves, MaxValues  \* bounds on calls, moves of the focus, PARAM_VALUEs

None == "none"
Gone == "gone"
NamesOf(v) == Range(Table[v])
Names == UNION {NamesOf(v) : v \in Vehicles}

ASSUME ParamAssumption ==
  /\ Boards \subseteq Vehicles
  /\ Table \in [Vehicles -> Seq(Names)]
  /\ Gone \notin Vehicles /\ \A v \in Boards : SysId[v] \notin Vehicles \cup {Gone}
  /\ None \notin Vehicles \cup Requests \cup Browsers
  /\ FtpLen \in Nat \ {0}
  /\ MaxRetries \in Nat /\ MaxStalled \in Nat \ {0}
  /\ MaxCalls \in Nat /\ MaxMoves \in Nat /\ MaxValues \in Nat

VARIABLES
  focus,      \* focusedVehicle()
  board,      \* the vehicle of connectionState.systemId
  connected,  \* connectionState.isConnected
  identity,   \* lastFocusedIdentity
  closing,    \* the focused vehicle's fleet link is closed, not yet unregistered
  s,          \* the session: parameters, and the list download
  immediate,  \* setImmediate will call recoverParamDownload
  stray,      \* a timer nobody holds will call it
  resends,    \* calls of it that write PARAM_REQUEST_LIST again
  sending,    \* paramRecoveryInFlight
  busy,       \* paramRequestInFlight
  slot,       \* ftpClient
  op,         \* the requests and browser operations
  saved,      \* what each browser operation found in the slot
  bounds,     \* calls, moves and values left
  heard,      \* the vehicles focused since the session was reset
  outlived,   \* the requests that were under way when it was reset
  leaked,     \* the parameters are those one of these was answered
  unsent      \* the list could not be asked for

links    == <<board, connected, closing>>
recovery == <<immediate, stray, resends, sending>>
calls    == <<busy, slot, op, saved>>
history  == <<heard, outlived, leaked, unsent>>
vars     == <<focus, links, identity, s, recovery, calls, bounds, history>>

Users == Requests \cup Browsers
Idle  == [pc |-> "idle", to |-> None, guarded |-> FALSE, n |-> 0, src |-> {}]

(* received holds for each name the vehicle its value is of; told is how the *)
(* last download ended.                                                      *)
Nothing == [n \in Names |-> None]
Received(t) == {n \in Names : t.received[n] # None}
Fresh == [received |-> Nothing, indices |-> {}, expected |-> 0, active |-> FALSE,
          timer |-> FALSE, gapFill |-> FALSE, round |-> {}, retries |-> 0,
          stalled |-> 0, progress |-> 0, told |-> None]

-----------------------------------------------------------------------------
(* The focus.                                                                *)

UnderWay == {r \in Requests : op[r].pc # "idle"}

(* Mutant: the parameters stay.                                              *)
ResetKeepsValues ==
  /\ s' = [s EXCEPT !.indices = {}, !.expected = 0, !.active = FALSE, !.timer = FALSE,
             !.gapFill = FALSE, !.round = {}, !.told = None]
  /\ busy' = FALSE /\ slot' = None

(* resetParameterSession                                                     *)
Reset ==
  /\ s' = [s EXCEPT !.received = Nothing, !.indices = {}, !.expected = 0, !.active = FALSE,
             !.timer = FALSE, !.gapFill = FALSE, !.round = {}, !.told = None]
  /\ busy' = FALSE /\ slot' = None

(* The identity is the system id for the vehicle of the primary connection,  *)
(* and the registry's key, here the vehicle itself, for another's.  A key    *)
(* names the link it was made for, and is Gone with it.                      *)
focusIdentity(v) == IF v \in Boards THEN SysId[v] ELSE v
Forget(v) == identity' = IF identity = v THEN Gone ELSE identity

Refocus(v) == focus' = v /\ heard' = heard \cup ({v} \ {None})
KeepSession == UNCHANGED <<s, busy, slot, outlived, leaked>>

(* The vehicle v comes into focus, and its identity is now id.               *)
syncVehicleFocus(v, id) ==
  /\ identity' = id
  /\ IF identity # id
     THEN /\ Reset
          /\ focus' = v /\ heard' = {v} /\ outlived' = UnderWay /\ leaked' = FALSE
     ELSE Refocus(v) /\ KeepSession

Aside == UNCHANGED <<recovery, op, saved, unsent>>
Move == bounds.moves > 0 /\ bounds' = [bounds EXCEPT !.moves = @ - 1] /\ Aside

(* The operator selects a vehicle, perhaps the one that is focused; the      *)
(* unregistering of another vehicle's link says the same of the latter.      *)
Select(v) ==
  /\ Move /\ (v # focus \/ identity # focusIdentity(v))
  /\ v \in Boards => connected /\ v = board
  /\ syncVehicleFocus(v, focusIdentity(v))
  /\ closing' = FALSE /\ UNCHANGED <<board, connected>>

(* The fleet link of the focused vehicle closes, and the primary connection's*)
(* vehicle, if any, is focused in its place.  Then the link is unregistered. *)
LinkCloses ==
  /\ Move /\ focus \in Vehicles \ Boards
  /\ Refocus(IF connected THEN board ELSE None) /\ KeepSession
  /\ closing' = TRUE /\ identity' = Gone /\ UNCHANGED <<board, connected>>

Unregister ==
  /\ closing /\ closing' = FALSE
  /\ IF focus = None
     THEN UNCHANGED <<focus, identity, heard>> /\ KeepSession
     ELSE syncVehicleFocus(focus, focusIdentity(focus))
  /\ Aside /\ UNCHANGED <<board, connected, bounds>>

(* The primary connection is lost, or the user disconnects it, whatever      *)
(* vehicle is focused.                                                       *)
PrimaryGoes ==
  /\ Move /\ connected' = FALSE /\ Forget(board)
  /\ focus' = IF focus \in Boards THEN None ELSE focus
  /\ UNCHANGED <<closing, s, heard, outlived, leaked>>

PrimaryCloses == connected /\ PrimaryGoes /\ UNCHANGED <<board, busy, slot>>

Disconnect == board # None /\ PrimaryGoes /\ board' = None /\ busy' = FALSE /\ slot' = None

(* A first heartbeat comes over a new primary connection.  The focus is      *)
(* synchronised if none is focused, and before the system id is known, so    *)
(* that the identity is the key; when the connection is made again by itself *)
(* the system id is still that of the vehicle before, and nothing is         *)
(* synchronised for one that has it too.                                     *)
Connect(v) ==
  /\ ~connected /\ connected' = TRUE /\ board' = v
  /\ LET again == IF board = None THEN FALSE ELSE SysId[v] = SysId[board]
     IN  \/ focus # None /\ UNCHANGED <<focus, identity, heard>> /\ KeepSession
         \/ /\ focus = None /\ (closing \/ again)
            /\ Refocus(v) /\ KeepSession /\ UNCHANGED identity
         \/ focus = None /\ ~closing /\ ~again /\ syncVehicleFocus(v, v)
  /\ Aside /\ UNCHANGED <<closing, bounds>>

-----------------------------------------------------------------------------
(* The list download.                                                        *)

(* Mutant: the indices of the last download stay.                            *)
ListedKeepsIndices == [Fresh EXCEPT !.active = TRUE, !.indices = s.indices]

(* What requestParamsTraditional sets before it writes.                      *)
Listed == [Fresh EXCEPT !.active = TRUE]

Missing == 0 .. s.expected - 1 \ s.indices
Ended(told) == [s EXCEPT !.timer = FALSE, !.active = FALSE, !.gapFill = FALSE, !.told = told]

(* handleParamValuePacket: the k-th parameter of the focused vehicle, and    *)
(* how many it has.  The answer to a PARAM_SET has no index.                 *)
ParamValue(k, indexed) ==
  /\ bounds.values > 0 /\ bounds' = [bounds EXCEPT !.values = @ - 1]
  /\ LET count == Len(Table[focus])
         seen == IF s.active /\ indexed THEN {k - 1} ELSE {}
         t == [s EXCEPT !.received[Table[focus][k]] = focus, !.expected = count,
                        !.indices = @ \cup seen, !.round = @ \ seen]
         all == Cardinality(Received(t)) >= count
     IN  \/ ~s.active /\ s' = t /\ UNCHANGED immediate
         \/ /\ s.active /\ all
            /\ s' = [t EXCEPT !.active = FALSE, !.gapFill = FALSE, !.round = {},
                              !.timer = FALSE, !.told = "complete"]
            /\ UNCHANGED immediate
         \/ /\ s.active /\ ~all
            /\ LET next == s.gapFill /\ ~sending /\ t.round = {}
               IN  /\ s' = [t EXCEPT !.timer = ~next]
                   /\ immediate' = (immediate \/ next)
  /\ UNCHANGED <<focus, links, identity, stray, resends, sending, calls, history>>

(* Mutant: one retry too many.                                               *)
ListOnceMore ==
  IF s.retries > MaxRetries
  THEN s' = Ended(None) /\ UNCHANGED resends
  ELSE /\ s' = [s EXCEPT !.timer = FALSE, !.retries = @ + 1]
       /\ resends' = resends + 1

(* Nothing has arrived: the list is asked for again.                         *)
ListAgain ==
  IF s.retries >= MaxRetries
  THEN s' = Ended(None) /\ UNCHANGED resends
  ELSE /\ s' = [s EXCEPT !.timer = FALSE, !.retries = @ + 1]
       /\ resends' = resends + 1

(* Mutant: rounds without progress are not counted.                          *)
GapRoundUncounted ==
  /\ s' = [s EXCEPT !.progress = Cardinality(s.indices), !.gapFill = TRUE,
                    !.round = Missing, !.timer = TRUE]
  /\ sending' = TRUE

(* What has not arrived is asked for, a chunk at a time.                     *)
GapRound ==
  LET stalled == IF Cardinality(s.indices) <= s.progress THEN s.stalled + 1 ELSE 0
      counted(t) == [t EXCEPT !.stalled = stalled, !.progress = Cardinality(s.indices)]
  IN  \/ /\ stalled >= MaxStalled
         /\ s' = counted(Ended(None)) /\ UNCHANGED sending
      \/ /\ stalled < MaxStalled /\ Missing = {}
         /\ s' = counted(Ended("complete")) /\ UNCHANGED sending
      \/ /\ stalled < MaxStalled
         /\ \E asked \in SUBSET Missing \ {{}} :
              s' = [counted(s) EXCEPT !.gapFill = TRUE, !.round = asked, !.timer = TRUE]
         /\ sending' = TRUE

recoverParamDownload ==
  \/ ~s.active /\ s' = [s EXCEPT !.timer = FALSE] /\ UNCHANGED <<resends, sending>>
  \/ s.active /\ sending /\ s' = [s EXCEPT !.timer = TRUE] /\ UNCHANGED <<resends, sending>>
  \/ /\ s.active /\ ~sending /\ focus = None
     /\ s' = Ended(None) /\ UNCHANGED <<resends, sending>>
  \/ /\ s.active /\ ~sending /\ focus # None
     /\ IF s.expected = 0 THEN ListAgain /\ UNCHANGED sending
        ELSE GapRound /\ UNCHANGED resends

(* It is called by the timer of the download; or by setImmediate or a timer  *)
(* nobody holds any more, and then forgets the timer it finds.               *)
Recover ==
  /\ UNCHANGED <<focus, links, identity, calls, bounds, history>>
  /\ \/ s.timer /\ UNCHANGED <<immediate, stray>>
     \/ immediate /\ immediate' = FALSE /\ stray' = (stray \/ s.timer)
     \/ stray /\ stray' = s.timer /\ UNCHANGED immediate
  /\ recoverParamDownload

(* The list was asked for again, or could not be: the timer is armed.        *)
ResendOver ==
  /\ resends > 0 /\ resends' = resends - 1
  /\ UNCHANGED <<focus, links, identity, immediate, stray, sending, calls, bounds, history>>
  /\ s' = [s EXCEPT !.timer = TRUE]

(* The reads of a round are sent, or no longer wanted, or a send failed.     *)
RoundSent ==
  /\ sending /\ sending' = FALSE
  /\ UNCHANGED <<focus, links, identity, s, immediate, stray, resends, calls, bounds, history>>

-----------------------------------------------------------------------------
(* The requests.                                                             *)

Call(u) ==
  /\ op[u] = Idle /\ focus # None
  /\ bounds.calls > 0 /\ bounds' = [bounds EXCEPT !.calls = @ - 1]

(* The finally of a request that was guarded clears the guard, whoever set   *)
(* it.                                                                       *)
Unguard(o) == busy' = (busy /\ ~o.guarded)

(* requestParamsTraditional, for request r in state o.                       *)
List(r, o) ==
  /\ op' = [op EXCEPT ![r] = [o EXCEPT !.pc = "list"]]
  /\ s' = Listed /\ unsent' = FALSE /\ leaked' = FALSE
  /\ Unguard(o)

(* requestParamsViaFtp                                                       *)
Ftp(r, o) ==
  /\ op' = [op EXCEPT ![r] = [o EXCEPT !.pc = "ftp"]]
  /\ slot' = r
  /\ UNCHANGED <<s, unsent, leaked>>

(* The values f are there at once, as those of all parameters of vehicle v.  *)
Load(r, f, v) ==
  /\ s' = [s EXCEPT !.received = f, !.expected = Len(Table[v]), !.told = None]
  /\ op' = [op EXCEPT ![r] = Idle] /\ outlived' = outlived \ {r}
  /\ leaked' = (r \in outlived)
  /\ Unguard(op[r])
  /\ UNCHANGED unsent

(* What the cache holds of vehicle v; and what replies of the vehicles vs    *)
(* make up, whose header says how many parameters v has.                     *)
Cached(v) == [n \in Names |-> IF n \in NamesOf(v) THEN v ELSE None]
Packs(vs, v) == {f \in [Names -> vs \cup {None}] :
                  /\ \A n \in Names : f[n] # None => n \in NamesOf(f[n])
                  /\ Cardinality({n \in Names : f[n] # None}) = Cardinality(NamesOf(v))}

(* PARAM_REQUEST_ALL, which is guarded, and the request of the main process, *)
(* which is not, as far as their first await: the cache of ArduDeck OS is    *)
(* asked for the primary vehicle alone.                                      *)
RequestAll(r, guarded) ==
  /\ Call(r) /\ (guarded => ~busy)
  /\ LET o == [Idle EXCEPT !.to = focus, !.guarded = guarded]
     IN  \/ /\ focus \in Boards
            /\ op' = [op EXCEPT ![r] = [o EXCEPT !.pc = "asked"]]
            /\ busy' = (busy \/ guarded)
            /\ UNCHANGED <<s, slot, unsent, leaked>>
         \/ Ftp(r, o) /\ busy' = (busy \/ guarded)
         \/ List(r, o) /\ UNCHANGED slot
  /\ UNCHANGED <<focus, links, identity, recovery, saved, heard, outlived>>

(* The cache has the parameters, or they are asked of the vehicle.           *)
CacheAnswers(r) ==
  /\ op[r].pc = "asked"
  /\ UNCHANGED <<focus, links, identity, recovery, saved, bounds, heard>>
  /\ \/ Load(r, Cached(op[r].to), op[r].to) /\ UNCHANGED slot
     \/ Ftp(r, op[r]) /\ UNCHANGED <<busy, outlived>>
     \/ List(r, op[r]) /\ UNCHANGED <<slot, outlived>>

(* The vehicle answers the client of u; the answer goes to the client in the *)
(* slot, which may take an answer to another's request for its own.          *)
Reply(u) ==
  /\ op[u].pc = "ftp" /\ op[u].to = focus
  /\ slot # None /\ op[slot].pc = "ftp" /\ op[slot].n < FtpLen
  /\ op' = [op EXCEPT ![slot].n = @ + 1,
              ![slot].src = @ \cup {IF u \in Browsers THEN "file" ELSE focus}]
  /\ UNCHANGED <<focus, links, identity, s, recovery, busy, slot, saved, bounds, history>>

(* The download returns, and the slot is emptied.  A pack that another       *)
(* file's bytes are in does not parse.                                       *)
FtpReturns(r) ==
  /\ op[r].pc = "ftp"
  /\ slot' = None /\ UNCHANGED <<focus, links, identity, recovery, saved, bounds, heard>>
  /\ \/ /\ op[r].n = FtpLen /\ "file" \notin op[r].src
        /\ \E v \in op[r].src : \E f \in Packs(op[r].src, v) : Load(r, f, v)
     \/ List(r, op[r]) /\ UNCHANGED outlived

(* PARAM_REQUEST_LIST is written and the timer armed, or the write fails.    *)
ListSent(r) ==
  /\ op[r].pc = "list"
  /\ UNCHANGED <<focus, links, identity, recovery, busy, slot, saved, bounds, heard, leaked>>
  /\ op' = [op EXCEPT ![r] = Idle] /\ outlived' = outlived \ {r}
  /\ \/ s' = [s EXCEPT !.timer = TRUE] /\ UNCHANGED unsent
     \/ unsent' = TRUE /\ UNCHANGED s

-----------------------------------------------------------------------------
(* The file browser.                                                         *)

Browse(b) ==
  /\ Call(b)
  /\ op' = [op EXCEPT ![b] = [Idle EXCEPT !.pc = "ftp", !.to = focus]]
  /\ saved' = [saved EXCEPT ![b] = slot] /\ slot' = b
  /\ UNCHANGED <<focus, links, identity, s, recovery, busy, history>>

Browsed(b) ==
  /\ op[b].pc = "ftp"
  /\ op' = [op EXCEPT ![b] = Idle]
  /\ slot' = saved[b] /\ saved' = [saved EXCEPT ![b] = None]
  /\ UNCHANGED <<focus, links, identity, s, recovery, busy, bounds, history>>

-----------------------------------------------------------------------------
(* The primary connection has just been made for the first time.             *)
Init ==
  /\ focus \in Boards /\ board = focus /\ identity = focus
  /\ connected = TRUE /\ closing = FALSE
  /\ s = Fresh
  /\ immediate = FALSE /\ stray = FALSE /\ resends = 0 /\ sending = FALSE
  /\ busy = FALSE /\ slot = None
  /\ op = [u \in Users |-> Idle] /\ saved = [b \in Browsers |-> None]
  /\ bounds = [calls |-> MaxCalls, moves |-> MaxMoves, values |-> MaxValues]
  /\ heard = {focus} /\ outlived = {} /\ leaked = FALSE /\ unsent = FALSE

Writes == ResendOver \/ RoundSent \/ \E r \in Requests : ListSent(r)
Answers == \E r \in Requests : CacheAnswers(r) \/ FtpReturns(r)

(* Requests differ in nothing: one that is free stands for all of them.      *)
Free == {r \in Requests : op[r] = Idle}

Next ==
  \/ \E v \in Vehicles : Select(v)
  \/ LinkCloses \/ Unregister \/ PrimaryCloses \/ Disconnect
  \/ \E v \in Boards : Connect(v)
  \/ /\ focus # None
     /\ \E k \in DOMAIN Table[focus], indexed \in BOOLEAN : ParamValue(k, indexed)
  \/ Recover \/ Writes \/ Answers
  \/ \E guarded \in BOOLEAN :
       Free # {} /\ RequestAll(CHOOSE r \in Free : TRUE, guarded)
  \/ \E u \in Users : Reply(u)
  \/ \E b \in Browsers : Browse(b) \/ Browsed(b)

(* Timers fire, writes settle, the cache answers or times out and MAVFTP     *)
(* downloads return.                                                         *)
Spec == Init /\ [][Next]_vars /\ WF_vars(Recover) /\ WF_vars(Writes) /\ WF_vars(Answers)

-----------------------------------------------------------------------------
TypeOK ==
  /\ focus \in Vehicles \cup {None}
  /\ s.indices \subseteq Nat /\ s.expected \in Nat
  /\ s.round \subseteq Nat \ s.indices /\ (s.gapFill => s.active)
  /\ s.retries <= MaxRetries /\ s.stalled <= MaxStalled
  /\ s.progress \in Nat
  /\ slot \in Users \cup {None}
  /\ \A u \in Users : op[u].pc \in {"idle", "asked", "ftp", "list"} /\ op[u].n <= FtpLen

(* Every parameter of the session is of a vehicle focused since it was       *)
(* reset, unless they are those a request was answered that had been under   *)
(* way at that ("Moving to a different vehicle drops the previous one's      *)
(* parameter session").                                                      *)
SessionOwn == leaked \/ Range(s.received) \subseteq heard \cup {None}

(* When a list download is reported as complete, the session has every       *)
(* parameter of the focused vehicle, and of it, though completion is judged  *)
(* by how many names there are and by the last count heard: unless values    *)
(* asked for before the last reset were loaded since the list was asked for, *)
(* or another vehicle was focused without a reset.                           *)
Whole ==
  [][(s.told # "complete" /\ s'.told = "complete" /\ ~leaked /\ heard = {focus})
       => \A n \in NamesOf(focus) : s'.received[n] = focus]_vars

(* A list download ends, unless it could not be asked for, however requests  *)
(* overlap, links close and the focus moves, once the vehicle has stopped to *)
(* send the parameters that each time arm its timer again.                   *)
Ends == []<>(~s.active \/ unsent)

(* Moving to another vehicle drops the parameters of the one before, for     *)
(* good.                                                                     *)
Dropped == Range(s.received) \subseteq heard \cup {None}

(* A slot nobody uses is empty ("wait for the parameter download to release  *)
(* it").                                                                     *)
Released == (\A u \in Users : op[u].pc # "ftp") => slot = None
=============================================================================
