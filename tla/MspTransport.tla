---------------------------- MODULE MspTransport ----------------------------
(***************************************************************************)
(* The MSP side of the desktop app (apps/desktop/src/main/msp): requests   *)
(* that wait for each other on a chain of promises, config commands that   *)
(* pause the telemetry poller with a counter, named settings that are read *)
(* before they are written, telemetry that is started and stopped, CLI     *)
(* mode, and connections that are lost, rebooted and made again.           *)
(*                                                                         *)
(* JavaScript runs the steps of Microtask before any other event.          *)
(***************************************************************************)
EXTENDS Integers, Sequences, FiniteSets, SequencesExt

CONSTANTS
  Editors,    \* callers of setSetting
  Lockers,    \* callers of the config commands that hold the config lock
  Pollers,    \* telemetry polls that may be under way at a time
  Starters,   \* start-ups of the telemetry that may be under way at a time
  Names,      \* names of settings of the flight controller
  PollLen,    \* requests of one telemetry poll
  Attempts,   \* attempts to fetch the box names
  MaxCalls,   \* bound on the calls, polls and start-ups
  MaxBoards,  \* bound on the flight controllers connected one after another
  MaxWire     \* bound on the replies on their way

ASSUME MspAssumption ==
  /\ PollLen \in Nat \ {0} /\ Attempts \in Nat \ {0}
  /\ MaxCalls \in Nat /\ MaxBoards \in Nat \ {0} /\ MaxWire \in Nat

(* The callers are of one kind each.                                         *)
ASSUME CallersAssumption ==
  /\ Editors \cap Lockers = {} /\ Editors \cap Pollers = {} /\ Editors \cap Starters = {}
  /\ Lockers \cap Pollers = {} /\ Lockers \cap Starters = {} /\ Pollers \cap Starters = {}
  /\ IsFiniteSet(Lockers)
  /\ "nobody" \notin Editors \cup Lockers \cup Pollers \cup Starters
  /\ "none" \notin Names

VARIABLES
  board,      \* the flight controller connected last, by number
  conn,       \* ctx.currentTransport: none, open or closed
  cli,        \* CLI mode: off, entering (the flag is set) or on ('#' is sent)
  wire,       \* replies on their way from the board, in order
  chain,      \* the chain of promises ctx.requestMutex ends, by number
  queue,      \* the requests that hold or wait for the mutex of their chain
  req,        \* each caller's request
  pending,    \* pendingResponses: the caller that waits for each command
  op,         \* how far each caller is
  calls,      \* calls, polls and start-ups left
  lock,       \* configLockCount
  interval,   \* telemetryInterval is set
  wanted,     \* telemetry was started since it was stopped last
  info,       \* settingsCache: the metadata cached under each name
  late,       \* history: a request for metadata was given up since the last cleanup
  torn,       \* history: a request in flight outlived the last cleanup
  cut         \* history: a config command was under way at the last cleanup

link     == <<board, conn, cli>>
requests == <<wire, chain, queue, req, pending, late, torn>>
callers  == <<op, calls, lock, cut, info>>
polling  == <<interval, wanted>>
vars     == <<link, requests, callers, polling>>

None == [name |-> "none", board |-> 0]
Callers == Editors \cup Lockers \cup Pollers \cup Starters
Commands == {"info", "set", "config", "telemetry", "rxmap", "boxes"}
Nobody == "nobody"
NoRequest == [pc |-> "none", cmd |-> "none", arg |-> None, chain |-> 0]
Does(step, cmd, arg, left) ==
  [step |-> step, cmd |-> cmd, arg |-> arg, left |-> left, fresh |-> FALSE]
Idle == Does("idle", "none", None, 0)

-----------------------------------------------------------------------------
(* sendMspRequest and its variants.                                          *)

(* Mutant: the mutex is free for whoever asks.                               *)
HoldsAlways(c) == c \in ToSet(queue)

(* The requests before c on its chain of promises have returned.             *)
Holds(c) ==
  \E i \in DOMAIN queue :
    /\ queue[i] = c
    /\ \A j \in 1 .. i - 1 : req[queue[j]].chain # req[c].chain

(* Up to acquireMutex: the request fails at once when there is no open       *)
(* transport or CLI mode is on, and queues otherwise.                        *)
Issue(c) ==
  /\ op[c].step = "go" /\ req[c].pc = "none"
  /\ LET ready == conn = "open" /\ cli = "off"
     IN  /\ req' = [req EXCEPT ![c] = [pc |-> IF ready THEN "queued" ELSE "rejected",
                                       cmd |-> op[c].cmd, arg |-> op[c].arg, chain |-> chain]]
         /\ queue' = IF ready THEN Append(queue, c) ELSE queue
  /\ UNCHANGED <<link, wire, chain, pending, late, torn, callers, polling>>

(* What the board answers: nothing in CLI mode, and a message may be lost.   *)
Answer(c) ==
  \/ UNCHANGED wire
  \/ /\ cli # "on" /\ Len(wire) < MaxWire
     /\ \E kind \in {"response", "error"} :
          wire' = Append(wire, [kind |-> kind, cmd |-> req[c].cmd,
                                arg |-> [req[c].arg EXCEPT !.board = board]])

(* The mutex is acquired: the write starts if the transport is still open.   *)
Begin(c) ==
  /\ req[c].pc = "queued" /\ Holds(c)
  /\ IF conn = "open"
     THEN req' = [req EXCEPT ![c].pc = "writing"] /\ Answer(c)
     ELSE req' = [req EXCEPT ![c].pc = "rejected"] /\ UNCHANGED wire
  /\ UNCHANGED <<link, chain, queue, pending, late, torn, callers, polling>>

-----------------------------------------------------------------------------
(* A request returns: the mutex is released and its caller goes on.          *)

(* setSetting with the metadata, cached under the name asked for.            *)
EditorGoesOn(c) ==
  /\ IF req[c].cmd = "info" /\ req[c].pc = "resolved"
     THEN /\ info' = [info EXCEPT ![op[c].arg.name] = req[c].arg]
          /\ op' = [op EXCEPT ![c].cmd = "set", ![c].arg = req[c].arg]
     ELSE /\ op' = [op EXCEPT ![c] = Idle]
          /\ UNCHANGED info
  /\ UNCHANGED <<lock, polling>>

(* Mutant: the end of one command ends the pause for all.                    *)
LockerResumes(c) ==
  /\ op' = [op EXCEPT ![c] = Idle]
  /\ lock' = 0
  /\ UNCHANGED <<info, polling>>

(* The finally of withConfigLock.                                            *)
LockerGoesOn(c) ==
  /\ op' = [op EXCEPT ![c] = Idle]
  /\ lock' = lock - 1
  /\ UNCHANGED <<info, polling>>

(* The next request of the poll, whatever became of this one.                *)
PollerGoesOn(c) ==
  /\ IF op[c].left = 1
     THEN op' = [op EXCEPT ![c] = Idle]
     ELSE op' = [op EXCEPT ![c].step = "delay", ![c].left = @ - 1]
  /\ UNCHANGED <<lock, info, polling>>

(* Mutant: a start-up that was overtaken by a stop starts the polls.         *)
StarterIgnoresStop(c) ==
  /\ \/ /\ req[c].cmd = "rxmap"
        /\ op' = [op EXCEPT ![c].cmd = "boxes", ![c].left = Attempts]
        /\ UNCHANGED interval
     \/ /\ req[c].cmd = "boxes"
        /\ op' = [op EXCEPT ![c] = Idle]
        /\ interval' = TRUE
  /\ UNCHANGED <<lock, info, wanted>>

(* The start-up of the telemetry: the RX map, then the box names, then the   *)
(* interval, unless telemetry was stopped or started again meanwhile.        *)
StarterGoesOn(c) ==
  /\ \/ /\ req[c].cmd = "rxmap"
        /\ op' = IF op[c].fresh THEN [op EXCEPT ![c].cmd = "boxes", ![c].left = Attempts]
                 ELSE [op EXCEPT ![c] = Idle]
        /\ UNCHANGED interval
     \/ /\ req[c].cmd = "boxes" /\ req[c].pc = "rejected" /\ op[c].left > 1
        /\ op' = [op EXCEPT ![c].step = "delay", ![c].left = @ - 1]
        /\ UNCHANGED interval
     \/ /\ req[c].cmd = "boxes" /\ (req[c].pc = "resolved" \/ op[c].left = 1)
        /\ op' = [op EXCEPT ![c] = Idle]
        /\ interval' = (interval \/ op[c].fresh)
  /\ UNCHANGED <<lock, info, wanted>>

Return(c) ==
  /\ req[c].pc \in {"resolved", "rejected"}
  /\ req' = [req EXCEPT ![c] = NoRequest]
  /\ \/ c \notin ToSet(queue) /\ UNCHANGED queue
     \/ \E i \in DOMAIN queue : queue[i] = c /\ queue' = RemoveAt(queue, i)
  /\ \/ c \in Editors  /\ EditorGoesOn(c)
     \/ c \in Lockers  /\ LockerGoesOn(c)
     \/ c \in Pollers  /\ PollerGoesOn(c)
     \/ c \in Starters /\ StarterGoesOn(c)
  /\ UNCHANGED <<link, wire, chain, pending, late, torn, calls, cut>>

Step(c) == Issue(c) \/ Begin(c) \/ Return(c)

Microtask == \E c \in Callers : Step(c)

(* No microtask is left to run.                                              *)
Quiet ==
  \A c \in Callers :
    /\ ~(op[c].step = "go" /\ req[c].pc = "none")
    /\ req[c].pc \notin {"resolved", "rejected"}
    /\ ~(req[c].pc = "queued" /\ Holds(c))

-----------------------------------------------------------------------------
(* The transport, and the timers of the requests.                            *)

(* The write settles: with success the reply is expected from now on.        *)
WriteDone(c) ==
  /\ req[c].pc = "writing" /\ Quiet
  /\ \/ /\ req' = [req EXCEPT ![c].pc = "awaiting"]
        /\ pending' = [pending EXCEPT ![req[c].cmd] = c]
        /\ UNCHANGED late
     \/ /\ req' = [req EXCEPT ![c].pc = "rejected"]
        /\ late' = (late \/ req[c].cmd = "info")
        /\ UNCHANGED pending
  /\ UNCHANGED <<link, wire, chain, queue, torn, callers, polling>>

(* The data handler: replies are matched by command alone, and not looked at *)
(* in CLI mode.                                                              *)
Receive ==
  /\ wire # <<>> /\ Quiet
  /\ wire' = Tail(wire)
  /\ LET m == Head(wire)
         c == pending[m.cmd]
     IN  IF cli = "off" /\ c # Nobody
         THEN /\ pending' = [pending EXCEPT ![m.cmd] = Nobody]
              /\ req' = IF m.kind = "response"
                        THEN [req EXCEPT ![c].pc = "resolved", ![c].arg = m.arg]
                        ELSE [req EXCEPT ![c].pc = "rejected"]
         ELSE UNCHANGED <<pending, req>>
  /\ UNCHANGED <<link, chain, queue, late, torn, callers, polling>>

(* Mutant: the entry of the request stays.                                   *)
TimeoutKeeps(c) ==
  /\ req[c].pc = "awaiting" /\ Quiet
  /\ req' = [req EXCEPT ![c].pc = "rejected"]
  /\ late' = (late \/ req[c].cmd = "info")
  /\ UNCHANGED <<link, wire, chain, queue, pending, torn, callers, polling>>

(* The timer takes the entry of its command away, whoever it belongs to.     *)
Timeout(c) ==
  /\ req[c].pc = "awaiting" /\ Quiet
  /\ req' = [req EXCEPT ![c].pc = "rejected"]
  /\ pending' = [pending EXCEPT ![req[c].cmd] = Nobody]
  /\ late' = (late \/ req[c].cmd = "info")
  /\ UNCHANGED <<link, wire, chain, queue, torn, callers, polling>>

-----------------------------------------------------------------------------
(* The calls.                                                                *)

Call(c) == op[c] = Idle /\ calls > 0 /\ Quiet /\ calls' = calls - 1

SetSetting(c, n) ==
  /\ Call(c) /\ conn = "open"
  /\ op' = [op EXCEPT ![c] = IF info[n] = None
                              THEN Does("go", "info", [name |-> n, board |-> 0], 0)
                              ELSE Does("go", "set", info[n], 0)]
  /\ UNCHANGED <<link, requests, lock, cut, info, polling>>

(* withConfigLock: the first holder waits for the poller to fall silent.     *)
TakeConfigLock(c) ==
  /\ Call(c) /\ conn = "open"
  /\ lock' = lock + 1
  /\ op' = [op EXCEPT ![c] = Does(IF lock + 1 = 1 THEN "delay" ELSE "go", "config", None, 0)]
  /\ UNCHANGED <<link, requests, cut, info, polling>>

(* The timer of a locker's pause, a poll's or a start-up's next request.     *)
DelayOver(c) ==
  /\ op[c].step = "delay" /\ Quiet
  /\ op' = [op EXCEPT ![c].step = "go"]
  /\ UNCHANGED <<link, requests, calls, lock, cut, info, polling>>

(* A tick of the telemetry interval that polls.  Polls overlap: one that is  *)
(* stuck for five seconds, or was stopped, is no longer in the way.          *)
PollTick(c) ==
  /\ Call(c) /\ interval /\ conn = "open" /\ lock <= 0 /\ cli = "off"
  /\ op' = [op EXCEPT ![c] = Does("go", "telemetry", None, PollLen)]
  /\ UNCHANGED <<link, requests, lock, cut, info, polling>>

(* The start-ups under way, once telemetryGeneration is incremented.         *)
Overtaken == [c \in Callers |-> [op[c] EXCEPT !.fresh = FALSE]]

(* startMspTelemetry                                                         *)
Starts(c) ==
  /\ Call(c)
  /\ wanted' = TRUE /\ interval' = FALSE
  /\ op' = [Overtaken EXCEPT ![c] = [step |-> "go", cmd |-> "rxmap", arg |-> None,
                                     left |-> 0, fresh |-> TRUE]]

StartTelemetry(c) == Starts(c) /\ UNCHANGED <<link, requests, lock, cut, info>>

(* stopMspTelemetry                                                          *)
Stops == wanted' = FALSE /\ interval' = FALSE /\ op' = Overtaken

StopTelemetry ==
  /\ wanted /\ Quiet
  /\ Stops
  /\ UNCHANGED <<link, requests, calls, lock, cut, info>>

-----------------------------------------------------------------------------
(* CLI mode.                                                                 *)

EnterCli ==
  /\ conn = "open" /\ cli = "off" /\ Quiet
  /\ cli' = "entering"
  /\ Stops
  /\ UNCHANGED <<board, conn, requests, calls, lock, cut, info>>

(* '#' is sent 100 ms later.  When the transport closed meanwhile, or the     *)
(* write fails, CLI mode is switched off again, and telemetry on.             *)
CliPrompt ==
  /\ cli = "entering" /\ Quiet
  /\ \/ conn = "open" /\ cli' = "on" /\ UNCHANGED <<op, calls, polling>>
     \/ cli' = "off" /\ \E c \in Starters : Starts(c)
  /\ UNCHANGED <<board, conn, requests, lock, cut, info>>

(* exitCliMode: the board answers MSP again, and reboots.                    *)
ExitCli ==
  /\ cli = "on" /\ Quiet
  /\ cli' = "off"
  /\ Stops
  /\ UNCHANGED <<board, conn, requests, calls, lock, cut, info>>

-----------------------------------------------------------------------------
(* The connection.                                                           *)

(* A chain nobody waits on.                                                  *)
NewChain ==
  CHOOSE n \in 0 .. Len(queue) : \A i \in DOMAIN queue : req[queue[i]].chain # n

(* The callers whose entry in pendingResponses is in place.                  *)
Expecting == {c \in Callers : \E cmd \in Commands : pending[cmd] = c}

(* The connection is gone: the callers with an entry are in state pc and the *)
(* settings cache is left as cached.  A request still being written, or      *)
(* whose entry another has replaced, is not reached.                         *)
Clear(pc, cached) ==
  /\ conn # "none" /\ Quiet
  /\ conn' = "none" /\ cli' = "off" /\ wire' = <<>> /\ late' = FALSE
  /\ req' = [c \in Callers |-> IF c \in Expecting THEN [req[c] EXCEPT !.pc = pc] ELSE req[c]]
  /\ torn' = \E c \in Callers \ Expecting : req[c].pc \in {"writing", "awaiting"}
  /\ pending' = [cmd \in Commands |-> Nobody]
  /\ chain' = NewChain /\ lock' = 0
  /\ cut' = \E c \in Lockers : op[c] # Idle
  /\ info' = cached
  /\ Stops
  /\ UNCHANGED <<board, queue, calls>>

(* Mutant: the callers that wait for a reply are forgotten.                  *)
CleanupForgets == Clear("forgotten", [n \in Names |-> None])

(* Mutant: the metadata of the settings are kept.                            *)
CleanupKeepsInfo == Clear("rejected", info)

(* cleanupMspConnection: the connection is lost, or closed by the user.      *)
Cleanup == Clear("rejected", [n \in Names |-> None])

(* The transport closes for a reboot the app asked for: nothing is cleaned   *)
(* up, the app reconnects.                                                   *)
Drop ==
  /\ conn = "open" /\ Quiet
  /\ conn' = "closed" /\ wire' = <<>>
  /\ UNCHANGED <<board, cli, chain, queue, req, pending, late, torn, callers, polling>>

(* tryMspDetection on a new transport: to the same board after a reboot,     *)
(* to any after a cleanup.  CLI mode that was still on ends as in the        *)
(* terminal, with telemetry started.                                         *)
Connect ==
  /\ conn # "open" /\ Quiet
  /\ \/ conn = "closed" /\ UNCHANGED board
     \/ conn = "none" /\ board' \in {board, board + 1} \cap 1 .. MaxBoards
  /\ conn' = "open" /\ cli' = "off" /\ wire' = <<>>
  /\ IF cli = "off" THEN UNCHANGED <<op, calls, polling>>
     ELSE \E c \in Starters : Starts(c)
  /\ UNCHANGED <<chain, queue, req, pending, late, torn, lock, cut, info>>

-----------------------------------------------------------------------------
(* The app has connected to its first board, and telemetry runs or does not. *)
Init ==
  /\ board = 1 /\ conn = "open" /\ cli = "off"
  /\ wire = <<>> /\ chain = 0 /\ queue = <<>>
  /\ late = FALSE /\ torn = FALSE
  /\ req = [c \in Callers |-> NoRequest]
  /\ pending = [cmd \in Commands |-> Nobody]
  /\ op = [c \in Callers |-> Idle]
  /\ calls = MaxCalls
  /\ lock = 0 /\ cut = FALSE
  /\ info = [n \in Names |-> None]
  /\ interval \in BOOLEAN /\ wanted = interval

Settles == \E c \in Callers : WriteDone(c) \/ Timeout(c) \/ DelayOver(c)

Next ==
  \/ Microtask
  \/ Settles \/ Receive
  \/ \E c \in Editors, n \in Names : SetSetting(c, n)
  \/ \E c \in Lockers : TakeConfigLock(c)
  \/ \E c \in Pollers : PollTick(c)
  \/ \E c \in Starters : StartTelemetry(c)
  \/ StopTelemetry
  \/ EnterCli \/ CliPrompt \/ ExitCli
  \/ Cleanup \/ Drop \/ Connect

(* Microtasks run, writes settle, timers fire.                               *)
Spec == Init /\ [][Next]_vars /\ WF_vars(Microtask) /\ WF_vars(Settles)

-----------------------------------------------------------------------------
TypeOK ==
  /\ board \in 0 .. MaxBoards
  /\ conn \in {"none", "open", "closed"} /\ cli \in {"off", "entering", "on"}
  /\ Len(wire) <= MaxWire
  /\ IsInjective(queue) /\ ToSet(queue) \subseteq Callers
  /\ calls \in 0 .. MaxCalls
  /\ \A cmd \in Commands : pending[cmd] # Nobody =>
       req[pending[cmd]].pc = "awaiting" /\ req[pending[cmd]].cmd = cmd

(* One request is on the wire at a time, whoever sends and however the       *)
(* requests before it ended ("Ensures only one MSP request is in-flight at a *)
(* time").  A request that a cleanup left in flight is on a chain before the *)
(* one the cleanup started, and only such a request can be one too many.     *)
OneInFlight ==
  LET Flying == {c \in Callers : req[c].pc \in {"writing", "awaiting"}}
  IN  /\ \A c, d \in Flying : req[c].chain = req[d].chain => c = d
      /\ torn \/ Cardinality(Flying) <= 1

(* Metadata cached under the name of a setting are of this board, and of     *)
(* that setting unless a request for metadata was given up on this           *)
(* connection, or one in flight outlived the one before.                     *)
SettingsNamed ==
  \A n \in Names : info[n] # None =>
    /\ info[n].board = board
    /\ info[n].name = n \/ late \/ torn

(* Telemetry that was stopped is polled no more, whatever start-up was still *)
(* under way.                                                                *)
StoppedStays == interval => wanted

(* No poll starts while a config command is under way, unless one was when   *)
(* the previous connection was cleaned up.                                   *)
PollsPause ==
  [][\A p \in Pollers : op[p] = Idle /\ op'[p] # Idle =>
       cut \/ \A c \in Lockers : op[c] = Idle]_vars

(* Every request ends ("an awaited request would otherwise hang forever"):   *)
(* time and again nobody waits.                                              *)
Returns == []<>(\A c \in Callers : req[c].pc = "none")

(* Nothing of MSP is written to a board in CLI mode ("Set CLI mode flag      *)
(* FIRST to block all incoming MSP requests").                               *)
CliExclusive ==
  [][\A c \in Callers : req[c].pc # "writing" /\ req'[c].pc = "writing" => cli # "on"]_vars

(* A setting is written to the index of the name it was asked for ("Set a    *)
(* CLI setting value by name").                                              *)
WritesNamed == \A n \in Names : info[n] # None => info[n].name = n

(* A config command runs with telemetry paused.                              *)
Paused ==
  [][\A p \in Pollers : op[p] = Idle /\ op'[p] # Idle => \A c \in Lockers : op[c] = Idle]_vars
=============================================================================
