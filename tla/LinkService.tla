----------------------------- MODULE LinkService -----------------------------
(***************************************************************************)
(* LinkService and EngineProcess of the ArduDeck OS link daemon            *)
(* (apps/os-linkd/src/link-service.ts, engine/engine-process.ts): API      *)
(* clients change which saved connections are in use; each change is       *)
(* applied by stopping the engine process, starting it with the new links  *)
(* and reopening the transport to it.  Engine processes crash and are      *)
(* restarted, or cannot be started at all; the vehicle on the link arms,   *)
(* disarms and falls silent.                                               *)
(*                                                                         *)
(* An applyLink run only really waits for the exit of the old engine; its  *)
(* other awaits resolve before any event is handled.  A run that is "ready"*)
(* or "resumed" therefore goes first, before any other action.             *)
(***************************************************************************)
EXTENDS Integers, Sequences, FiniteSets, SequencesExt

CONSTANTS
  Ids,        \* ids of connections
  Revisions,  \* what a connection's other fields may be
  MaxBatch,   \* bound on the calls made before the service is idle again
  MaxEngines  \* bound on the engine processes alive when a call is made

ASSUME LinkAssumption == MaxBatch \in Nat \ {0} /\ MaxEngines \in Nat

VARIABLES
  settings,   \* settingsState
  extra,      \* extraLinks: the links the simulator adds
  known,      \* the vehicle the tracker knows: armed, or safe (disarmed, or none)
  runs,       \* the applyLink runs since the service was last idle
  applying,   \* the run whose promise is in this.applying, or None
  starting,   \* start() has not finished: no API yet
  transport,  \* this.transport is set
  listeners,  \* data listeners attached to the engine transport
  engine,     \* EngineProcess: links, child, restart timer, error of the last start
  procs,      \* the engine processes alive, by number
  forked,     \* history: a run began while another was at work, not behind it
  unplaced    \* history: a connection in use was edited since a run last read them

vars == <<settings, extra, known, runs, applying, starting, transport, listeners,
          engine, procs, forked, unplaced>>

history == <<forked, unplaced>>

None == 0

Unborn == -1  \* the child of a spawn the system refused: it has no process

(* What a call may find in the state when it is refused or has nothing to do *)
(* is no step: only calls that change the state are actions.                 *)

-----------------------------------------------------------------------------
(* filter: the items of a sequence at the positions I, in the same order,    *)
(* without recursion.                                                        *)

Rank(I, i) == Cardinality({j \in I : j <= i})

Place(I, k) == CHOOSE i \in I : Rank(I, i) = k

Picked(s, I) == [k \in 1 .. Cardinality(I) |-> s[Place(I, k)]]

Without(s, x) == Picked(s, {i \in DOMAIN s : s[i] # x})

-----------------------------------------------------------------------------
(* The settings.                                                             *)

Has(id) == \E i \in DOMAIN settings.connections : settings.connections[i].id = id

InUseIds == {settings.active} \cup ToSet(settings.joined)

InUse == {i \in DOMAIN settings.connections : settings.connections[i].id \in InUseIds}

(* engineLinks(): the connections in use, in saved order, then the extra     *)
(* ones.                                                                     *)
EngineLinks ==
  (IF settings.enabled THEN Picked(settings.connections, InUse) ELSE <<>>) \o extra

(* The saved connections but the one named id.                               *)
Others(id) ==
  Picked(settings.connections,
         {i \in DOMAIN settings.connections : settings.connections[i].id # id})

(* assertSafeToDropLink() does not throw.                                    *)
SafeToDropLink == known # "armed"

-----------------------------------------------------------------------------
(* applyLink: runs are chained through this.applying.                        *)

Quiet == \A r \in DOMAIN runs : runs[r].pc \notin {"ready", "resumed"}

(* Mutant: runs are not chained at all.                                      *)
ApplyLinkUnchained ==
  /\ runs' = Append(runs, [pc |-> "ready", prev |-> None, links |-> <<>>, awaits |-> None])
  /\ applying' = Len(runs) + 1
  /\ forked' = (forked \/ (runs # <<>> /\ applying = None))
  /\ UNCHANGED <<starting, transport, listeners, engine, procs, unplaced>>

ApplyLink ==
  /\ runs' = Append(runs, [pc     |-> IF applying = None THEN "ready" ELSE "queued",
                           prev   |-> applying,
                           links  |-> <<>>,
                           awaits |-> None])
  /\ applying' = Len(runs) + 1
  /\ forked' = (forked \/ (runs # <<>> /\ applying = None))
  /\ UNCHANGED <<starting, transport, listeners, engine, procs, unplaced>>

(* spawnChild() with the links l, while this.child is c.  The binary may be  *)
(* missing: no child, and no timer to try again.  The system may refuse to   *)
(* run it: a child that emits 'error' and never 'exit'.                      *)
Spawn(l, c) ==
  LET p == CHOOSE n \in 1 .. Cardinality(DOMAIN procs) + 1 : n \notin DOMAIN procs
  IN  \/ /\ procs' = [q \in DOMAIN procs \cup {p} |-> IF q = p THEN "running" ELSE procs[q]]
         /\ engine' = [links |-> l, child |-> p, restart |-> FALSE, failed |-> FALSE]
      \/ /\ \E child \in {c, Unborn} :
              engine' = [links |-> l, child |-> child, restart |-> FALSE, failed |-> TRUE]
         /\ UNCHANGED procs

(* The end of run r, which leaves the transport open or not: the finally     *)
(* clears this.applying, whoever set it, and the run behind r starts.        *)
Finish(r, open) ==
  /\ transport' = open
  /\ applying' = None
  /\ starting' = FALSE
  /\ runs' = IF \A q \in DOMAIN runs \ {r} : runs[q].pc = "done" THEN <<>>
             ELSE [q \in DOMAIN runs |->
                     IF q = r THEN [runs[q] EXCEPT !.pc = "done"]
                     ELSE IF runs[q].pc = "queued" /\ runs[q].prev = r
                          THEN [runs[q] EXCEPT !.pc = "ready"]
                     ELSE runs[q]]

(* run(): closeTransport, which forgets the vehicle, then engine.apply(l) up *)
(* to the exit of the old engine, if there is a process to stop.             *)
Start(r) ==
  LET l         == EngineLinks
      attached  == IF transport THEN 0 ELSE listeners
      unchanged == l = engine.links /\ (engine.child # None \/ l = <<>>)
      stopped   == [links |-> l, child |-> None, restart |-> FALSE, failed |-> engine.failed]
  IN  /\ runs[r].pc = "ready"
      /\ known' = "safe"
      /\ \/ /\ unchanged
            /\ Finish(r, l # <<>>)
            /\ listeners' = attached + (IF l # <<>> THEN 1 ELSE 0)
            /\ UNCHANGED <<engine, procs>>
         \/ /\ ~unchanged /\ engine.child \in {None, Unborn}
            /\ Finish(r, l # <<>>)
            /\ listeners' = attached + (IF l # <<>> THEN 1 ELSE 0)
            /\ IF l # <<>> THEN Spawn(l, None) ELSE engine' = stopped /\ UNCHANGED procs
         \/ /\ ~unchanged /\ engine.child \notin {None, Unborn}
            /\ transport' = FALSE /\ listeners' = attached
            /\ engine' = stopped
            /\ procs' = [procs EXCEPT ![engine.child] = "stopping"]
            /\ runs' = [runs EXCEPT ![r].pc = "stopping", ![r].links = l,
                                    ![r].awaits = engine.child]
            /\ UNCHANGED <<applying, starting>>
      /\ unplaced' = FALSE
      /\ UNCHANGED <<settings, extra, forked>>

(* The rest of run() once the old engine has exited: spawnChild uses the     *)
(* links engine.apply was last called with, which may be another run's.      *)
Resume(r) ==
  LET l == runs[r].links IN
  /\ runs[r].pc = "resumed"
  /\ Finish(r, transport \/ l # <<>>)
  /\ IF l # <<>> THEN listeners' = listeners + 1 /\ Spawn(engine.links, engine.child)
     ELSE UNCHANGED <<listeners, engine, procs>>
  /\ UNCHANGED <<settings, extra, known, history>>

Microtask == \E r \in DOMAIN runs : Start(r) \/ Resume(r)

-----------------------------------------------------------------------------
(* The API calls.                                                            *)

Ready ==
  /\ Quiet /\ ~starting
  /\ Len(runs) < MaxBatch /\ Cardinality(DOMAIN procs) <= MaxEngines

Commit(s) == settings' = s /\ ApplyLink /\ UNCHANGED <<extra, known>>

SetEnabled(on) ==
  /\ ~on => SafeToDropLink
  /\ Commit([settings EXCEPT !.enabled = on])

SetActive(id) ==
  /\ Has(id)
  /\ id # settings.active => SafeToDropLink
  /\ Commit([settings EXCEPT !.active = id, !.joined = <<>>, !.enabled = TRUE])

(* join() of s, the settings as the caller left them.                        *)
JoinFrom(s, id) ==
  IF ~s.enabled
  THEN /\ id # s.active => SafeToDropLink
       /\ Commit([s EXCEPT !.active = id, !.joined = <<>>, !.enabled = TRUE])
  ELSE /\ id # s.active /\ id \notin ToSet(s.joined)
       /\ SafeToDropLink
       /\ Commit([s EXCEPT !.joined = Append(@, id)])

Join(id) == Has(id) /\ JoinFrom(settings, id)

(* Mutant: the connection that takes the active one's place stays joined.    *)
LeaveTwice(id) ==
  /\ id \in InUseIds
  /\ SafeToDropLink
  /\ Commit(IF id = settings.active /\ settings.joined = <<>>
            THEN [settings EXCEPT !.enabled = FALSE]
            ELSE IF id = settings.active
            THEN [settings EXCEPT !.active = Head(settings.joined)]
            ELSE [settings EXCEPT !.joined = Without(@, id)])

Leave(id) ==
  /\ id \in InUseIds
  /\ SafeToDropLink
  /\ Commit(IF id = settings.active /\ settings.joined = <<>>
            THEN [settings EXCEPT !.enabled = FALSE]
            ELSE IF id = settings.active
            THEN [settings EXCEPT !.active = Head(settings.joined),
                                  !.joined = Tail(settings.joined)]
            ELSE [settings EXCEPT !.joined = Without(@, id)])

(* The settings with the connection c added, or put in place of its id.      *)
With(c) == [settings EXCEPT !.connections = Append(Others(c.id), c)]

(* Mutant: editing a connection in use is not checked.                       *)
UpsertUnchecked(c, activate) ==
  /\ activate => SafeToDropLink
  /\ Commit(IF activate
            THEN [With(c) EXCEPT !.active = c.id, !.joined = <<>>, !.enabled = TRUE]
            ELSE With(c))

(* upsertConnection(c, activate, false)                                      *)
Upsert(c, activate) ==
  /\ activate \/ c.id \in InUseIds => SafeToDropLink
  /\ Commit(IF activate
            THEN [With(c) EXCEPT !.active = c.id, !.joined = <<>>, !.enabled = TRUE]
            ELSE With(c))

(* upsertConnection(c, _, true): the settings are replaced before join() has *)
(* its say, and stay replaced when it refuses or has nothing to do.          *)
UpsertJoin(c) ==
  /\ c.id \in InUseIds => SafeToDropLink
  /\ IF \/ settings.enabled /\ c.id \in InUseIds
        \/ ~SafeToDropLink /\ c.id # settings.active
     THEN /\ settings' = With(c)
          /\ unplaced' = (unplaced \/ c.id \in InUseIds)
          /\ UNCHANGED <<extra, known, runs, applying, starting, transport, listeners,
                         engine, procs, forked>>
     ELSE JoinFrom(With(c), c.id)

RemoveConnection(id) ==
  LET rest   == Others(id)
      active == IF settings.active = id THEN Head(rest).id ELSE settings.active
  IN  /\ id \in InUseIds => SafeToDropLink
      /\ rest # <<>>
      /\ Commit([settings EXCEPT !.connections = rest, !.active = active,
                                 !.joined = Without(Without(@, id), active)])

(* Mutant: the links are kept for the next change of the settings.           *)
SetExtraLinksLater(l) ==
  /\ SafeToDropLink
  /\ extra' = l
  /\ UNCHANGED <<settings, known, runs, applying, starting, transport, listeners,
                 engine, procs, history>>

SetExtraLinks(l) ==
  /\ SafeToDropLink
  /\ extra' = l
  /\ ApplyLink
  /\ UNCHANGED <<settings, known>>

Connections == [id : Ids, rev : Revisions]

SimLink == [id |-> "sim", rev |-> 0]

Call ==
  /\ Ready
  /\ \/ \E on \in BOOLEAN : SetEnabled(on)
     \/ \E id \in Ids : SetActive(id) \/ Join(id) \/ Leave(id) \/ RemoveConnection(id)
     \/ \E c \in Connections : UpsertJoin(c) \/ \E activate \in BOOLEAN : Upsert(c, activate)
     \/ \E l \in {<<>>, <<SimLink>>} : SetExtraLinks(l)

-----------------------------------------------------------------------------
(* The engine processes and the vehicle.                                     *)

Remaining(p) == [q \in DOMAIN procs \ {p} |-> procs[q]]

(* A process told to stop exits, by SIGTERM or, two seconds later, SIGKILL.  *)
Exit(p) ==
  /\ Quiet
  /\ procs[p] = "stopping"
  /\ procs' = Remaining(p)
  /\ runs' = [r \in DOMAIN runs |->
                IF runs[r].pc = "stopping" /\ runs[r].awaits = p
                THEN [runs[r] EXCEPT !.pc = "resumed"] ELSE runs[r]]
  /\ UNCHANGED <<settings, extra, known, applying, starting, transport, listeners, engine,
                 history>>

(* Mutant: a crashed engine is not restarted.                                *)
CrashForGood(p) ==
  /\ Quiet
  /\ procs[p] = "running"
  /\ procs' = Remaining(p)
  /\ engine' = IF engine.child = p THEN [engine EXCEPT !.child = None] ELSE engine
  /\ UNCHANGED <<settings, extra, known, runs, applying, starting, transport, listeners,
                 history>>

(* The exit handler ignores a process that is not the current child.         *)
Crash(p) ==
  /\ Quiet
  /\ procs[p] = "running"
  /\ procs' = Remaining(p)
  /\ engine' = IF engine.child = p
               THEN [engine EXCEPT !.child = None, !.restart = engine.links # <<>>]
               ELSE engine
  /\ UNCHANGED <<settings, extra, known, runs, applying, starting, transport, listeners,
                 history>>

Restart ==
  /\ Quiet
  /\ engine.restart
  /\ Spawn(engine.links, engine.child)
  /\ UNCHANGED <<settings, extra, known, runs, applying, starting, transport, listeners,
                 history>>

Heartbeat(state) ==
  /\ Quiet
  /\ transport /\ \E p \in DOMAIN procs : procs[p] = "running"
  /\ known' = state
  /\ UNCHANGED <<settings, extra, runs, applying, starting, transport, listeners, engine, procs,
                 history>>

(* No heartbeat for the tracker's timeout.                                   *)
VehicleLost ==
  /\ Quiet
  /\ known # "safe"
  /\ known' = "safe"
  /\ UNCHANGED <<settings, extra, runs, applying, starting, transport, listeners, engine, procs,
                 history>>

-----------------------------------------------------------------------------
(* start() applies the settings loaded from disk.                            *)
Init ==
  /\ \E c \in Connections, on \in BOOLEAN :
       settings = [enabled |-> on, active |-> c.id, joined |-> <<>>, connections |-> <<c>>]
  /\ extra = <<>> /\ known = "safe"
  /\ runs = <<[pc |-> "ready", prev |-> None, links |-> <<>>, awaits |-> None]>>
  /\ applying = 1 /\ starting = TRUE
  /\ transport = FALSE /\ listeners = 0
  /\ engine = [links |-> <<>>, child |-> None, restart |-> FALSE, failed |-> FALSE]
  /\ procs = <<>>
  /\ forked = FALSE /\ unplaced = FALSE

Next ==
  \/ Microtask
  \/ Call
  \/ \E p \in DOMAIN procs : Exit(p) \/ Crash(p)
  \/ Restart
  \/ \E state \in {"safe", "armed"} : Heartbeat(state)
  \/ VehicleLost

(* Microtasks run, a process told to stop exits, timers fire.                *)
Spec ==
  /\ Init /\ [][Next]_vars
  /\ WF_vars(Microtask) /\ WF_vars(Restart)
  /\ WF_vars(\E p \in DOMAIN procs : Exit(p))

-----------------------------------------------------------------------------
Idle == runs = <<>>

(* The settings stay well formed, whatever the order of the calls: the       *)
(* active connection exists, and is not also joined; no id is saved or       *)
(* joined twice.                                                             *)
TypeOK ==
  /\ settings.enabled \in BOOLEAN
  /\ Has(settings.active)
  /\ \A id \in ToSet(settings.joined) : Has(id) /\ id # settings.active
  /\ IsInjective(settings.joined)
  /\ IsInjective([i \in DOMAIN settings.connections |-> settings.connections[i].id])
  /\ known \in {"safe", "armed"}
  /\ applying \in {None} \cup DOMAIN runs

(* One engine at a time: none is started while another is alive, so two      *)
(* never compete for the same ports (engine.apply: "with exactly these       *)
(* links").  The one way to two is a call made while a run is at work that   *)
(* the end of an earlier one has wiped from this.applying.                   *)
OneEngine == forked \/ Cardinality(DOMAIN procs) <= 1

(* Once every call is answered the engine has the links of the settings and  *)
(* the transport to it is open, heard once, exactly when there are any; but  *)
(* for such a call, and for a connection in use that join: true has edited   *)
(* since.                                                                    *)
Applied ==
  Idle /\ ~forked =>
    /\ listeners = (IF transport THEN 1 ELSE 0)
    /\ ~unplaced => engine.links = EngineLinks /\ transport = (EngineLinks # <<>>)

(* With the master switch off and no simulator, the vehicle link is closed   *)
(* once every call is answered.                                              *)
OffIsOff ==
  Idle /\ ~settings.enabled /\ extra = <<>> => ~transport /\ engine.child = None

Active == {c \in ToSet(settings.connections) : c.id = settings.active}

(* While the vehicle is armed and the link enabled nobody switches it off, or *)
(* to another connection, or edits or removes the active one.                *)
ArmedKeepsActive ==
  [][known = "armed" /\ settings.enabled
       => Active' = Active /\ settings'.enabled]_vars

(* While the vehicle is armed the engine that carries its link is never told *)
(* to stop, whoever asks.                                                    *)
ArmedKeepsEngine ==
  [][known = "armed" /\ engine.child # None /\ engine'.child = None
       => engine.child \notin DOMAIN procs']_vars

(* For as long as there are links to run, the engine runs or comes back to   *)
(* run, however often it crashes and whatever it is told meanwhile, unless   *)
(* the last attempt to start it failed: that one is not repeated.            *)
Recovers ==
  engine.links # <<>> ~> \/ engine.child \in DOMAIN procs
                         \/ engine.links = <<>> \/ engine.failed
=============================================================================
