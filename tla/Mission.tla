------------------------------- MODULE Mission -------------------------------
(***************************************************************************)
(* The mission protocol of the desktop app (apps/desktop/src/main/         *)
(* ipc-handlers.ts): one upload and one download at a time in two module   *)
(* variables, to the primary vehicle or to one of the fleet, with timers   *)
(* whose callbacks act on whatever transfer the variable then holds; and   *)
(* the clearing of the primary's mission.                                  *)
(*                                                                         *)
(* A packet the app writes is lost, or the vehicle answers it; answers     *)
(* arrive late, in order, or are lost when the link goes.                  *)
(***************************************************************************)
EXTENDS Integers, Sequences, FiniteSets

CONSTANTS
  Vehicles,   \* the vehicles of the fleet
  Primary,    \* the vehicle on the primary connection
  Lens,       \* lengths of the missions uploaded
  MaxCalls,   \* bound on the calls of the user
  MaxWire,    \* bound on the packets on their way from a vehicle
  MaxAsks     \* times a vehicle asks again for an item

ASSUME MissionAssumption ==
  /\ Primary \in Vehicles /\ Lens \subseteq Nat \ {0}
  /\ MaxCalls \in Nat /\ MaxWire \in Nat /\ MaxAsks \in Nat

VARIABLES
  up,         \* missionUploadState
  down,       \* missionDownloadState
  clearing,   \* missionClearPending
  writes,     \* calls whose first packet is being written
  stray,      \* timers that are armed and in no state's timeout any more
  calls,      \* calls left, which also number the transfers
  sent,       \* what the last step reported to the user
  open,       \* vehicles whose link is open
  fc,         \* the mission protocol of each vehicle
  wire,       \* packets on their way from each vehicle
  alone       \* nothing else was under way or called since the last call

app   == <<up, down, clearing, writes, stray, sent>>
world == <<open, fc, wire>>
vars  == <<app, calls, world, alone>>

NoUpload   == [id |-> 0]
NoDownload == [id |-> 0]
Item(of, seq) == [of |-> of, seq |-> seq]
MissionOf(of, n) == [i \in 1 .. n |-> Item(of, i - 1)]

-----------------------------------------------------------------------------
(* The vehicles.                                                             *)

Request(seq) == [kind |-> "request", seq |-> seq]
Ack(ok)      == [kind |-> "ack", ok |-> ok]
Count(n)     == [kind |-> "count", n |-> n]
Carry(item)  == [kind |-> "item", item |-> item]
Ask(kind)    == [kind |-> kind]

Stops(f) == [f EXCEPT !.n = 0, !.buf = <<>>, !.asks = 0]

(* What vehicle f does with packet m and answers.                            *)
Outcomes(f, m) ==
  LET Answer(g, reply) == [fc |-> g, reply |-> reply]
      taken == [f EXCEPT !.buf = Append(@, m.item), !.asks = 0]
  IN  CASE m.kind = "count" ->
             {Answer([f EXCEPT !.n = m.n, !.buf = <<>>, !.asks = 0], Request(0)),
              Answer(f, Ack(FALSE))}
        [] m.kind = "item" /\ f.n > 0 /\ m.item.seq = Len(f.buf) ->
             {IF Len(taken.buf) = f.n
              THEN Answer(Stops([f EXCEPT !.held = taken.buf]), Ack(TRUE))
              ELSE Answer(taken, Request(Len(taken.buf))),
              Answer(Stops(f), Ack(FALSE))}
        [] m.kind = "item" /\ ~(f.n > 0 /\ m.item.seq = Len(f.buf)) -> {Answer(f, Ack(FALSE))}
        [] m.kind = "list"  -> {Answer(f, Count(Len(f.held))), Answer(f, Ack(FALSE))}
        [] m.kind = "request" ->
             {Answer(f, IF m.seq < Len(f.held) THEN Carry(f.held[m.seq + 1]) ELSE Ack(FALSE))}
        [] m.kind = "clear" -> {Answer(Stops([f EXCEPT !.held = <<>>]), Ack(TRUE)),
                                Answer(f, Ack(FALSE))}

(* Packet m is written to vehicle v when w is on the wires.                  *)
Send(w, v, m) ==
  \/ wire' = w /\ UNCHANGED fc
  \/ /\ v \in open
     /\ \E a \in Outcomes(fc[v], m) :
          /\ fc' = [fc EXCEPT ![v] = a.fc]
          /\ wire' = IF Len(w[v]) < MaxWire THEN [w EXCEPT ![v] = Append(@, a.reply)] ELSE w

(* A vehicle that waits for an item asks for it again, and in the end gives  *)
(* the upload up.                                                            *)
AskAgain(v) ==
  /\ fc[v].n > 0 /\ v \in open /\ Len(wire[v]) < MaxWire
  /\ IF fc[v].asks < MaxAsks
     THEN /\ fc' = [fc EXCEPT ![v].asks = @ + 1]
          /\ wire' = [wire EXCEPT ![v] = Append(@, Request(Len(fc[v].buf)))]
     ELSE /\ fc' = [fc EXCEPT ![v] = Stops(@)]
          /\ wire' = [wire EXCEPT ![v] = Append(@, Ack(FALSE))]
  /\ sent' = {}
  /\ UNCHANGED <<up, down, clearing, writes, stray, calls, open, alone>>

(* The link of a vehicle of the fleet goes, or comes back.                   *)
LinkChanges(v) ==
  /\ v # Primary
  /\ open' = (open \ {v}) \cup ({v} \ open)
  /\ wire' = [wire EXCEPT ![v] = <<>>]
  /\ sent' = {}
  /\ UNCHANGED <<up, down, clearing, writes, stray, calls, fc, alone>>

-----------------------------------------------------------------------------
(* The two states and their timers.                                          *)

Timers(of, state) == IF state.id = 0 \/ state.timer = "none" THEN {} ELSE {<<of, state.timer>>}

(* resolveVehicleTarget                                                      *)
Resolve(v) == IF v \in open THEN v ELSE Primary

(* The report of the end of an upload; by is the vehicle that ended it.      *)
UploadEnd(ok, by) ==
  [kind |-> IF ok THEN "uploaded" ELSE "failed", for |-> up.for, target |-> up.target,
   by |-> by, mission |-> MissionOf(<<up.for, up.id>>, up.len)]

(* settleMissionUpload, with what else the step reports.                     *)
Settle(ok, by, more) ==
  /\ up' = NoUpload
  /\ sent' = more \cup IF up # NoUpload THEN {UploadEnd(ok, by)} ELSE {}

(* The callback of a timer of an upload: the first waits for a request at    *)
(* all, the others for the next one.                                         *)
UploadLate(kind) ==
  /\ IF up # NoUpload /\ (kind = "first" => up.seq = 0)
     THEN Settle(FALSE, Primary, {})
     ELSE sent' = {} /\ UNCHANGED up
  /\ UNCHANGED <<down, clearing, writes, calls, world, alone>>

DownloadLate(kind) ==
  /\ IF down # NoDownload /\ (IF kind = "first" THEN down.got = {}
                              ELSE Cardinality(down.got) < down.expected)
     THEN down' = NoDownload /\ sent' = {[kind |-> "failed"]}
     ELSE sent' = {} /\ UNCHANGED down
  /\ UNCHANGED <<up, clearing, writes, calls, world, alone>>

Late(t) == \/ t[1] = "up" /\ UploadLate(t[2])
           \/ t[1] = "down" /\ DownloadLate(t[2])

(* A timer fires: one of the state under way, or one an earlier left behind. *)
TimerFires ==
  \/ \E t \in stray : stray' = stray \ {t} /\ Late(t)
  \/ /\ up # NoUpload /\ up.timer # "none"
     /\ IF up.timer = "first" /\ up.seq # 0
        THEN /\ up' = [up EXCEPT !.timer = "none"] /\ sent' = {}
             /\ UNCHANGED <<down, clearing, writes, calls, world, alone>>
        ELSE UploadLate(up.timer)
     /\ UNCHANGED stray
  \/ /\ down # NoDownload /\ down.timer # "none"
     /\ IF down.timer = "first" /\ down.got # {}
        THEN /\ down' = [down EXCEPT !.timer = "none"] /\ sent' = {}
             /\ UNCHANGED <<up, clearing, writes, calls, world, alone>>
        ELSE DownloadLate(down.timer)
     /\ UNCHANGED stray

-----------------------------------------------------------------------------
(* The calls.                                                                *)

(* Nothing is under way, here or on a vehicle.                               *)
Calm ==
  /\ up = NoUpload /\ down = NoDownload /\ writes = {}
  /\ \A v \in Vehicles : wire[v] = <<>> /\ fc[v].n = 0

Call ==
  /\ calls > 0 /\ calls' = calls - 1
  /\ alone' = Calm
  /\ sent' = {}

(* The state of a new upload, whose MISSION_COUNT is written.                *)
Uploads(v, target, n, own) ==
  /\ Call
  /\ up' = [id |-> calls, for |-> v, target |-> target, own |-> own,
            len |-> n, seq |-> 0, timer |-> "none"]
  /\ writes' = writes \cup {[op |-> IF own THEN "upload to" ELSE "upload", id |-> calls]}
  /\ Send(wire, target, Count(n))

(* MISSION_UPLOAD, which replaces the upload under way.                      *)
MissionUpload(n) ==
  /\ Uploads(Primary, Primary, n, FALSE)
  /\ stray' = stray \cup Timers("up", up)
  /\ UNCHANGED <<down, clearing, open>>

(* MISSION_UPLOAD_TO_VEHICLE                                                 *)
UploadToVehicle(v, n) ==
  /\ up = NoUpload
  /\ Uploads(v, Resolve(v), n, TRUE)
  /\ UNCHANGED <<down, clearing, stray, open>>

(* MISSION_DOWNLOAD of the active vehicle, in the place of the one under way.*)
MissionDownload(v) ==
  /\ Call
  /\ down' = [id |-> calls, target |-> Resolve(v), expected |-> 0, got |-> {}, timer |-> "none"]
  /\ writes' = writes \cup {[op |-> "download", id |-> calls]}
  /\ stray' = stray \cup Timers("down", down)
  /\ Send(wire, Resolve(v), Ask("list"))
  /\ UNCHANGED <<up, clearing, open>>

(* MISSION_CLEAR                                                             *)
MissionClear ==
  /\ Call
  /\ clearing' = TRUE
  /\ writes' = writes \cup {[op |-> "clear", id |-> calls]}
  /\ Send(wire, Primary, Ask("clear"))
  /\ UNCHANGED <<up, down, stray, open>>

(* The write of the call's packet settles.  The timer is put in the state    *)
(* there is by then, over the one that is in it; where there is none, the    *)
(* assignment throws and the call fails as if the write had.                 *)
Written(w) ==
  /\ writes' = writes \ {w}
  /\ sent' = IF (w.op = "upload" /\ up = NoUpload) \/ (w.op = "download" /\ down = NoDownload)
             THEN {[kind |-> "failed"]} ELSE {}
  /\ \/ /\ w.op \in {"upload", "upload to"}
        /\ stray' = stray \cup Timers("up", up)
        /\ up' = IF up = NoUpload THEN up ELSE [up EXCEPT !.timer = "first"]
        /\ UNCHANGED <<down, clearing>>
     \/ /\ w.op = "download"
        /\ stray' = stray \cup Timers("down", down)
        /\ down' = IF down = NoDownload THEN down ELSE [down EXCEPT !.timer = "first"]
        /\ UNCHANGED <<up, clearing>>
     \/ w.op = "clear" /\ UNCHANGED <<up, down, clearing, stray>>
  /\ UNCHANGED <<calls, world, alone>>

(* The write fails: only an upload to a vehicle is settled.                  *)
WriteFails(w) ==
  /\ writes' = writes \ {w}
  /\ \/ /\ w.op = "upload"
        /\ up' = NoUpload /\ sent' = {[kind |-> "failed"]}
        /\ stray' = stray \cup Timers("up", up)
        /\ UNCHANGED <<down, clearing>>
     \/ /\ w.op = "upload to"
        /\ Settle(FALSE, Primary, {})
        /\ UNCHANGED <<down, clearing, stray>>
     \/ /\ w.op = "download"
        /\ down' = NoDownload /\ sent' = {[kind |-> "failed"]}
        /\ stray' = stray \cup Timers("down", down)
        /\ UNCHANGED <<up, clearing>>
     \/ /\ w.op = "clear"
        /\ clearing' = FALSE /\ sent' = {[kind |-> "failed"]}
        /\ UNCHANGED <<up, down, stray>>
  /\ UNCHANGED <<calls, world, alone>>

-----------------------------------------------------------------------------
(* The packets of the vehicles.  The primary's are taken whichever vehicle   *)
(* the transfer is with, those of the fleet only when it is with them.       *)

Hears(v, state) == state.id # 0 /\ (v = Primary \/ state.target = v)

Rest(v) == [wire EXCEPT ![v] = Tail(@)]

(* Mutant: the number asked for is not compared with the mission's length.   *)
OnRequestAny(v, m) ==
  /\ IF Hears(v, up)
     THEN /\ up' = [up EXCEPT !.seq = m.seq, !.timer = "items"]
          /\ Send(Rest(v), up.target, Carry(Item(<<up.for, up.id>>, m.seq)))
     ELSE wire' = Rest(v) /\ UNCHANGED <<up, fc>>
  /\ sent' = {}
  /\ UNCHANGED <<down, clearing, stray>>

(* Mutant: the timer that waited for this request is not set again.          *)
OnRequestOnce(v, m) ==
  /\ IF Hears(v, up) /\ m.seq < up.len
     THEN /\ up' = [up EXCEPT !.seq = m.seq, !.timer = "none"]
          /\ Send(Rest(v), up.target, Carry(Item(<<up.for, up.id>>, m.seq)))
     ELSE wire' = Rest(v) /\ UNCHANGED <<up, fc>>
  /\ sent' = {}
  /\ UNCHANGED <<down, clearing, stray>>

(* handleMissionRequestForUpload                                             *)
OnRequest(v, m) ==
  /\ IF Hears(v, up) /\ m.seq < up.len
     THEN /\ up' = [up EXCEPT !.seq = m.seq, !.timer = "items"]
          /\ Send(Rest(v), up.target, Carry(Item(<<up.for, up.id>>, m.seq)))
     ELSE wire' = Rest(v) /\ UNCHANGED <<up, fc>>
  /\ sent' = {}
  /\ UNCHANGED <<down, clearing, stray>>

(* Mutant: whatever the acknowledgment says, the upload is complete.         *)
OnAckAny(v, m) ==
  /\ IF Hears(v, up) THEN Settle(TRUE, v, {}) ELSE sent' = {} /\ UNCHANGED up
  /\ wire' = Rest(v)
  /\ UNCHANGED <<down, clearing, stray, fc>>

(* MISSION_ACK of the primary, which ends whatever is under way; and         *)
(* handleMissionAckForUpload for the others.                                 *)
OnAck(v, m) ==
  /\ IF v = Primary
     THEN /\ Settle(m.ok, v, (IF clearing /\ m.ok THEN {[kind |-> "cleared"]} ELSE {}) \cup
                               (IF up = NoUpload /\ ~m.ok THEN {[kind |-> "failed"]} ELSE {}))
          /\ down' = IF m.ok THEN down ELSE NoDownload
          /\ clearing' = FALSE
     ELSE /\ IF Hears(v, up) THEN Settle(m.ok, v, {}) ELSE sent' = {} /\ UNCHANGED up
          /\ UNCHANGED <<down, clearing>>
  /\ wire' = Rest(v)
  /\ UNCHANGED <<stray, fc>>

(* The items by their numbers.                                               *)
Sorted(items) ==
  CHOOSE s \in [1 .. Cardinality(items) -> items] :
    \A i, j \in DOMAIN s : i < j => s[i].seq < s[j].seq

(* The mission is complete, as far as the download can tell.                 *)
Shown(items) ==
  [kind |-> "shown", target |-> down.target, mission |-> Sorted(items)]

(* Mutant: the count is taken for the number of the last item.               *)
OnCountLast(v, m) ==
  /\ IF ~Hears(v, down)
     THEN wire' = Rest(v) /\ sent' = {} /\ UNCHANGED <<down, fc>>
     ELSE /\ down' = [down EXCEPT !.expected = m.n - 1] /\ sent' = {}
          /\ Send(Rest(v), down.target, Request(0))
  /\ UNCHANGED <<up, clearing, stray>>

(* handleMissionCountForDownload: an empty mission is complete, its timer    *)
(* stays.                                                                    *)
OnCount(v, m) ==
  /\ IF ~Hears(v, down)
     THEN wire' = Rest(v) /\ sent' = {} /\ UNCHANGED <<down, stray, fc>>
     ELSE IF m.n = 0
     THEN /\ down' = NoDownload /\ sent' = {Shown({})}
          /\ stray' = stray \cup Timers("down", down)
          /\ wire' = Rest(v) /\ UNCHANGED fc
     ELSE /\ down' = [down EXCEPT !.expected = m.n] /\ sent' = {}
          /\ Send(Rest(v), down.target, Request(0))
          /\ UNCHANGED stray
  /\ UNCHANGED <<up, clearing>>

(* handleMissionItemForDownload                                              *)
OnItem(v, m) ==
  LET got == {g \in down.got : g.seq # m.item.seq} \cup {m.item}
  IN  /\ IF ~Hears(v, down)
         THEN wire' = Rest(v) /\ sent' = {} /\ UNCHANGED <<down, fc>>
         ELSE IF Cardinality(got) >= down.expected
         THEN /\ down' = NoDownload /\ sent' = {Shown(got)}
              /\ wire' = Rest(v) /\ UNCHANGED fc
         ELSE /\ down' = [down EXCEPT !.got = got, !.timer = "items"] /\ sent' = {}
              /\ Send(Rest(v), down.target, Request(m.item.seq + 1))
      /\ UNCHANGED <<up, clearing, stray>>

Receive(v) ==
  /\ wire[v] # <<>>
  /\ LET m == Head(wire[v])
     IN  \/ m.kind = "request" /\ OnRequest(v, m)
         \/ m.kind = "ack" /\ OnAck(v, m)
         \/ m.kind = "count" /\ OnCount(v, m)
         \/ m.kind = "item" /\ OnItem(v, m)
  /\ UNCHANGED <<writes, calls, open, alone>>

-----------------------------------------------------------------------------
(* Nothing is under way; each vehicle holds a mission of its own, or none.   *)
Init ==
  /\ up = NoUpload /\ down = NoDownload /\ clearing = FALSE
  /\ writes = {} /\ stray = {} /\ sent = {}
  /\ calls = MaxCalls /\ alone = TRUE
  /\ open = Vehicles
  /\ wire = [v \in Vehicles |-> <<>>]
  /\ \E own \in [Vehicles -> Lens \cup {0}] :
       fc = [v \in Vehicles |-> [held |-> MissionOf(<<v, 0>>, own[v]), n |-> 0, buf |-> <<>>, asks |-> 0]]

Settles == TimerFires \/ \E w \in writes : Written(w) \/ WriteFails(w)

Next ==
  \/ \E v \in Vehicles : Receive(v) \/ AskAgain(v) \/ LinkChanges(v) \/ MissionDownload(v)
  \/ \E n \in Lens : MissionUpload(n) \/ \E v \in Vehicles : UploadToVehicle(v, n)
  \/ MissionClear
  \/ Settles

(* Writes settle, timers fire.                                               *)
Spec == Init /\ [][Next]_vars /\ WF_vars(Settles)

-----------------------------------------------------------------------------
Reports(kind) == {e \in sent : e.kind = kind}

TypeOK ==
  /\ up = NoUpload \/
       /\ up.id \in 1 .. MaxCalls /\ up.target \in Vehicles /\ up.len \in Lens
       /\ up.seq \in 0 .. up.len - 1 /\ up.timer \in {"none", "first", "items"}
       /\ up.target # up.for => up.target = Primary
  /\ down = NoDownload \/
       /\ down.target \in Vehicles /\ down.timer \in {"none", "first", "items"}
       /\ down.expected \in Lens \cup {0}
       /\ \A g, h \in down.got : g.seq = h.seq => g = h
  /\ clearing \in BOOLEAN /\ alone \in BOOLEAN /\ calls \in 0 .. MaxCalls
  /\ stray \subseteq {"up", "down"} \X {"first", "items"}
  /\ Primary \in open
  /\ \A v \in Vehicles : Len(wire[v]) <= MaxWire /\ Len(fc[v].buf) <= fc[v].n

(* An upload that is reported complete, and that was not disturbed by other  *)
(* calls or by what earlier ones left on the links, is on its vehicle, item  *)
(* for item ("FC acknowledged operation").                                   *)
UploadTold ==
  \A e \in Reports("uploaded") : alone => fc[e.target].held = e.mission

(* A download that is shown as complete, undisturbed in the same sense, is   *)
(* the mission the vehicle holds ("complete + ACK when all are in").         *)
DownloadTold ==
  \A e \in Reports("shown") : alone => e.mission = fc[e.target].held

(* No upload hangs, and no undisturbed download: whatever the vehicle        *)
(* answers or leaves out, and whichever timers are overwritten, the state is *)
(* emptied again.                                                            *)
Ends == []<>(up = NoUpload) /\ []<>(alone => down = NoDownload)

(* An upload to a vehicle is completed by that vehicle ("so a second vehicle *)
(* on the same link can't hijack this vehicle's upload handshake").          *)
Accepted == \A e \in Reports("uploaded") : e.by = e.for

(* What is shown is a whole mission: items 0, 1, 2 ...                       *)
AllIn ==
  \A e \in Reports("shown") : \A i \in DOMAIN e.mission : e.mission[i].seq = i - 1

(* What is reported as cleared is cleared.                                   *)
ClearTold == Reports("cleared") # {} => fc[Primary].held = <<>>
=============================================================================
