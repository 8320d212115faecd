---------------------------- MODULE EventStream ----------------------------
(***************************************************************************)
(* One page that follows a run: the in-process event bus, the WebSocket    *)
(* that replays the audit events and then relays live ones, and the page,  *)
(* which also polls /activity every five seconds.                          *)
(*                                                                         *)
(* Every append of AuditLog publishes its event, before its transaction    *)
(* commits.  A message is its sequence number; which of the messages and   *)
(* of the events on the page are of events that were rolled back, whose    *)
(* numbers other events take, is kept as history.  Sending and receiving   *)
(* are one step: a message on its way when the connection breaks is one    *)
(* that was not sent.                                                      *)
(***************************************************************************)
EXTENDS AuditLog, FiniteSets

CONSTANTS
  ReplayLimit,   \* replay_limit of the WebSocket
  Window         \* _BOOTSTRAP_EVENT_LIMIT, the page's eventLimit

ASSUME StreamAssumption == ReplayLimit \in Nat \ {0} /\ Window \in Nat \ {0}

VARIABLES
  conn,        \* run_events_ws: closed, subscribed, open
  queue,       \* the connection's queue on the bus
  voided,      \* history: the places in it of events that were rolled back
  after,       \* its after_seq
  last_seq,    \* its last_seq
  sent,        \* history: what it has sent
  missable,    \* history: the events it may miss, see MissedOnlyInFlight
  shown,       \* the page's events
  ghosts,      \* history: those of them that were rolled back
  lastSeq,     \* the page's lastSeq
  cfgStatus    \* the status the page was rendered with

socket  == <<conn, queue, voided, after, last_seq, sent, missable>>
page    == <<shown, ghosts, lastSeq, cfgStatus>>
vars    == <<auditVars, socket, page>>

InFlight == Len(db.log) + 1 .. Len(view.log)

Least(a, b) == IF a <= b THEN a ELSE b
Newest(S) == CHOOSE n \in S \cup {0} : \A m \in S : m <= n

StreamInit ==
  /\ Init
  /\ conn = "closed" /\ queue = <<>> /\ voided = {} /\ after = 0
  /\ last_seq = 0 /\ sent = <<>> /\ missable = {}
  /\ shown = {} /\ ghosts = {} /\ lastSeq = 0 /\ cfgStatus = "queued"

-----------------------------------------------------------------------------
(* The page                                                                *)

(* is_active: a page of a run that has ended neither polls nor connects.   *)
Following == cfgStatus \notin Ended

(* Mutant of updateEvents: events up to lastSeq are taken to be shown.      *)
updateEvents_OnlyNewer(incoming, undone) ==
  LET fresh == {n \in incoming : n > lastSeq}
      all == shown \cup fresh
  IN /\ shown' = {n \in all : Cardinality({m \in all : m > n}) < Window}
     /\ ghosts' = shown' \cap (ghosts \cup IF undone THEN fresh ELSE {})
     /\ lastSeq' = Newest(incoming \cup {lastSeq})

(* addEvent for each: a number that is shown already stays as it is, and   *)
(* the oldest events leave a page that shows too many.  `undone' tells     *)
(* whether the events were rolled back.                                    *)
updateEvents(incoming, undone) ==
  LET all == shown \cup incoming
      fresh == incoming \ shown
  IN /\ shown' = {n \in all : Cardinality({m \in all : m > n}) < Window}
     /\ ghosts' = shown' \cap (ghosts \cup IF undone THEN fresh ELSE {})
     /\ lastSeq' = Newest(incoming \cup {lastSeq})

(* _load_events: the newest events.                                        *)
Recent == {n \in 1..Len(db.log) : n + Window > Len(db.log)}

(* The connection and its queue are gone.                                  *)
Hangs ==
  /\ conn' = "closed" /\ queue' = <<>> /\ voided' = {} /\ sent' = <<>>
  /\ after' = 0 /\ last_seq' = 0 /\ missable' = {}

(* Mutant of Poll: the page takes the new status without being reloaded.   *)
Poll_Merges ==
  /\ Following
  /\ cfgStatus' = db.status
  /\ updateEvents(Recent, FALSE)
  /\ IF cfgStatus' \in Ended THEN Hangs ELSE UNCHANGED socket
  /\ UNCHANGED auditVars

(* Mutant of Poll: the connection of the old page outlives the reload.      *)
Poll_KeepsSocket ==
  /\ Following
  /\ IF db.status = cfgStatus
       THEN updateEvents(Recent, FALSE) /\ UNCHANGED cfgStatus
       ELSE /\ cfgStatus' = db.status
            /\ shown' = Recent /\ ghosts' = {} /\ lastSeq' = Newest(Recent)
  /\ UNCHANGED <<auditVars, socket>>

(* pollActivity merges the newest events; when the status has changed the  *)
(* page is reloaded, and its connection closed.  The reloads for a new     *)
(* result or new evidence, which bring the same earlier, are left out.     *)
Poll ==
  /\ Following
  /\ IF db.status = cfgStatus
       THEN /\ updateEvents(Recent, FALSE)
            /\ UNCHANGED <<cfgStatus, socket>>
       ELSE /\ cfgStatus' = db.status
            /\ shown' = Recent /\ ghosts' = {} /\ lastSeq' = Newest(Recent)
            /\ Hangs
  /\ UNCHANGED auditVars

-----------------------------------------------------------------------------
(* The WebSocket                                                           *)

(* connect with the page's lastSeq: the bus is subscribed to first.        *)
Connect ==
  /\ Following /\ conn = "closed"
  /\ conn' = "subscribed"
  /\ queue' = <<>> /\ voided' = {} /\ sent' = <<>>
  /\ after' = lastSeq /\ last_seq' = lastSeq
  /\ missable' = InFlight
  /\ UNCHANGED <<auditVars, page>>

(* Mutant of Replay: the bus is subscribed to after the replay was read.   *)
Replay_ThenSubscribe ==
  LET upto == Least(after + ReplayLimit, Len(db.log))
      replay == after + 1 .. upto
  IN /\ conn = "subscribed" /\ conn' = "open"
     /\ sent' = [i \in 1..Cardinality(replay) |-> after + i]
     /\ last_seq' = Newest(replay \cup {after})
     /\ missable' = missable \cup upto + 1 .. Len(db.log)
     /\ updateEvents(replay, FALSE)
     /\ queue' = <<>> /\ voided' = {}
     /\ UNCHANGED <<auditVars, after, cfgStatus>>

(* _load_replay_events reads the oldest ones that the client lacks, and    *)
(* they are sent; the connection may break before the last of them.        *)
Replay ==
  LET upto == Least(after + ReplayLimit, Len(db.log))
      replay == after + 1 .. upto
  IN /\ conn = "subscribed"
     /\ \/ /\ conn' = "open"
           /\ sent' = [i \in 1..Cardinality(replay) |-> after + i]
           /\ last_seq' = Newest(replay \cup {after})
           /\ missable' = missable \cup upto + 1 .. Len(db.log)
           /\ updateEvents(replay, FALSE)
           /\ UNCHANGED <<queue, voided, after>>
        \/ /\ \E n \in replay : updateEvents(after + 1 .. n, FALSE)
           /\ Hangs
     /\ UNCHANGED <<auditVars, cfgStatus>>

(* Mutant of SendLive: duplicates are not dropped.                         *)
SendLive_Repeats ==
  /\ conn = "open" /\ queue # <<>>
  /\ queue' = Tail(queue) /\ voided' = {i - 1 : i \in voided \ {1}}
  /\ sent' = Append(sent, Head(queue))
  /\ last_seq' = Head(queue)
  /\ updateEvents({Head(queue)}, 1 \in voided)
  /\ UNCHANGED <<auditVars, conn, after, missable, cfgStatus>>

(* Live messages up to last_seq are duplicates.                            *)
SendLive ==
  /\ conn = "open" /\ queue # <<>>
  /\ queue' = Tail(queue) /\ voided' = {i - 1 : i \in voided \ {1}}
  /\ IF Head(queue) <= last_seq
       THEN UNCHANGED <<last_seq, sent, shown, ghosts, lastSeq>>
       ELSE /\ sent' = Append(sent, Head(queue))
            /\ last_seq' = Head(queue)
            /\ updateEvents({Head(queue)}, 1 \in voided)
  /\ UNCHANGED <<auditVars, conn, after, missable, cfgStatus>>

Disconnect ==
  /\ conn # "closed"
  /\ Hangs
  /\ UNCHANGED <<auditVars, page>>

-----------------------------------------------------------------------------
(* The bus                                                                 *)

(* Mutant of Publish: the number of the next event is published.           *)
Publish_Next ==
  queue' = IF conn # "closed" /\ Len(view'.log) > Len(view.log)
             THEN Append(queue, Len(view'.log) + 1) ELSE queue

(* publish_event, from the hook at the end of an append.                   *)
Publish ==
  queue' = IF conn # "closed" /\ Len(view'.log) > Len(view.log)
             THEN Append(queue, Len(view'.log)) ELSE queue

(* The events that a rollback takes back leave their numbers on the page.  *)
Haunts ==
  /\ ghosts' = ghosts \cup {n \in shown : n > Len(db.log)}
  /\ UNCHANGED <<shown, lastSeq, cfgStatus>>

(* What was rolled back has been published all the same.                   *)
Hears ==
  /\ Publish
  /\ IF faults' > faults
       THEN /\ missable' = IF conn # "closed" THEN missable \cup InFlight ELSE missable
            /\ voided' = voided \cup {i \in 1..Len(queue) : queue[i] > Len(db.log)}
            /\ Haunts
       ELSE UNCHANGED <<missable, voided, page>>
  /\ UNCHANGED <<conn, after, last_seq, sent>>

Recovers == Restart /\ Hangs /\ Haunts

StreamNext ==
  \/ Records /\ Hears
  \/ Recovers
  \/ Connect \/ Replay \/ SendLive
  \/ Disconnect \/ Poll

StreamSpec == StreamInit /\ [][StreamNext]_vars /\ WF_vars(Poll)

-----------------------------------------------------------------------------
(* Properties                                                              *)

StreamTypeOK ==
  /\ TypeOK
  /\ conn \in {"closed", "subscribed", "open"}
  /\ {after, last_seq, lastSeq} \cup shown \cup missable \subseteq 0..MaxEvents
  /\ voided \subseteq 1..Len(queue) /\ ghosts \subseteq shown
  /\ {queue, sent} \subseteq Seq(1..MaxEvents)
  /\ cfgStatus \in Statuses

(* A connection never repeats an event nor goes back, although it is told  *)
(* of some events twice, by the replay and by the bus: "seq <= last_seq".  *)
SentInOrder ==
  \A i, j \in 1..Len(sent) : i < j => sent[i] < sent[j]

Sent == {sent[i] : i \in 1..Len(sent)}

CaughtUp ==
  conn = "open" /\ queue = <<>> /\ rowLock = Nobody

(* Once a connection has caught up, it has sent every event that was       *)
(* committed after its after_seq, whatever was recorded while it replayed. *)
(* It may miss an event that was appended but not committed when it        *)
(* subscribed, one that replay_limit cuts off, and one that takes the      *)
(* number of an event that was published and rolled back.                  *)
MissedOnlyInFlight ==
  CaughtUp => after + 1 .. Len(db.log) \subseteq Sent \cup missable

(* The comment of run_events_ws: live appends during reconnect are not     *)
(* missed.                                                                 *)
StreamHasNoGap ==
  CaughtUp => after + 1 .. Len(db.log) \subseteq Sent

(* A page that no longer follows the run shows committed events only: the  *)
(* reload that stops it drops what was published and rolled back, and no   *)
(* message of the old connection reaches it.                               *)
StoppedPageIsTrue ==
  ~Following => ghosts = {} /\ shown \subseteq 1..Len(db.log)

(* What the WebSocket misses, the poll repairs: every committed event is   *)
(* itself shown at some time while the page follows the run, unless the    *)
(* page is full of newer ones.  A rolled-back event that reached the page  *)
(* is in the way of the committed event that took its number, and of those *)
(* it pushed out, since addEvent skips a number it holds.                  *)
Real == shown \ ghosts
ShowsOrPassed(n) ==
  \/ n \in Real
  \/ Cardinality({m \in Real : m > n}) = Window
  \/ \E m \in ghosts : m >= n
  \/ ~Following
PageCatchesUp ==
  \A n \in 1..MaxEvents : (n <= Len(db.log)) ~> ShowsOrPassed(n)

(* Rolled-back events do not stay on the page of a run that ends: once it  *)
(* has ended for good, the poll reloads the page.                          *)
PageEndsTrue ==
  <>[](db.status \in Ended) => <>[](ghosts = {} /\ shown \subseteq 1..Len(db.log))
=============================================================================
