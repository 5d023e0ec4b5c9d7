----------------------------- MODULE SpotEvents -----------------------------
(***************************************************************************)
(* The event stream of a live Spot grid: the listener task                 *)
(* (grid-bot/rust/src/events.rs), the bounded channel it fills, and the    *)
(* wait at the end of a run_cli cycle that empties it.  The listener       *)
(* reconnects for ever with a backoff; what the venue says between two     *)
(* subscriptions, or what a dying connection still held, is lost, and the  *)
(* consumer is told so by a Reconnected marker.  Frames are sequences of   *)
(* records; what a record carries besides its kind is left out.            *)
(***************************************************************************)
EXTENDS Integers, Sequences, SequencesExt, SeqFolds

CONSTANTS
  Frames,      \* the frames the venue may send: sequences of records
  Capacity,    \* slots of the channel (256 in the code)
  Backoff,     \* the reconnect schedule
  MaxFrames,   \* bound: frames the venue sends
  MaxSessions  \* bound: established connections

\* Records of this market, and records parse_spot_event_value leaves out: another market, a
\* perpetual market, an order that was not rejected, a malformed record.
Relevant == {"fill", "reject", "mid"}
Records == Relevant \cup {"foreign"}

ASSUME SpotEventsAssumption ==
  /\ Frames \subseteq Seq(Records)
  /\ Capacity \in Nat \ {0}
  /\ Backoff \in Seq(Nat) /\ Backoff # <<>>
  /\ MaxFrames \in Nat /\ MaxSessions \in Nat

VARIABLES
  link,       \* what the listener does
  socket,     \* frames of the open connection that are not read yet
  outbox,     \* events of the frame being handed over
  channel,    \* the channel to the run loop
  listener,   \* [connectedBefore, reconnects, failed]: the locals of run_spot_event_listener
  delay,      \* the backoff being slept
  consumer,   \* what the run loop does
  journal,    \* the fills and rejections it has journalled
  cancel,     \* the Ctrl+C flag
  said,       \* history: the fills and rejections the venue sent to a subscriber
  missed,     \* history: the venue said something that will not arrive, and no marker was read since
  everMissed, \* history: missed has been true
  sent        \* history: frames and sessions so far

eventVars == <<link, socket, outbox, channel, listener, delay, consumer, journal, cancel,
               said, missed, everMissed, sent>>

Marker(n) == [kind |-> "reconnected", count |-> n]
Event(kind) == [kind |-> kind, count |-> 0]
IsMarker(e) == e.kind = "reconnected"

\* parse_spot_event_value: the records of this Spot market, in their order.
ParseSpotEvents(frame) ==
  LET kept == Keep(frame, Relevant)
  IN [i \in DOMAIN kept |-> Event(kept[i])]

\* The events the run loop acts on.
Acted == [kind : {"fill", "reject"}, count : {0}]
Matters(events) == Keep(events, Acted)
Unread == FlattenSeq([i \in DOMAIN socket |-> ParseSpotEvents(socket[i])])

\* reconnect_backoff: in order of the failed attempts, then the last one again.
ReconnectBackoff(failed) ==
  LET i == IF failed = 0 THEN 1 ELSE failed
  IN IF i <= Len(Backoff) THEN Backoff[i] ELSE Backoff[Len(Backoff)]

SpotEventsInit ==
  /\ link = "connecting"
  /\ socket = <<>> /\ outbox = <<>> /\ channel = <<>>
  /\ listener = [connectedBefore |-> FALSE, reconnects |-> 0, failed |-> 0]
  /\ delay = 0
  /\ consumer = "cycle"
  /\ journal = <<>> /\ cancel = FALSE
  /\ said = <<>> /\ missed = FALSE /\ everMissed = FALSE
  /\ sent = [frames |-> 0, sessions |-> 0]

-----------------------------------------------------------------------------
(* The listener.                                                           *)

Open == link \in {"marking", "listening", "sending"}
Closed == cancel \/ consumer = "gone"

\* A connection that ends takes events with it.
Loses == Range(Unread \o outbox) \cap Acted # {}

\* run_connection has returned: the loop ends, or counts the attempt and sleeps.
SessionEnds(subscribed) ==
  LET counted ==
        IF ~subscribed THEN [listener EXCEPT !.failed = IF @ < Len(Backoff) THEN @ + 1 ELSE @]
        ELSE [connectedBefore |-> TRUE, failed |-> 0,
              reconnects |-> IF listener.connectedBefore THEN listener.reconnects + 1
                             ELSE listener.reconnects]
  IN /\ socket' = <<>> /\ outbox' = <<>>
     /\ missed' = (missed \/ Loses) /\ everMissed' = (everMissed \/ Loses)
     /\ IF Closed
        THEN link' = "stopped" /\ UNCHANGED <<listener, delay>>
        ELSE link' = "backoff" /\ listener' = counted /\ delay' = ReconnectBackoff(counted.failed)
     /\ UNCHANGED <<channel, consumer, journal, cancel, said, sent>>

\* The handshake or one of the four subscriptions fails.
ConnectFails == link = "connecting" /\ SessionEnds(FALSE)

\* Mutant: a connection after the first does not announce itself.
ConnectUnannounced ==
  /\ link = "connecting"
  /\ sent.sessions < MaxSessions
  /\ sent' = [sent EXCEPT !.sessions = @ + 1]
  /\ link' = "listening"
  /\ UNCHANGED <<socket, outbox, channel, listener, delay, consumer, journal, cancel,
                 said, missed, everMissed>>

\* Every connection but the first announces itself before it is read.
Connect ==
  /\ link = "connecting"
  /\ sent.sessions < MaxSessions
  /\ sent' = [sent EXCEPT !.sessions = @ + 1]
  /\ link' = IF listener.connectedBefore THEN "marking" ELSE "listening"
  /\ UNCHANGED <<socket, outbox, channel, listener, delay, consumer, journal, cancel,
                 said, missed, everMissed>>

\* send_event: waits for a slot, and gives up at shutdown or when the receiver is gone.
SendMarker ==
  /\ link = "marking"
  /\ ~Closed /\ Len(channel) < Capacity
  /\ channel' = Append(channel, Marker(listener.reconnects + 1))
  /\ link' = "listening"
  /\ UNCHANGED <<socket, outbox, listener, delay, consumer, journal, cancel,
                 said, missed, everMissed, sent>>

\* The next event of the frame in hand, likewise.
SendEvent ==
  /\ link = "sending"
  /\ ~Closed /\ Len(channel) < Capacity
  /\ channel' = Append(channel, Head(outbox))
  /\ outbox' = Tail(outbox)
  /\ link' = IF Len(outbox) = 1 THEN "listening" ELSE "sending"
  /\ UNCHANGED <<socket, listener, delay, consumer, journal, cancel,
                 said, missed, everMissed, sent>>

SendGivesUp == link \in {"marking", "sending"} /\ Closed /\ SessionEnds(TRUE)

\* Mutant: a frame is read while events of the last one are still to be handed over.
ReadFrameEagerly ==
  /\ link \in {"listening", "sending"} /\ socket # <<>>
  /\ outbox' = ParseSpotEvents(Head(socket)) \o outbox
  /\ socket' = Tail(socket)
  /\ link' = IF outbox' = <<>> THEN "listening" ELSE "sending"
  /\ UNCHANGED <<channel, listener, delay, consumer, journal, cancel,
                 said, missed, everMissed, sent>>

\* A text frame.  Its events are handed over one by one before the next frame is read.
ReadFrame ==
  /\ link = "listening" /\ socket # <<>>
  /\ outbox' = ParseSpotEvents(Head(socket))
  /\ socket' = Tail(socket)
  /\ link' = IF outbox' = <<>> THEN "listening" ELSE "sending"
  /\ UNCHANGED <<channel, listener, delay, consumer, journal, cancel,
                 said, missed, everMissed, sent>>

\* Mutant: only a frame wakes the listener up.
ListenerSeesShutdownLate == link = "listening" /\ Closed /\ socket # <<>> /\ SessionEnds(TRUE)

\* The poll of the flag, at most SHUTDOWN_POLL_INTERVAL after it was set.
ListenerSeesShutdown == link = "listening" /\ Closed /\ SessionEnds(TRUE)

\* Close frame, end of stream, transport error, text that is no JSON, a refused subscription, or
\* the age limit of a connection.
Disconnect == link = "listening" /\ SessionEnds(TRUE)

\* sleep_or_shutdown: the next attempt starts after the delay, or the task ends.
BackoffEnds ==
  /\ link = "backoff"
  /\ link' = IF Closed THEN "stopped" ELSE "connecting"
  /\ UNCHANGED <<socket, outbox, channel, listener, delay, consumer, journal, cancel,
                 said, missed, everMissed, sent>>

-----------------------------------------------------------------------------
(* The venue and the run loop.                                             *)

\* The venue sends a frame to its subscribers.  After the first subscription a frame that nobody
\* is subscribed to is missed.
VenueSends(frame) ==
  LET matters == Matters(ParseSpotEvents(frame))
      lost == ~Open /\ listener.connectedBefore /\ matters # <<>>
  IN /\ sent.frames < MaxFrames
     /\ sent' = [sent EXCEPT !.frames = @ + 1]
     /\ socket' = IF Open THEN Append(socket, frame) ELSE socket
     /\ said' = IF Open THEN said \o matters ELSE said
     /\ missed' = (missed \/ lost) /\ everMissed' = (everMissed \/ lost)
     /\ UNCHANGED <<link, outbox, channel, listener, delay, consumer, journal, cancel>>

\* A cycle is over and the wait for the next one begins; or a check_cancel of the cycle ends the
\* run.
CycleDone ==
  /\ consumer = "cycle"
  /\ consumer' = IF cancel THEN "gone" ELSE "waiting"
  /\ UNCHANGED <<link, socket, outbox, channel, listener, delay, journal, cancel,
                 said, missed, everMissed, sent>>

\* After the wait: check_cancel, then the next cycle, which reads the exchange over REST.
Wakes == consumer' = IF cancel THEN "gone" ELSE "cycle"

TimerEnds ==
  /\ consumer = "waiting" /\ Wakes
  /\ UNCHANGED <<link, socket, outbox, channel, listener, delay, journal, cancel,
                 said, missed, everMissed, sent>>

\* A fill or a rejection is journalled and ends the wait, a marker ends it, a price does not.
TakeEvent ==
  /\ consumer = "waiting" /\ channel # <<>>
  /\ channel' = Tail(channel)
  /\ LET e == Head(channel)
     IN /\ IF e.kind = "mid" THEN UNCHANGED consumer ELSE Wakes
        /\ journal' = journal \o Matters(<<e>>)
        /\ missed' = (missed /\ ~IsMarker(e))
  /\ UNCHANGED <<link, socket, outbox, listener, delay, cancel, said, everMissed, sent>>

\* recv gives None once the listener has ended and the channel is empty.
ChannelClosed ==
  /\ consumer = "waiting" /\ channel = <<>> /\ link = "stopped" /\ Wakes
  /\ UNCHANGED <<link, socket, outbox, channel, listener, delay, journal, cancel,
                 said, missed, everMissed, sent>>

CtrlCPressed ==
  /\ ~cancel /\ consumer # "gone"
  /\ cancel' = TRUE
  /\ UNCHANGED <<link, socket, outbox, channel, listener, delay, consumer, journal,
                 said, missed, everMissed, sent>>

RunIsOver == consumer = "gone" /\ link = "stopped" /\ UNCHANGED eventVars

ListenerSteps ==
  ConnectFails \/ Connect \/ SendMarker \/ SendEvent \/ SendGivesUp \/ ReadFrame
    \/ ListenerSeesShutdown \/ BackoffEnds

SpotEventsNext ==
  \/ ListenerSteps \/ Disconnect
  \/ \E frame \in Frames : VenueSends(frame)
  \/ CycleDone \/ TimerEnds \/ TakeEvent \/ ChannelClosed \/ CtrlCPressed
  \/ RunIsOver

\* Connection attempts and backoffs end, and the runtime polls both tasks.  Nothing is assumed of
\* the venue and of the timer of the wait.
StreamFairness ==
  /\ WF_eventVars(ListenerSteps)
  /\ WF_eventVars(CycleDone) /\ WF_eventVars(TakeEvent) /\ WF_eventVars(ChannelClosed)

SpotEventsSpec == SpotEventsInit /\ [][SpotEventsNext]_eventVars /\ StreamFairness

-----------------------------------------------------------------------------

Events == [kind : Relevant \cup {"reconnected"}, count : 0 .. MaxSessions]

\* The channel never holds more than its slots, and a frame is only kept while a connection is open.
EventsTypeOK ==
  /\ link \in {"connecting", "marking", "listening", "sending", "backoff", "stopped"}
  /\ socket \in Seq(Frames) /\ outbox \in Seq(Events)
  /\ channel \in Seq(Events) /\ Len(channel) <= Capacity
  /\ listener \in [connectedBefore : BOOLEAN, reconnects : 0 .. MaxSessions, failed : 0 .. Len(Backoff)]
  /\ delay \in {0} \cup Range(Backoff)
  /\ consumer \in {"cycle", "waiting", "gone"} /\ cancel \in BOOLEAN
  /\ {journal, said} \subseteq Seq(Acted)
  /\ missed \in BOOLEAN /\ everMissed \in BOOLEAN
  /\ sent \in [frames : 0 .. MaxFrames, sessions : 0 .. MaxSessions]

\* A loss is announced: once a connection is being read again after fills or rejections went
\* missing, a marker that will wake the run loop up is in the channel until it is read
\* (events.rs:219-230).
LossIsAnnounced ==
  missed /\ ~Closed /\ link \in {"listening", "sending"} => \E i \in DOMAIN channel : IsMarker(channel[i])

\* Nothing is dropped, doubled or reordered between the venue and the journal: as long as no
\* connection was lost, what the venue said is what was journalled, then what the channel holds,
\* then what is being handed over, then what the socket holds, however full the channel is
\* (events.rs:246-310, main.rs:2834-2894).
JournalFollowsVenue ==
  ~everMissed /\ ~Closed => said = journal \o Matters(channel) \o Matters(outbox) \o Matters(Unread)

\* Ctrl+C ends the run without the timer of the wait, although the wait does not look at the
\* flag: the listener stops within its own polls and closes the channel (main.rs:2834-2894).
StopsPromptly == cancel ~> consumer = "gone"
=============================================================================
