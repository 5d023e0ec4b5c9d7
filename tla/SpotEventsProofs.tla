-------------------------- MODULE SpotEventsProofs --------------------------
(***************************************************************************)
(* A loss of events is announced; the queues between the venue and the     *)
(* journal keep their types and the order of the events; for any frames,   *)
(* any capacity of the channel and any schedule of reconnects.             *)
(***************************************************************************)
EXTENDS SpotEvents, SeqLemmas

Safe == SpotEventsInit /\ [][SpotEventsNext]_eventVars

\* The locals of the listener, and a channel that is a sequence.
ListenerInv ==
  /\ listener \in [connectedBefore : BOOLEAN, reconnects : Nat, failed : Nat]
  /\ channel \in Seq(Range(channel))

\* Frames are only held while a connection is open, so that a connection which never came about
\* takes nothing with it.
HeldInv == ~Open => socket = <<>> /\ outbox = <<>>

\* Something can only have been missed after a first subscription: the next connection then
\* announces itself, unless the listener has ended.
MissedInv == missed => listener.connectedBefore \/ link = "stopped"

EventsInv == ListenerInv /\ HeldInv /\ MissedInv /\ LossIsAnnounced

-----------------------------------------------------------------------------
(* The channel.                                                            *)

LEMMA AppendToChannel ==
  ASSUME NEW c, c \in Seq(Range(c)), NEW e
  PROVE  /\ Append(c, e) \in Seq(Range(Append(c, e)))
         /\ (\E i \in DOMAIN c : IsMarker(c[i])) \/ IsMarker(e)
              => \E i \in DOMAIN Append(c, e) : IsMarker(Append(c, e)[i])
<1> DEFINE d == Append(c, e)
           all == Range(c) \cup {e}
<1>1. c \in Seq(all)
  OBVIOUS
<1>2. /\ d \in Seq(all) /\ Len(d) = Len(c) + 1 /\ d[Len(c) + 1] = e
      /\ \A i \in 1 .. Len(c) : d[i] = c[i]
      /\ DOMAIN c = 1 .. Len(c) /\ Len(c) \in Nat /\ DOMAIN d = 1 .. Len(d)
  BY <1>1
<1> HIDE DEF d, all
<1>3. \A i \in 1 .. Len(d) : d[i] \in Range(d)
  BY <1>2 DEF Range
<1>4. d \in Seq(Range(d))
  BY <1>2, <1>3
<1>5. ASSUME NEW i \in DOMAIN c, IsMarker(c[i]) PROVE \E j \in DOMAIN d : IsMarker(d[j])
  <2>1. i \in DOMAIN d /\ d[i] = c[i]
    BY <1>2
  <2>2. QED BY <1>5, <2>1
<1>6. ASSUME IsMarker(e) PROVE \E j \in DOMAIN d : IsMarker(d[j])
  <2>1. Len(c) + 1 \in DOMAIN d /\ d[Len(c) + 1] = e
    BY <1>2
  <2>2. QED BY <1>6, <2>1
<1>7. QED BY <1>4, <1>5, <1>6 DEF d

LEMMA TailOfChannel ==
  ASSUME NEW c, c \in Seq(Range(c)), c # <<>>
  PROVE  /\ Tail(c) \in Seq(Range(Tail(c)))
         /\ (\E i \in DOMAIN c : IsMarker(c[i])) /\ ~IsMarker(Head(c))
              => \E i \in DOMAIN Tail(c) : IsMarker(Tail(c)[i])
<1> DEFINE d == Tail(c)
           all == Range(c)
<1>1. /\ d \in Seq(all) /\ Len(d) = Len(c) - 1
      /\ \A i \in 1 .. Len(d) : d[i] = c[i + 1]
      /\ DOMAIN c = 1 .. Len(c) /\ Len(c) \in Nat /\ DOMAIN d = 1 .. Len(d) /\ Head(c) = c[1]
      /\ Len(c) > 0
  OBVIOUS
<1> HIDE DEF d, all
<1>2. \A i \in 1 .. Len(d) : d[i] \in Range(d)
  BY <1>1 DEF Range
<1>3. d \in Seq(Range(d))
  BY <1>1, <1>2
<1>4. ASSUME NEW i \in DOMAIN c, IsMarker(c[i]), ~IsMarker(Head(c))
      PROVE  \E j \in DOMAIN d : IsMarker(d[j])
  <2>1. i # 1
    BY <1>1, <1>4
  <2>2. i - 1 \in DOMAIN d /\ d[i - 1] = c[i]
    BY <1>1, <2>1
  <2>3. QED BY <1>4, <2>2
<1>5. QED BY <1>3, <1>4 DEF d

\* Nothing held, nothing lost.
LEMMA NothingLost == socket = <<>> /\ outbox = <<>> => ~Loses
<1> SUFFICES ASSUME socket = <<>>, outbox = <<>> PROVE ~Loses
  OBVIOUS
<1> DEFINE frames == [i \in DOMAIN socket |-> ParseSpotEvents(socket[i])]
<1>1. frames = <<>>
  OBVIOUS
<1>2. FlattenSeq(frames) = <<>>
  <2> HIDE DEF frames
  <2>1. Len(frames) = 0
    BY <1>1
  <2>2. QED BY <1>1, <2>1 DEF FlattenSeq
<1>3. Unread = <<>>
  BY <1>2 DEF Unread
<1>4. Range(Unread \o outbox) = {}
  BY <1>3 DEF Range
<1>5. QED BY <1>4 DEF Loses

-----------------------------------------------------------------------------
(* The steps.                                                              *)

LEMMA SessionEndsKeeps ==
  ASSUME EventsInv, NEW subscribed \in BOOLEAN, SessionEnds(subscribed),
         subscribed \/ link = "connecting"
  PROVE  EventsInv'
<1>0. ListenerInv /\ HeldInv /\ MissedInv
  BY DEF EventsInv
<1> DEFINE counted ==
      IF ~subscribed THEN [listener EXCEPT !.failed = IF @ < Len(Backoff) THEN @ + 1 ELSE @]
      ELSE [connectedBefore |-> TRUE, failed |-> 0,
            reconnects |-> IF listener.connectedBefore THEN listener.reconnects + 1
                           ELSE listener.reconnects]
<1>1. /\ socket' = <<>> /\ outbox' = <<>> /\ missed' = (missed \/ Loses)
      /\ \/ Closed /\ link' = "stopped" /\ UNCHANGED listener
         \/ link' = "backoff" /\ listener' = counted
      /\ UNCHANGED channel
  BY DEF SessionEnds
<1>2. /\ counted \in [connectedBefore : BOOLEAN, reconnects : Nat, failed : Nat]
      /\ counted.connectedBefore = (listener.connectedBefore \/ subscribed)
  <2>1. CASE subscribed
    <3>1. PICK reconnects \in Nat :
            reconnects = IF listener.connectedBefore THEN listener.reconnects + 1 ELSE listener.reconnects
      BY <1>0 DEF ListenerInv
    <3>2. counted = [connectedBefore |-> TRUE, failed |-> 0, reconnects |-> reconnects]
      BY <2>1, <3>1
    <3> HIDE DEF counted
    <3>3. QED BY <2>1, <3>2
  <2>2. CASE ~subscribed
    <3>1. PICK failed \in Nat :
            failed = IF listener.failed < Len(Backoff) THEN listener.failed + 1 ELSE listener.failed
      BY <1>0 DEF ListenerInv
    <3>2. counted = [listener EXCEPT !.failed = failed]
      BY <2>2, <3>1
    <3> HIDE DEF counted
    <3>3. QED BY <1>0, <2>2, <3>2 DEF ListenerInv
  <2>3. QED BY <2>1, <2>2
<1> HIDE DEF counted
<1>3. ListenerInv'
  BY <1>0, <1>1, <1>2 DEF ListenerInv
<1>4. HeldInv'
  BY <1>1 DEF HeldInv
<1>5. MissedInv'
  <2>1. CASE subscribed
    BY <1>1, <1>2, <2>1 DEF MissedInv
  <2>2. CASE ~subscribed
    <3>1. ~Loses
      BY <1>0, <2>2, NothingLost DEF HeldInv, Open
    <3>2. missed => listener.connectedBefore
      BY <1>0, <2>2 DEF MissedInv
    <3>3. QED BY <1>1, <1>2, <3>1, <3>2 DEF MissedInv
  <2>3. QED BY <2>1, <2>2
<1>6. LossIsAnnounced'
  BY <1>1 DEF LossIsAnnounced
<1>7. QED BY <1>3, <1>4, <1>5, <1>6 DEF EventsInv

LEMMA EventsInvInit == SpotEventsInit => EventsInv
  BY DEF SpotEventsInit, EventsInv, ListenerInv, HeldInv, MissedInv, LossIsAnnounced, Open, Range

LEMMA EventsInvStep == EventsInv /\ [SpotEventsNext]_eventVars => EventsInv'
<1> SUFFICES ASSUME EventsInv, [SpotEventsNext]_eventVars PROVE EventsInv'
  OBVIOUS
<1>0. ListenerInv /\ HeldInv /\ MissedInv /\ LossIsAnnounced
  BY DEF EventsInv
<1> USE DEF EventsInv
<1>1. CASE ConnectFails
  BY <1>1, SessionEndsKeeps DEF ConnectFails
<1>2. CASE Connect
  <2>1. /\ link = "connecting" /\ link' = IF listener.connectedBefore THEN "marking" ELSE "listening"
        /\ UNCHANGED <<socket, outbox, channel, listener, consumer, cancel, missed>>
    BY <1>2 DEF Connect
  <2>2. ListenerInv'
    BY <1>0, <2>1 DEF ListenerInv
  <2>3. HeldInv'
    BY <1>0, <2>1 DEF HeldInv, Open
  <2>4. MissedInv' /\ LossIsAnnounced'
    BY <1>0, <2>1 DEF MissedInv, LossIsAnnounced
  <2>5. QED BY <2>2, <2>3, <2>4
<1>3. CASE SendMarker
  <2>1. /\ link = "marking" /\ link' = "listening"
        /\ channel' = Append(channel, Marker(listener.reconnects + 1))
        /\ UNCHANGED <<socket, outbox, listener, consumer, cancel, missed>>
    BY <1>3 DEF SendMarker
  <2>2. IsMarker(Marker(listener.reconnects + 1))
    BY DEF IsMarker, Marker
  <2>3. channel' \in Seq(Range(channel')) /\ \E i \in DOMAIN channel' : IsMarker(channel'[i])
    BY <1>0, <2>1, <2>2, AppendToChannel DEF ListenerInv
  <2>4. ListenerInv'
    BY <1>0, <2>1, <2>3 DEF ListenerInv
  <2>5. LossIsAnnounced'
    BY <2>3 DEF LossIsAnnounced
  <2>6. HeldInv' /\ MissedInv'
    BY <1>0, <2>1 DEF HeldInv, MissedInv, Open
  <2>7. QED BY <2>4, <2>5, <2>6
<1>4. CASE SendEvent
  <2>1. /\ link = "sending" /\ link' \in {"listening", "sending"}
        /\ channel' = Append(channel, Head(outbox))
        /\ UNCHANGED <<socket, listener, consumer, cancel, missed>>
    BY <1>4 DEF SendEvent
  <2>2. /\ channel' \in Seq(Range(channel'))
        /\ (\E i \in DOMAIN channel : IsMarker(channel[i])) => \E i \in DOMAIN channel' : IsMarker(channel'[i])
    BY <1>0, <2>1, AppendToChannel DEF ListenerInv
  <2>3. ListenerInv'
    BY <1>0, <2>1, <2>2 DEF ListenerInv
  <2>4. LossIsAnnounced'
    BY <1>0, <2>1, <2>2 DEF LossIsAnnounced, Closed
  <2>5. HeldInv' /\ MissedInv'
    BY <1>0, <2>1 DEF HeldInv, MissedInv, Open
  <2>6. QED BY <2>3, <2>4, <2>5
<1>5. CASE SendGivesUp
  BY <1>5, SessionEndsKeeps DEF SendGivesUp
<1>6. CASE ReadFrame
  <2>1. /\ link = "listening" /\ link' \in {"listening", "sending"}
        /\ UNCHANGED <<channel, listener, consumer, cancel, missed>>
    BY <1>6 DEF ReadFrame
  <2>2. ListenerInv' /\ HeldInv' /\ MissedInv'
    BY <1>0, <2>1 DEF ListenerInv, HeldInv, MissedInv, Open
  <2>3. LossIsAnnounced'
    BY <1>0, <2>1 DEF LossIsAnnounced, Closed
  <2>4. QED BY <2>2, <2>3
<1>7. CASE ListenerSeesShutdown \/ Disconnect
  BY <1>7, SessionEndsKeeps DEF ListenerSeesShutdown, Disconnect
<1>8. CASE BackoffEnds
  BY <1>0, <1>8 DEF BackoffEnds, ListenerInv, HeldInv, MissedInv, LossIsAnnounced, Open
<1>9. ASSUME NEW frame \in Frames, VenueSends(frame) PROVE EventsInv'
  <2>1. PICK lost \in BOOLEAN :
          /\ lost => ~Open /\ listener.connectedBefore
          /\ missed' = (missed \/ lost)
    <3>1. (~Open /\ listener.connectedBefore /\ Matters(ParseSpotEvents(frame)) # <<>>) \in BOOLEAN
      OBVIOUS
    <3>2. QED BY <1>9, <3>1 DEF VenueSends
  <2>2. UNCHANGED <<link, outbox, channel, listener, consumer, cancel>> /\ (~Open => UNCHANGED socket)
    BY <1>9 DEF VenueSends
  <2>3. ListenerInv' /\ HeldInv' /\ MissedInv'
    BY <1>0, <2>1, <2>2 DEF ListenerInv, HeldInv, MissedInv, Open
  <2>4. LossIsAnnounced'
    BY <1>0, <2>1, <2>2 DEF LossIsAnnounced, Closed, Open
  <2>5. QED BY <2>3, <2>4
<1>10. CASE TakeEvent
  <2>1. /\ channel # <<>> /\ channel' = Tail(channel)
        /\ missed' = (missed /\ ~IsMarker(Head(channel)))
        /\ consumer = "waiting"
        /\ UNCHANGED <<link, socket, outbox, listener, cancel>>
    BY <1>10 DEF TakeEvent
  <2>2. /\ channel' \in Seq(Range(channel'))
        /\ (\E i \in DOMAIN channel : IsMarker(channel[i])) /\ ~IsMarker(Head(channel))
              => \E i \in DOMAIN channel' : IsMarker(channel'[i])
    BY <1>0, <2>1, TailOfChannel DEF ListenerInv
  <2>3. ListenerInv' /\ HeldInv' /\ MissedInv'
    BY <1>0, <2>1, <2>2 DEF ListenerInv, HeldInv, MissedInv, Open
  <2>4. ~Closed' => ~Closed
    BY <2>1 DEF Closed
  <2>5. LossIsAnnounced'
    BY <1>0, <2>1, <2>2, <2>4 DEF LossIsAnnounced
  <2>6. QED BY <2>3, <2>5
<1>11. CASE CycleDone \/ TimerEnds \/ ChannelClosed \/ CtrlCPressed
  <2>1. UNCHANGED <<link, socket, outbox, channel, listener, missed>> /\ (~Closed' => ~Closed)
    BY <1>11 DEF CycleDone, TimerEnds, ChannelClosed, CtrlCPressed, Wakes, Closed
  <2>2. ListenerInv' /\ HeldInv' /\ MissedInv'
    BY <1>0, <2>1 DEF ListenerInv, HeldInv, MissedInv, Open
  <2>3. LossIsAnnounced'
    BY <1>0, <2>1 DEF LossIsAnnounced
  <2>4. QED BY <2>2, <2>3
<1>12. CASE RunIsOver \/ UNCHANGED eventVars
  BY <1>0, <1>12 DEF RunIsOver, eventVars, ListenerInv, HeldInv, MissedInv, LossIsAnnounced, Open, Closed
<1>13. QED
  BY <1>1, <1>2, <1>3, <1>4, <1>5, <1>6, <1>7, <1>8, <1>9, <1>10, <1>11, <1>12
  DEF SpotEventsNext, ListenerSteps

LEMMA EventsInvariance == Safe => []EventsInv
  BY EventsInvInit, EventsInvStep, PTL DEF Safe

(* Once a connection is read again after fills or rejections went missing, a marker that wakes
   the run loop is in the channel until it is read, for every order of losses, reconnects and
   frames and every size of the channel (events.rs:219-230). *)
THEOREM LossReachesTheLoop == SpotEventsSpec => []LossIsAnnounced
<1>1. EventsInv => LossIsAnnounced
  BY DEF EventsInv
<1>2. SpotEventsSpec => Safe
  BY DEF SpotEventsSpec, Safe
<1>3. QED BY <1>1, <1>2, EventsInvariance, PTL

-----------------------------------------------------------------------------
(***************************************************************************)
(* Types, and what becomes of the events of a frame.                       *)
(***************************************************************************)

\* What the frames of a socket still hold.
EventsOf(frames) == FlattenSeq([i \in DOMAIN frames |-> ParseSpotEvents(frames[i])])

LEMMA EventIsTyped == /\ \A r \in Relevant : Event(r) \in Events
                      /\ Acted \subseteq Events
                      /\ \A n \in 1 .. MaxSessions : Marker(n) \in Events /\ Marker(n) \notin Acted
<1>1. MaxSessions \in Nat
  BY SpotEventsAssumption DEF SpotEventsAssumption
<1>2. QED BY <1>1 DEF Event, Events, Relevant, Acted, Marker

LEMMA ParsedAreEvents ==
  ASSUME NEW frame \in Frames
  PROVE  ParseSpotEvents(frame) \in Seq(Events)
<1>1. frame \in Seq(Records)
  BY SpotEventsAssumption DEF SpotEventsAssumption
<1>2. Keep(frame, Relevant) \in Seq(Records \cap Relevant)
  BY <1>1, KeepType
<1>3. PICK kept \in Seq(Relevant) : kept = Keep(frame, Relevant)
  BY <1>2
<1>4. ParseSpotEvents(frame) = [i \in DOMAIN kept |-> Event(kept[i])]
  BY <1>3 DEF ParseSpotEvents
<1>5. DOMAIN kept = 1 .. Len(kept) /\ Len(kept) \in Nat /\ \A i \in DOMAIN kept : kept[i] \in Relevant
  OBVIOUS
<1>6. \A i \in DOMAIN kept : Event(kept[i]) \in Events
  BY <1>5, EventIsTyped
<1>7. QED BY <1>4, <1>5, <1>6

LEMMA ParsedFrames ==
  ASSUME NEW frames \in Seq(Frames)
  PROVE  /\ [i \in DOMAIN frames |-> ParseSpotEvents(frames[i])] \in Seq(Seq(Events))
         /\ EventsOf(frames) \in Seq(Events)
<1>1. DOMAIN frames = 1 .. Len(frames) /\ Len(frames) \in Nat /\ \A i \in DOMAIN frames : frames[i] \in Frames
  OBVIOUS
<1>2. \A i \in DOMAIN frames : ParseSpotEvents(frames[i]) \in Seq(Events)
  BY <1>1, ParsedAreEvents
<1>3. [i \in DOMAIN frames |-> ParseSpotEvents(frames[i])] \in Seq(Seq(Events))
  BY <1>1, <1>2
<1>4. QED BY <1>3, FlattenType DEF EventsOf

LEMMA NoFrames == EventsOf(<<>>) = <<>>
<1> DEFINE none == <<>>
<1>1. [i \in DOMAIN none |-> ParseSpotEvents(none[i])] = <<>>
  OBVIOUS
<1>2. QED BY <1>1, FlattenEmpty DEF EventsOf

LEMMA FrameArrives ==
  ASSUME NEW frames \in Seq(Frames), NEW frame \in Frames
  PROVE  EventsOf(Append(frames, frame)) = EventsOf(frames) \o ParseSpotEvents(frame)
<1> DEFINE parsed == [i \in DOMAIN frames |-> ParseSpotEvents(frames[i])]
           all == Append(frames, frame)
<1>1. parsed \in Seq(Seq(Events)) /\ ParseSpotEvents(frame) \in Seq(Events)
  BY ParsedFrames, ParsedAreEvents
<1>2. [i \in DOMAIN all |-> ParseSpotEvents(all[i])] = Append(parsed, ParseSpotEvents(frame))
  <2>1. /\ DOMAIN all = 1 .. Len(frames) + 1 /\ all[Len(frames) + 1] = frame /\ Len(frames) \in Nat
        /\ \A i \in 1 .. Len(frames) : all[i] = frames[i]
        /\ DOMAIN parsed = 1 .. Len(frames) /\ Len(parsed) = Len(frames)
        /\ \A i \in 1 .. Len(frames) : parsed[i] = ParseSpotEvents(frames[i])
    OBVIOUS
  <2> DEFINE left == [i \in DOMAIN all |-> ParseSpotEvents(all[i])]
             right == Append(parsed, ParseSpotEvents(frame))
  <2>2. left \in Seq(Seq(Events))
    <3>1. all \in Seq(Frames)
      OBVIOUS
    <3> HIDE DEF all
    <3>2. QED BY <3>1, ParsedFrames
  <2>3. right \in Seq(Seq(Events)) /\ Len(right) = Len(frames) + 1
        /\ right[Len(frames) + 1] = ParseSpotEvents(frame)
        /\ \A i \in 1 .. Len(frames) : right[i] = parsed[i]
    <3> HIDE DEF parsed
    <3>1. QED BY <1>1, <2>1
  <2>4. Len(left) = Len(frames) + 1
    <3> HIDE DEF all
    <3>1. QED BY <2>1
  <2>5. ASSUME NEW i \in 1 .. Len(frames) + 1 PROVE left[i] = right[i]
    <3>1. left[i] = ParseSpotEvents(all[i])
      <4> HIDE DEF all
      <4>1. QED BY <2>1
    <3> HIDE DEF left, right, all, parsed
    <3>2. CASE i = Len(frames) + 1
      BY <2>1, <2>3, <3>1, <3>2
    <3>3. CASE i # Len(frames) + 1
      <4>1. i \in 1 .. Len(frames)
        BY <2>1, <3>3
      <4>2. QED BY <2>1, <2>3, <3>1, <4>1
    <3>4. QED BY <3>2, <3>3
  <2> HIDE DEF left, right
  <2>6. left = right
    BY <2>2, <2>3, <2>4, <2>5, SeqEqual
  <2>7. QED BY <2>6 DEF left, right
<1> HIDE DEF parsed
<1>3. FlattenSeq(Append(parsed, ParseSpotEvents(frame))) = FlattenSeq(parsed) \o ParseSpotEvents(frame)
  BY <1>1, FlattenAppend
<1>4. QED BY <1>2, <1>3 DEF EventsOf, parsed

LEMMA FrameLeaves ==
  ASSUME NEW frames \in Seq(Frames), frames # <<>>
  PROVE  /\ Head(frames) \in Frames /\ Tail(frames) \in Seq(Frames)
         /\ EventsOf(frames) = ParseSpotEvents(Head(frames)) \o EventsOf(Tail(frames))
<1> DEFINE parsed == [i \in DOMAIN frames |-> ParseSpotEvents(frames[i])]
           rest == Tail(frames)
<1>1. parsed \in Seq(Seq(Events))
  BY ParsedFrames
<1>2. /\ Head(frames) \in Frames /\ rest \in Seq(Frames) /\ Head(frames) = frames[1]
      /\ DOMAIN frames = 1 .. Len(frames) /\ Len(frames) \in Nat /\ Len(frames) > 0
      /\ Len(rest) = Len(frames) - 1 /\ DOMAIN rest = 1 .. Len(frames) - 1
      /\ \A i \in 1 .. Len(frames) - 1 : rest[i] = frames[i + 1]
  OBVIOUS
<1>3. parsed # <<>> /\ Head(parsed) = ParseSpotEvents(Head(frames)) /\ Len(parsed) = Len(frames)
      /\ \A i \in 1 .. Len(frames) : parsed[i] = ParseSpotEvents(frames[i])
  BY <1>2
<1> HIDE DEF rest
<1>4. [i \in DOMAIN rest |-> ParseSpotEvents(rest[i])] = Tail(parsed)
  <2> DEFINE left == [i \in DOMAIN rest |-> ParseSpotEvents(rest[i])]
             right == Tail(parsed)
  <2>1. left \in Seq(Seq(Events))
    BY <1>2, ParsedFrames
  <2>2. Len(left) = Len(frames) - 1 /\ \A i \in 1 .. Len(frames) - 1 : left[i] = ParseSpotEvents(rest[i])
    BY <1>2
  <2> HIDE DEF parsed
  <2>3. /\ right \in Seq(Seq(Events)) /\ Len(right) = Len(frames) - 1
        /\ \A i \in 1 .. Len(frames) - 1 : right[i] = parsed[i + 1]
    BY <1>1, <1>2, <1>3
  <2> HIDE DEF left, right
  <2>4. ASSUME NEW i \in 1 .. Len(frames) - 1 PROVE left[i] = right[i]
    <3>1. i + 1 \in 1 .. Len(frames)
      BY <1>2
    <3>2. QED BY <1>2, <1>3, <2>2, <2>3, <3>1
  <2>5. left = right
    BY <2>1, <2>2, <2>3, <2>4, SeqEqual
  <2>6. QED BY <2>5 DEF left, right
<1> HIDE DEF parsed
<1>5. FlattenSeq(parsed) = Head(parsed) \o FlattenSeq(Tail(parsed))
  BY <1>1, <1>3, FlattenFirst
<1>6. EventsOf(frames) = FlattenSeq(parsed) /\ EventsOf(rest) = FlattenSeq(Tail(parsed))
  BY <1>4 DEF EventsOf, parsed
<1>7. QED BY <1>2, <1>3, <1>5, <1>6 DEF rest

-----------------------------------------------------------------------------
(***************************************************************************)
(* Type correctness.                                                       *)
(***************************************************************************)

\* Every session that became a first subscription or a reconnect was a connection, and so is the one
\* that is open: there is always a number for the next marker.
SessionsInv ==
  listener.reconnects + (IF listener.connectedBefore THEN 1 ELSE 0) + (IF Open THEN 1 ELSE 0)
    <= sent.sessions

\* The listener is handing over exactly while there is something to hand over.
OutboxInv == link = "sending" <=> outbox # <<>>

StreamInv == EventsTypeOK /\ SessionsInv /\ OutboxInv /\ HeldInv

LEMMA ScheduledDelay ==
  ASSUME NEW n \in Nat
  PROVE  ReconnectBackoff(n) \in Range(Backoff)
<1>1. Backoff \in Seq(Nat) /\ Backoff # <<>>
  BY SpotEventsAssumption DEF SpotEventsAssumption
<1>2. Len(Backoff) \in Nat /\ Len(Backoff) > 0 /\ DOMAIN Backoff = 1 .. Len(Backoff)
  BY <1>1
<1>3. \A i \in 1 .. Len(Backoff) : Backoff[i] \in Range(Backoff)
  BY <1>2 DEF Range
<1>4. QED BY <1>2, <1>3 DEF ReconnectBackoff

LEMMA SessionEndsTyped ==
  ASSUME StreamInv, NEW subscribed \in BOOLEAN, SessionEnds(subscribed),
         IF subscribed THEN Open ELSE link = "connecting"
  PROVE  StreamInv'
<1>0. EventsTypeOK /\ SessionsInv
  BY DEF StreamInv
<1> DEFINE Listeners == [connectedBefore : BOOLEAN, reconnects : 0 .. MaxSessions, failed : 0 .. Len(Backoff)]
           counted ==
             IF ~subscribed THEN [listener EXCEPT !.failed = IF @ < Len(Backoff) THEN @ + 1 ELSE @]
             ELSE [connectedBefore |-> TRUE, failed |-> 0,
                   reconnects |-> IF listener.connectedBefore THEN listener.reconnects + 1
                                  ELSE listener.reconnects]
           Due(l) == l.reconnects + (IF l.connectedBefore THEN 1 ELSE 0)
<1>1. MaxSessions \in Nat /\ Len(Backoff) \in Nat
  BY SpotEventsAssumption DEF SpotEventsAssumption
<1>2. listener \in Listeners /\ sent.sessions \in 0 .. MaxSessions
  BY <1>0 DEF EventsTypeOK
<1>3. counted \in Listeners /\ Due(counted) <= sent.sessions
  <2>1. CASE subscribed
    <3>1. listener.reconnects + (IF listener.connectedBefore THEN 1 ELSE 0) + 1 <= sent.sessions
      BY <1>0, <2>1 DEF SessionsInv
    <3>2. PICK reconnects \in 0 .. MaxSessions :
            /\ reconnects = IF listener.connectedBefore THEN listener.reconnects + 1 ELSE listener.reconnects
            /\ reconnects + 1 <= sent.sessions
      BY <1>1, <1>2, <3>1
    <3>3. counted = [connectedBefore |-> TRUE, failed |-> 0, reconnects |-> reconnects]
      BY <2>1, <3>2
    <3> HIDE DEF counted
    <3>4. counted \in Listeners
      BY <1>1, <3>3
    <3>5. QED BY <3>2, <3>3, <3>4
  <2>2. CASE ~subscribed
    <3>1. listener.reconnects + (IF listener.connectedBefore THEN 1 ELSE 0) <= sent.sessions
      BY <1>0, <1>1, <1>2, <2>2 DEF SessionsInv, Open
    <3>2. PICK failed \in 0 .. Len(Backoff) :
            failed = IF listener.failed < Len(Backoff) THEN listener.failed + 1 ELSE listener.failed
      BY <1>1, <1>2
    <3>3. counted = [listener EXCEPT !.failed = failed]
      BY <2>2, <3>2
    <3> HIDE DEF counted
    <3>4. counted \in Listeners /\ counted.reconnects = listener.reconnects
          /\ counted.connectedBefore = listener.connectedBefore
      BY <1>2, <3>3
    <3>5. QED BY <3>1, <3>4
  <2>3. QED BY <2>1, <2>2
<1>4. /\ socket' = <<>> /\ outbox' = <<>>
      /\ \/ link' = "stopped" /\ UNCHANGED <<listener, delay>>
         \/ link' = "backoff" /\ listener' = counted /\ delay' = ReconnectBackoff(counted.failed)
      /\ UNCHANGED <<channel, consumer, journal, cancel, said, sent>>
  BY DEF SessionEnds
<1> HIDE DEF counted
<1>5. missed' \in BOOLEAN /\ everMissed' \in BOOLEAN
  BY DEF SessionEnds
<1>6. listener' \in Listeners /\ delay' \in {0} \cup Range(Backoff)
  <2>1. delay \in {0} \cup Range(Backoff)
    BY <1>0 DEF EventsTypeOK
  <2>2. counted.failed \in Nat
    BY <1>1, <1>3
  <2>3. QED BY <1>2, <1>3, <1>4, <2>1, <2>2, ScheduledDelay
<1>7. link' \in {"backoff", "stopped"}
  BY <1>4
<1>8. EventsTypeOK'
  BY <1>0, <1>4, <1>5, <1>6, <1>7 DEF EventsTypeOK
<1>9. Due(listener) <= sent.sessions
  BY <1>0, <1>1, <1>2 DEF SessionsInv
<1>10. Due(listener') <= sent'.sessions
  BY <1>3, <1>4, <1>9
<1>11. listener'.reconnects \in Nat
  BY <1>1, <1>6
<1>12. SessionsInv'
  BY <1>7, <1>10, <1>11 DEF SessionsInv, Open
<1>13. OutboxInv' /\ HeldInv'
  BY <1>4, <1>7 DEF OutboxInv, HeldInv
<1>14. QED BY <1>8, <1>12, <1>13 DEF StreamInv

LEMMA StreamInvInit == SpotEventsInit => StreamInv
<1> SUFFICES ASSUME SpotEventsInit PROVE StreamInv
  OBVIOUS
<1>1. MaxSessions \in Nat /\ MaxFrames \in Nat /\ Capacity \in Nat /\ Len(Backoff) \in Nat
  BY SpotEventsAssumption DEF SpotEventsAssumption
<1>2. <<>> \in Seq(Frames) /\ <<>> \in Seq(Events) /\ <<>> \in Seq(Acted) /\ Len(<<>>) = 0
  OBVIOUS
<1>3. EventsTypeOK
  <2>1. socket \in Seq(Frames) /\ outbox \in Seq(Events) /\ channel \in Seq(Events) /\ Len(channel) <= Capacity
        /\ journal \in Seq(Acted) /\ said \in Seq(Acted)
    BY <1>1, <1>2 DEF SpotEventsInit
  <2>2. /\ listener \in [connectedBefore : BOOLEAN, reconnects : 0 .. MaxSessions, failed : 0 .. Len(Backoff)]
        /\ sent \in [frames : 0 .. MaxFrames, sessions : 0 .. MaxSessions]
    BY <1>1 DEF SpotEventsInit
  <2>3. /\ link = "connecting" /\ delay = 0 /\ consumer = "cycle" /\ cancel = FALSE
        /\ missed = FALSE /\ everMissed = FALSE
    BY DEF SpotEventsInit
  <2>4. QED BY <2>1, <2>2, <2>3 DEF EventsTypeOK
<1>4. SessionsInv /\ OutboxInv /\ HeldInv
  BY DEF SpotEventsInit, SessionsInv, OutboxInv, HeldInv, Open
<1>5. QED BY <1>3, <1>4 DEF StreamInv

LEMMA MattersIsActed == ASSUME NEW events \in Seq(Events) PROVE Matters(events) \in Seq(Acted)
<1>1. Keep(events, Acted) \in Seq(Events \cap Acted)
  BY KeepType
<1>2. QED BY <1>1 DEF Matters

LEMMA StreamInvStep == StreamInv /\ [SpotEventsNext]_eventVars => StreamInv'
<1> SUFFICES ASSUME StreamInv, [SpotEventsNext]_eventVars PROVE StreamInv'
  OBVIOUS
<1>0. EventsTypeOK /\ SessionsInv /\ OutboxInv /\ HeldInv
  BY DEF StreamInv
<1> USE DEF StreamInv
<1>a. MaxSessions \in Nat /\ MaxFrames \in Nat /\ Capacity \in Nat
  BY SpotEventsAssumption DEF SpotEventsAssumption
<1>b. /\ sent \in [frames : 0 .. MaxFrames, sessions : 0 .. MaxSessions]
      /\ outbox \in Seq(Events) /\ channel \in Seq(Events) /\ socket \in Seq(Frames)
      /\ listener.reconnects \in 0 .. MaxSessions /\ listener.connectedBefore \in BOOLEAN
      /\ journal \in Seq(Acted) /\ said \in Seq(Acted)
  BY <1>0 DEF EventsTypeOK
<1>1. CASE ConnectFails
  BY <1>1, SessionEndsTyped DEF ConnectFails
<1>2. CASE Connect
  <2>1. /\ link = "connecting" /\ link' \in {"marking", "listening"}
        /\ sent.sessions < MaxSessions /\ sent' = [sent EXCEPT !.sessions = @ + 1]
        /\ UNCHANGED <<socket, outbox, channel, listener, delay, consumer, journal, cancel,
                       said, missed, everMissed>>
    BY <1>2 DEF Connect
  <2>2. PICK sessions \in 0 .. MaxSessions : sessions = sent.sessions + 1
    BY <1>a, <1>b, <2>1
  <2>3. sent' = [sent EXCEPT !.sessions = sessions]
    BY <2>1, <2>2
  <2>4. sent' \in [frames : 0 .. MaxFrames, sessions : 0 .. MaxSessions] /\ sent'.sessions = sessions
    BY <1>b, <2>3
  <2>5. EventsTypeOK'
    BY <1>0, <2>1, <2>4 DEF EventsTypeOK
  <2>6. SessionsInv'
    BY <1>0, <1>a, <1>b, <2>1, <2>2, <2>4, SMTT(30) DEF SessionsInv, Open
  <2>7. OutboxInv' /\ HeldInv'
    BY <1>0, <2>1 DEF OutboxInv, HeldInv, Open
  <2>8. QED BY <2>5, <2>6, <2>7
<1>3. CASE SendMarker
  <2>1. /\ link = "marking" /\ link' = "listening" /\ Len(channel) < Capacity
        /\ channel' = Append(channel, Marker(listener.reconnects + 1))
        /\ UNCHANGED <<socket, outbox, listener, delay, consumer, journal, cancel,
                       said, missed, everMissed, sent>>
    BY <1>3 DEF SendMarker
  <2>2. listener.reconnects + 1 \in 1 .. MaxSessions
    BY <1>0, <1>a, <1>b, <2>1, SMTT(30) DEF SessionsInv, Open
  <2>3. channel' \in Seq(Events) /\ Len(channel') <= Capacity
    <3>1. Marker(listener.reconnects + 1) \in Events
      BY <2>2, EventIsTyped
    <3>2. QED BY <1>a, <1>b, <2>1, <3>1
  <2>4. EventsTypeOK'
    BY <1>0, <2>1, <2>3 DEF EventsTypeOK
  <2>5. SessionsInv' /\ OutboxInv' /\ HeldInv'
    BY <1>0, <2>1 DEF SessionsInv, OutboxInv, HeldInv, Open
  <2>6. QED BY <2>4, <2>5
<1>4. CASE SendEvent
  <2>1. /\ link = "sending" /\ link' = (IF Len(outbox) = 1 THEN "listening" ELSE "sending")
        /\ Len(channel) < Capacity
        /\ channel' = Append(channel, Head(outbox)) /\ outbox' = Tail(outbox)
        /\ UNCHANGED <<socket, listener, delay, consumer, journal, cancel,
                       said, missed, everMissed, sent>>
    BY <1>4 DEF SendEvent
  <2>2. outbox # <<>>
    BY <1>0, <2>1 DEF OutboxInv
  <2>3. Head(outbox) \in Events /\ Tail(outbox) \in Seq(Events)
        /\ (Tail(outbox) = <<>> <=> Len(outbox) = 1)
    <3>1. Len(outbox) \in Nat \ {0} /\ Tail(outbox) \in Seq(Events) /\ Len(Tail(outbox)) = Len(outbox) - 1
          /\ Head(outbox) \in Events
      BY <1>b, <2>2
    <3>2. PICK rest \in Seq(Events) : rest = Tail(outbox)
      BY <3>1
    <3>3. rest = <<>> <=> Len(rest) = 0
      OBVIOUS
    <3>4. QED BY <3>1, <3>2, <3>3
  <2>4. channel' \in Seq(Events) /\ Len(channel') <= Capacity
    BY <1>a, <1>b, <2>1, <2>3
  <2>5. EventsTypeOK'
    BY <1>0, <2>1, <2>3, <2>4 DEF EventsTypeOK
  <2>6. SessionsInv' /\ OutboxInv' /\ HeldInv'
    BY <1>0, <2>1, <2>3 DEF SessionsInv, OutboxInv, HeldInv, Open
  <2>7. QED BY <2>5, <2>6
<1>5. CASE SendGivesUp
  <2>1. Open /\ SessionEnds(TRUE)
    BY <1>5 DEF SendGivesUp, Open
  <2>2. QED BY <2>1, SessionEndsTyped
<1>6. CASE ReadFrame
  <2>1. /\ link = "listening" /\ socket # <<>>
        /\ outbox' = ParseSpotEvents(Head(socket)) /\ socket' = Tail(socket)
        /\ link' = IF outbox' = <<>> THEN "listening" ELSE "sending"
        /\ UNCHANGED <<channel, listener, delay, consumer, journal, cancel,
                       said, missed, everMissed, sent>>
    BY <1>6 DEF ReadFrame
  <2>2. outbox' \in Seq(Events) /\ socket' \in Seq(Frames)
    BY <1>b, <2>1, FrameLeaves, ParsedAreEvents
  <2>3. EventsTypeOK'
    BY <1>0, <2>1, <2>2 DEF EventsTypeOK
  <2>4. SessionsInv' /\ OutboxInv' /\ HeldInv'
    BY <1>0, <2>1 DEF SessionsInv, OutboxInv, HeldInv, Open
  <2>5. QED BY <2>3, <2>4
<1>7. CASE ListenerSeesShutdown \/ Disconnect
  <2>1. Open /\ SessionEnds(TRUE)
    BY <1>7 DEF ListenerSeesShutdown, Disconnect, Open
  <2>2. QED BY <2>1, SessionEndsTyped
<1>8. CASE BackoffEnds
  <2>1. /\ link = "backoff" /\ link' \in {"stopped", "connecting"}
        /\ UNCHANGED <<socket, outbox, channel, listener, delay, consumer, journal, cancel,
                       said, missed, everMissed, sent>>
    BY <1>8 DEF BackoffEnds
  <2>2. EventsTypeOK'
    BY <1>0, <2>1 DEF EventsTypeOK
  <2>3. SessionsInv' /\ OutboxInv' /\ HeldInv'
    BY <1>0, <2>1 DEF SessionsInv, OutboxInv, HeldInv, Open
  <2>4. QED BY <2>2, <2>3
<1>9. ASSUME NEW frame \in Frames, VenueSends(frame) PROVE StreamInv'
  <2> DEFINE matters == Matters(ParseSpotEvents(frame))
  <2>1. /\ sent.frames < MaxFrames /\ sent' = [sent EXCEPT !.frames = @ + 1]
        /\ socket' = IF Open THEN Append(socket, frame) ELSE socket
        /\ said' = IF Open THEN said \o matters ELSE said
        /\ UNCHANGED <<link, outbox, channel, listener, delay, consumer, journal, cancel>>
    BY <1>9 DEF VenueSends
  <2>2. missed' \in BOOLEAN /\ everMissed' \in BOOLEAN
    BY <1>9 DEF VenueSends
  <2>3. matters \in Seq(Acted)
    BY ParsedAreEvents, MattersIsActed
  <2> HIDE DEF matters
  <2>4. said' \in Seq(Acted) /\ socket' \in Seq(Frames)
    BY <1>0, <1>b, <2>1, <2>3 DEF EventsTypeOK
  <2>5. PICK frames \in 0 .. MaxFrames : frames = sent.frames + 1
    BY <1>a, <1>b, <2>1, SMTT(30)
  <2>6. sent' = [sent EXCEPT !.frames = frames]
    BY <2>1, <2>5
  <2>7. sent' \in [frames : 0 .. MaxFrames, sessions : 0 .. MaxSessions] /\ sent'.sessions = sent.sessions
    BY <1>b, <2>6
  <2>8. EventsTypeOK'
    BY <1>0, <2>1, <2>2, <2>4, <2>7 DEF EventsTypeOK
  <2>9. SessionsInv' /\ OutboxInv' /\ HeldInv'
    BY <1>0, <2>1, <2>7 DEF SessionsInv, OutboxInv, HeldInv, Open
  <2>10. QED BY <2>8, <2>9
<1>10. CASE TakeEvent
  <2>1. /\ consumer = "waiting" /\ channel # <<>> /\ channel' = Tail(channel)
        /\ consumer' \in {"waiting", "gone", "cycle"}
        /\ journal' = journal \o Matters(<<Head(channel)>>)
        /\ UNCHANGED <<link, socket, outbox, listener, delay, cancel, said, everMissed, sent>>
    BY <1>10 DEF TakeEvent, Wakes
  <2>2. missed' \in BOOLEAN
    BY <1>10 DEF TakeEvent
  <2>3. Head(channel) \in Events /\ Tail(channel) \in Seq(Events) /\ Len(Tail(channel)) <= Len(channel)
        /\ Len(Tail(channel)) \in Nat /\ Len(channel) \in Nat
    BY <1>b, <2>1
  <2>4. <<Head(channel)>> \in Seq(Events)
    BY <2>3
  <2>5. Matters(<<Head(channel)>>) \in Seq(Acted)
    BY <2>4, MattersIsActed
  <2>6. journal' \in Seq(Acted)
    <3>1. PICK matters \in Seq(Acted) : matters = Matters(<<Head(channel)>>)
      BY <2>5
    <3>2. journal' = journal \o matters
      BY <2>1, <3>1
    <3>3. QED BY <1>b, <3>2
  <2>7. Len(channel') <= Capacity /\ channel' \in Seq(Events)
    BY <1>0, <1>a, <2>1, <2>3 DEF EventsTypeOK
  <2>8. EventsTypeOK'
    BY <1>0, <2>1, <2>2, <2>6, <2>7 DEF EventsTypeOK
  <2>9. SessionsInv' /\ OutboxInv' /\ HeldInv'
    BY <1>0, <2>1 DEF SessionsInv, OutboxInv, HeldInv, Open
  <2>10. QED BY <2>8, <2>9
<1>11. CASE CycleDone \/ TimerEnds \/ ChannelClosed \/ CtrlCPressed
  <2>1. /\ consumer' \in {consumer, "waiting", "gone", "cycle"} /\ cancel' \in {cancel, TRUE}
        /\ UNCHANGED <<link, socket, outbox, channel, listener, delay, journal,
                       said, missed, everMissed, sent>>
    BY <1>11 DEF CycleDone, TimerEnds, ChannelClosed, CtrlCPressed, Wakes
  <2>2. EventsTypeOK'
    <3>1. consumer' \in {"cycle", "waiting", "gone"} /\ cancel' \in BOOLEAN
      BY <1>0, <2>1 DEF EventsTypeOK
    <3>2. QED BY <1>0, <2>1, <3>1 DEF EventsTypeOK
  <2>3. SessionsInv' /\ OutboxInv' /\ HeldInv'
    BY <1>0, <2>1 DEF SessionsInv, OutboxInv, HeldInv, Open
  <2>4. QED BY <2>2, <2>3
<1>12. CASE RunIsOver \/ UNCHANGED eventVars
  <2>1. UNCHANGED eventVars
    BY <1>12 DEF RunIsOver
  <2>2. EventsTypeOK'
    BY <1>0, <2>1 DEF EventsTypeOK, eventVars
  <2>3. SessionsInv' /\ OutboxInv' /\ HeldInv'
    BY <1>0, <2>1 DEF SessionsInv, OutboxInv, HeldInv, Open, eventVars
  <2>4. QED BY <2>2, <2>3
<1>13. QED
  BY <1>1, <1>2, <1>3, <1>4, <1>5, <1>6, <1>7, <1>8, <1>9, <1>10, <1>11, <1>12
  DEF SpotEventsNext, ListenerSteps

LEMMA StreamInvariance == Safe => []StreamInv
  BY StreamInvInit, StreamInvStep, PTL DEF Safe

(* The variables of the stream have their types: the channel never holds more than its slots, markers
   are numbered by the connections, and the backoff follows the schedule (events.rs:94-310). *)
THEOREM StreamTypeCorrect == SpotEventsSpec => []EventsTypeOK
<1>1. StreamInv => EventsTypeOK
  BY DEF StreamInv
<1>2. SpotEventsSpec => Safe
  BY DEF SpotEventsSpec, Safe
<1>3. QED BY <1>1, <1>2, StreamInvariance, PTL

-----------------------------------------------------------------------------
(***************************************************************************)
(* Nothing is dropped, doubled or reordered.                               *)
(***************************************************************************)

\* Matters, over the constants of a step.
LEMMA MattersLaws ==
  /\ Matters(<<>>) = <<>>
  /\ \A s, t \in Seq(Events) : Matters(Cat(s, t)) = Cat(Matters(s), Matters(t))
  /\ \A s \in Seq(Events), e \in Events : Matters(Append(s, e)) = Cat(Matters(s), Matters(<<e>>))
  /\ \A s \in Seq(Events) : s # <<>> => Matters(s) = Cat(Matters(<<Head(s)>>), Matters(Tail(s)))
  /\ \A s \in Seq(Events) : Range(s) \cap Acted = {} => Matters(s) = <<>>
<1>1. Matters(<<>>) = <<>>
  BY KeepEmpty DEF Matters
<1>2. ASSUME NEW s \in Seq(Events), NEW t \in Seq(Events)
      PROVE  Matters(Cat(s, t)) = Cat(Matters(s), Matters(t))
  BY KeepConcat DEF Matters, Cat
<1>3. ASSUME NEW s \in Seq(Events), NEW e \in Events
      PROVE  Matters(Append(s, e)) = Cat(Matters(s), Matters(<<e>>))
  <2>1. Append(s, e) = Cat(s, <<e>>) /\ <<e>> \in Seq(Events)
    BY DEF Cat
  <2>2. QED BY <1>2, <2>1
<1>4. ASSUME NEW s \in Seq(Events), s # <<>>
      PROVE  Matters(s) = Cat(Matters(<<Head(s)>>), Matters(Tail(s)))
  <2>1. <<Head(s)>> \in Seq(Events) /\ Tail(s) \in Seq(Events)
    BY <1>4
  <2>2. s = Cat(<<Head(s)>>, Tail(s))
    <3> DEFINE t == <<Head(s)>> \o Tail(s)
    <3>1. t \in Seq(Events) /\ Len(t) = Len(s) /\ \A i \in 1 .. Len(s) : t[i] = s[i]
      BY <1>4
    <3> HIDE DEF t
    <3>2. s = t
      BY <3>1, SeqEqual
    <3>3. QED BY <3>2 DEF t, Cat
  <2>3. Matters(Cat(<<Head(s)>>, Tail(s))) = Cat(Matters(<<Head(s)>>), Matters(Tail(s)))
    BY <1>2, <2>1
  <2>4. QED BY <2>2, <2>3
<1>5. ASSUME NEW s \in Seq(Events), Range(s) \cap Acted = {} PROVE Matters(s) = <<>>
  BY <1>5, KeepNone DEF Matters
<1>6. QED BY <1>1, <1>2, <1>3, <1>4, <1>5

\* The order of what is on its way: journal, channel, outbox, socket.
Line(j, c, o, s) == Cat(Cat(Cat(j, Matters(c)), Matters(o)), Matters(EventsOf(s)))

LEMMA EventMovesOn ==
  ASSUME NEW j \in Seq(Acted), NEW c \in Seq(Events), NEW o \in Seq(Events), NEW s \in Seq(Frames)
  PROVE  /\ \A e \in Events : e \notin Acted => Line(j, Append(c, e), o, s) = Line(j, c, o, s)
         /\ o # <<>> => Line(j, Append(c, Head(o)), Tail(o), s) = Line(j, c, o, s)
         /\ s # <<>> => Line(j, c, ParseSpotEvents(Head(s)), Tail(s)) = Line(j, c, <<>>, s)
         /\ c # <<>> => Line(Cat(j, Matters(<<Head(c)>>)), Tail(c), o, s) = Line(j, c, o, s)
         /\ \A frame \in Frames :
              Line(j, c, o, Append(s, frame)) = Cat(Line(j, c, o, s), Matters(ParseSpotEvents(frame)))
<1>1. EventsOf(s) \in Seq(Events)
  BY ParsedFrames
<1>2. PICK mc \in Seq(Acted), mo \in Seq(Acted), ms \in Seq(Acted) :
        mc = Matters(c) /\ mo = Matters(o) /\ ms = Matters(EventsOf(s))
  BY <1>1, MattersIsActed
<1>3. Line(j, c, o, s) = Cat(Cat(Cat(j, mc), mo), ms)
  BY <1>2 DEF Line
<1>4. ASSUME NEW e \in Events, e \notin Acted PROVE Line(j, Append(c, e), o, s) = Line(j, c, o, s)
  <2>1. <<e>> \in Seq(Events) /\ Range(<<e>>) \cap Acted = {}
    BY <1>4 DEF Range
  <2>2. Matters(<<e>>) = <<>>
    BY <2>1, MattersLaws
  <2>3. Matters(Append(c, e)) = Cat(mc, <<>>)
    BY <1>2, <2>2, MattersLaws
  <2>4. Cat(mc, <<>>) = mc
    BY Associativity
  <2>5. QED BY <1>2, <2>3, <2>4 DEF Line
<1>5. ASSUME o # <<>> PROVE Line(j, Append(c, Head(o)), Tail(o), s) = Line(j, c, o, s)
  <2>1. Head(o) \in Events /\ Tail(o) \in Seq(Events) /\ <<Head(o)>> \in Seq(Events)
    BY <1>5
  <2>2. PICK mh \in Seq(Acted), mt \in Seq(Acted) : mh = Matters(<<Head(o)>>) /\ mt = Matters(Tail(o))
    BY <2>1, MattersIsActed
  <2>3. Matters(Append(c, Head(o))) = Cat(mc, mh)
    BY <1>2, <2>1, <2>2, MattersLaws
  <2>4. mo = Cat(mh, mt)
    BY <1>2, <1>5, <2>2, MattersLaws
  <2>5. Line(j, Append(c, Head(o)), Tail(o), s) = Cat(Cat(Cat(j, Cat(mc, mh)), mt), ms)
    BY <1>2, <2>2, <2>3 DEF Line
  <2>6. Cat(Cat(Cat(j, Cat(mc, mh)), mt), ms) = Cat(Cat(Cat(j, mc), Cat(mh, mt)), ms)
    BY Regroup
  <2>7. QED BY <1>3, <2>4, <2>5, <2>6
<1>6. ASSUME s # <<>> PROVE Line(j, c, ParseSpotEvents(Head(s)), Tail(s)) = Line(j, c, <<>>, s)
  <2>1. /\ Head(s) \in Frames /\ Tail(s) \in Seq(Frames)
        /\ EventsOf(s) = Cat(ParseSpotEvents(Head(s)), EventsOf(Tail(s)))
    BY <1>6, FrameLeaves DEF Cat
  <2>2. ParseSpotEvents(Head(s)) \in Seq(Events) /\ EventsOf(Tail(s)) \in Seq(Events)
    BY <2>1, ParsedAreEvents, ParsedFrames
  <2>3. PICK mh \in Seq(Acted), mt \in Seq(Acted) :
          mh = Matters(ParseSpotEvents(Head(s))) /\ mt = Matters(EventsOf(Tail(s)))
    BY <2>2, MattersIsActed
  <2>4. Matters(Cat(ParseSpotEvents(Head(s)), EventsOf(Tail(s)))) = Cat(mh, mt)
    BY <2>2, <2>3, MattersLaws
  <2>5. ms = Cat(mh, mt)
    BY <1>2, <2>1, <2>4
  <2>6. Line(j, c, ParseSpotEvents(Head(s)), Tail(s)) = Cat(Cat(Cat(j, mc), mh), mt)
    BY <1>2, <2>3 DEF Line
  <2>7. Line(j, c, <<>>, s) = Cat(Cat(Cat(j, mc), <<>>), ms)
    BY <1>2, MattersLaws DEF Line
  <2>8. Cat(Cat(Cat(j, mc), mh), mt) = Cat(Cat(Cat(j, mc), <<>>), Cat(mh, mt))
    BY Regroup
  <2>9. QED BY <2>5, <2>6, <2>7, <2>8
<1>7. ASSUME c # <<>> PROVE Line(Cat(j, Matters(<<Head(c)>>)), Tail(c), o, s) = Line(j, c, o, s)
  <2>1. Head(c) \in Events /\ Tail(c) \in Seq(Events) /\ <<Head(c)>> \in Seq(Events)
    BY <1>7
  <2>2. PICK mh \in Seq(Acted), mt \in Seq(Acted) : mh = Matters(<<Head(c)>>) /\ mt = Matters(Tail(c))
    BY <2>1, MattersIsActed
  <2>3. mc = Cat(mh, mt)
    BY <1>2, <1>7, <2>2, MattersLaws
  <2>4. Line(Cat(j, Matters(<<Head(c)>>)), Tail(c), o, s) = Cat(Cat(Cat(Cat(j, mh), mt), mo), ms)
    BY <1>2, <2>2 DEF Line
  <2>5. Cat(Cat(Cat(Cat(j, mh), mt), mo), ms) = Cat(Cat(Cat(j, Cat(mh, mt)), mo), ms)
    BY Regroup
  <2>6. QED BY <1>3, <2>3, <2>4, <2>5
<1>8. ASSUME NEW frame \in Frames
      PROVE  Line(j, c, o, Append(s, frame)) = Cat(Line(j, c, o, s), Matters(ParseSpotEvents(frame)))
  <2>1. ParseSpotEvents(frame) \in Seq(Events)
    BY ParsedAreEvents
  <2>2. PICK mf \in Seq(Acted) : mf = Matters(ParseSpotEvents(frame))
    BY <2>1, MattersIsActed
  <2>3. EventsOf(Append(s, frame)) = Cat(EventsOf(s), ParseSpotEvents(frame))
    BY FrameArrives DEF Cat
  <2>4. Matters(Cat(EventsOf(s), ParseSpotEvents(frame))) = Cat(ms, mf)
    BY <1>1, <1>2, <2>1, <2>2, MattersLaws
  <2>5. Line(j, c, o, Append(s, frame)) = Cat(Cat(Cat(j, mc), mo), Cat(ms, mf))
    BY <1>2, <2>3, <2>4 DEF Line
  <2>6. Cat(Cat(Cat(j, mc), mo), Cat(ms, mf)) = Cat(Cat(Cat(Cat(j, mc), mo), ms), mf)
    BY Regroup
  <2>7. QED BY <1>3, <2>2, <2>5, <2>6
<1>9. QED BY <1>4, <1>5, <1>6, <1>7, <1>8

(* Without anything that matters on the way, what is dropped with a connection is not missed. *)
LEMMA NothingIsMissed ==
  ASSUME NEW j \in Seq(Acted), NEW c \in Seq(Events), NEW o \in Seq(Events), NEW s \in Seq(Frames),
         Range(Cat(EventsOf(s), o)) \cap Acted = {}
  PROVE  Line(j, c, <<>>, <<>>) = Line(j, c, o, s)
<1>1. EventsOf(s) \in Seq(Events)
  BY ParsedFrames
<1>2. PICK mc \in Seq(Acted) : mc = Matters(c)
  BY MattersIsActed
<1>3. Range(Cat(EventsOf(s), o)) = Range(EventsOf(s)) \cup Range(o)
  BY <1>1, RangeConcatenation DEF Cat
<1>4. Range(EventsOf(s)) \cap Acted = {} /\ Range(o) \cap Acted = {}
  BY <1>3
<1>5. Matters(o) = <<>> /\ Matters(EventsOf(s)) = <<>>
  BY <1>1, <1>4, MattersLaws
<1>6. Line(j, c, o, s) = Cat(Cat(Cat(j, mc), <<>>), <<>>)
  BY <1>2, <1>5 DEF Line
<1>7. Line(j, c, <<>>, <<>>) = Cat(Cat(Cat(j, mc), <<>>), <<>>)
  BY <1>2, MattersLaws, NoFrames DEF Line
<1>8. QED BY <1>6, <1>7

OnTheWay == ~everMissed /\ ~Closed => said = Line(journal, channel, outbox, socket)

LEMMA OrderInit == SpotEventsInit => OnTheWay
<1> SUFFICES ASSUME SpotEventsInit PROVE OnTheWay
  OBVIOUS
<1>1. Line(<<>>, <<>>, <<>>, <<>>) = <<>>
  <2>1. Line(<<>>, <<>>, <<>>, <<>>) = Cat(Cat(Cat(<<>>, <<>>), <<>>), <<>>)
    BY MattersLaws, NoFrames DEF Line
  <2>2. <<>> \in Seq(Acted)
    OBVIOUS
  <2>3. Cat(<<>>, <<>>) = <<>>
    BY <2>2, Associativity
  <2>4. QED BY <2>1, <2>3
<1>2. said = <<>> /\ journal = <<>> /\ channel = <<>> /\ outbox = <<>> /\ socket = <<>>
  BY DEF SpotEventsInit
<1>3. QED BY <1>1, <1>2 DEF OnTheWay

LEMMA OrderStep == StreamInv /\ OnTheWay /\ [SpotEventsNext]_eventVars => OnTheWay'
<1> SUFFICES ASSUME StreamInv, OnTheWay, [SpotEventsNext]_eventVars PROVE OnTheWay'
  OBVIOUS
<1>0. /\ journal \in Seq(Acted) /\ channel \in Seq(Events) /\ outbox \in Seq(Events) /\ socket \in Seq(Frames)
      /\ said \in Seq(Acted) /\ OutboxInv /\ HeldInv /\ EventsTypeOK /\ SessionsInv
  BY DEF StreamInv, EventsTypeOK
<1>1. ASSUME NEW subscribed \in BOOLEAN, SessionEnds(subscribed) PROVE OnTheWay'
  <2>1. /\ socket' = <<>> /\ outbox' = <<>> /\ everMissed' = (everMissed \/ Loses)
        /\ UNCHANGED <<channel, consumer, journal, cancel, said>>
    BY <1>1 DEF SessionEnds
  <2>2. ~Loses => Line(journal, channel, <<>>, <<>>) = Line(journal, channel, outbox, socket)
    <3>1. Unread = EventsOf(socket)
      BY DEF Unread, EventsOf
    <3>2. ~Loses => Range(Cat(EventsOf(socket), outbox)) \cap Acted = {}
      BY <3>1 DEF Loses, Cat
    <3>3. Range(Cat(EventsOf(socket), outbox)) \cap Acted = {} =>
            Line(journal, channel, <<>>, <<>>) = Line(journal, channel, outbox, socket)
      BY <1>0, NothingIsMissed
    <3>4. QED BY <3>2, <3>3
  <2>3. QED BY <2>1, <2>2 DEF OnTheWay, Closed
<1>2. CASE Connect \/ BackoffEnds
  BY <1>2 DEF Connect, BackoffEnds, OnTheWay, Closed
<1>3. CASE SendMarker
  <2>1. /\ link = "marking" /\ channel' = Append(channel, Marker(listener.reconnects + 1))
        /\ UNCHANGED <<socket, outbox, consumer, journal, cancel, said, everMissed>>
    BY <1>3 DEF SendMarker
  <2>2. listener.reconnects + 1 \in 1 .. MaxSessions
    <3>1. MaxSessions \in Nat
      BY SpotEventsAssumption DEF SpotEventsAssumption
    <3>2. listener.reconnects \in 0 .. MaxSessions /\ sent.sessions \in 0 .. MaxSessions
      BY <1>0 DEF EventsTypeOK
    <3>3. QED BY <1>0, <2>1, <3>1, <3>2 DEF SessionsInv, Open
  <2>3. Line(journal, channel', outbox, socket) = Line(journal, channel, outbox, socket)
    <3>1. PICK marker \in Events : marker = Marker(listener.reconnects + 1) /\ marker \notin Acted
      BY <2>2, EventIsTyped
    <3>2. \A e \in Events : e \notin Acted =>
            Line(journal, Append(channel, e), outbox, socket) = Line(journal, channel, outbox, socket)
      BY <1>0, EventMovesOn
    <3>3. Line(journal, Append(channel, marker), outbox, socket) = Line(journal, channel, outbox, socket)
      BY <3>1, <3>2
    <3>4. QED BY <2>1, <3>1, <3>3
  <2>4. QED BY <2>1, <2>3 DEF OnTheWay, Closed
<1>4. CASE SendEvent
  <2>1. /\ link = "sending" /\ channel' = Append(channel, Head(outbox)) /\ outbox' = Tail(outbox)
        /\ UNCHANGED <<socket, consumer, journal, cancel, said, everMissed>>
    BY <1>4 DEF SendEvent
  <2>2. Line(journal, channel', outbox', socket) = Line(journal, channel, outbox, socket)
    BY <1>0, <2>1, EventMovesOn DEF OutboxInv
  <2>3. QED BY <2>1, <2>2 DEF OnTheWay, Closed
<1>5. CASE ReadFrame
  <2>1. /\ link = "listening" /\ socket # <<>>
        /\ outbox' = ParseSpotEvents(Head(socket)) /\ socket' = Tail(socket)
        /\ UNCHANGED <<channel, consumer, journal, cancel, said, everMissed>>
    BY <1>5 DEF ReadFrame
  <2>2. outbox = <<>>
    BY <1>0, <2>1 DEF OutboxInv
  <2>3. Line(journal, channel, outbox', socket') = Line(journal, channel, outbox, socket)
    BY <1>0, <2>1, <2>2, EventMovesOn
  <2>4. QED BY <2>1, <2>3 DEF OnTheWay, Closed
<1>6. ASSUME NEW frame \in Frames, VenueSends(frame) PROVE OnTheWay'
  <2>1. /\ socket' = IF Open THEN Append(socket, frame) ELSE socket
        /\ said' = IF Open THEN Cat(said, Matters(ParseSpotEvents(frame))) ELSE said
        /\ everMissed => everMissed'
        /\ UNCHANGED <<link, outbox, channel, listener, delay, consumer, journal, cancel>>
    BY <1>6 DEF VenueSends, Cat
  <2>2. everMissed \in BOOLEAN /\ everMissed' \in BOOLEAN
    BY <1>0, <1>6 DEF EventsTypeOK, VenueSends
  <2>3. CASE Open
    <3>1. Line(journal, channel, outbox, Append(socket, frame))
            = Cat(Line(journal, channel, outbox, socket), Matters(ParseSpotEvents(frame)))
      BY <1>0, EventMovesOn
    <3>2. QED BY <2>1, <2>2, <2>3, <3>1 DEF OnTheWay, Closed
  <2>4. CASE ~Open
    BY <2>1, <2>2, <2>4 DEF OnTheWay, Closed
  <2>5. QED BY <2>3, <2>4
<1>7. CASE TakeEvent
  <2>1. /\ consumer = "waiting" /\ channel # <<>> /\ channel' = Tail(channel)
        /\ journal' = Cat(journal, Matters(<<Head(channel)>>))
        /\ UNCHANGED <<socket, outbox, cancel, said, everMissed>>
    BY <1>7 DEF TakeEvent, Cat
  <2>2. Line(journal', channel', outbox, socket) = Line(journal, channel, outbox, socket)
    BY <1>0, <2>1, EventMovesOn
  <2>3. ~Closed' => ~Closed
    BY <2>1 DEF Closed
  <2>4. QED BY <2>1, <2>2, <2>3 DEF OnTheWay
<1>8. CASE CycleDone \/ TimerEnds \/ ChannelClosed \/ CtrlCPressed
  <2>1. UNCHANGED <<socket, outbox, channel, journal, said, everMissed>> /\ (~Closed' => ~Closed)
    BY <1>8 DEF CycleDone, TimerEnds, ChannelClosed, CtrlCPressed, Wakes, Closed
  <2>2. QED BY <2>1 DEF OnTheWay
<1>9. CASE RunIsOver \/ UNCHANGED eventVars
  BY <1>9 DEF RunIsOver, eventVars, OnTheWay, Closed
<1>10. CASE ConnectFails \/ SendGivesUp \/ ListenerSeesShutdown \/ Disconnect
  BY <1>1, <1>10 DEF ConnectFails, SendGivesUp, ListenerSeesShutdown, Disconnect
<1>11. QED
  BY <1>2, <1>3, <1>4, <1>5, <1>6, <1>7, <1>8, <1>9, <1>10 DEF SpotEventsNext, ListenerSteps

LEMMA OnTheWayIsOrder == OnTheWay => JournalFollowsVenue
  BY DEF OnTheWay, JournalFollowsVenue, Line, Unread, EventsOf, Cat

LEMMA OrderInvariance == Safe => []JournalFollowsVenue
<1>1. StreamInv /\ OnTheWay /\ [SpotEventsNext]_eventVars => OnTheWay'
  BY OrderStep
<1>2. QED BY <1>1, OrderInit, OnTheWayIsOrder, StreamInvariance, PTL DEF Safe

(* As long as nothing was lost with a connection, what the venue said is, in its order, what was
   journalled, what the channel holds, what is being handed over and what the socket holds, for
   any frames, any number of them and every size of the channel (events.rs:246-310). *)
THEOREM JournalIsInOrder == SpotEventsSpec => []JournalFollowsVenue
<1>1. SpotEventsSpec => Safe
  BY DEF SpotEventsSpec, Safe
<1>2. QED BY <1>1, OrderInvariance, PTL
=============================================================================
