--------------------------- MODULE RunEventsProofs ---------------------------
(***************************************************************************)
(* Proofs about RunEvents, for any clients, limits and bounds.             *)
(*                                                                         *)
(* 1. The bus: how the history is numbered, and what of it is replayed.    *)
(* 2. What is on a wire and what a stream has heard, and what an event     *)
(*    that is published and one that is received make of it.               *)
(* 3. The actions, and the theorems.                                       *)
(***************************************************************************)
EXTENDS RunEvents, Integers, TLAPS

-----------------------------------------------------------------------------
\* The bus.

\* The history holds the last of the channel's numbers, and its events are the run's last:
\* a channel that a new process has opened numbers from 1 again, the run does not.
Numbered(ch, pub) ==
    /\ pub \in Nat /\ ch.seq <= pub
    /\ Len(ch.history) <= HistoryLimit /\ Len(ch.history) <= ch.seq
    /\ \A i \in 1 .. Len(ch.history) :
          /\ ch.history[i].seq = ch.seq - Len(ch.history) + i
          /\ ch.history[i].nth = pub - Len(ch.history) + i

NextEvent(ch, pub, terminal) == [seq |-> ch.seq + 1, nth |-> pub + 1, terminal |-> terminal]

LEMMA ChannelTypes ==
    ASSUME NEW ch \in Channel
    PROVE  /\ ch.seq \in Nat /\ ch.history \in Seq(Event) /\ ch.finished \in BOOLEAN
           /\ Len(ch.history) \in Nat /\ DOMAIN ch.history = 1 .. Len(ch.history)
           /\ \A i \in 1 .. Len(ch.history) : ch.history[i] \in Event
  BY DEF Channel

LEMMA NewChannelNumbered ==
    ASSUME NEW pub \in Nat
    PROVE  NewChannel \in Channel /\ Numbered(NewChannel, pub)
  BY HistoryLimitAssumption DEF NewChannel, Channel, Numbered

LEMMA Shift == \A a, b, i \in Nat : a - b + (i + 1) = (a + 1) - b + i
  OBVIOUS

LEMMA NextEventTypes ==
    ASSUME NEW ch \in Channel, NEW pub \in Nat, NEW terminal \in BOOLEAN
    PROVE  LET e == NextEvent(ch, pub, terminal)
           IN e \in Event /\ e.seq = ch.seq + 1 /\ e.nth = pub + 1 /\ e.terminal = terminal
  BY ChannelTypes DEF NextEvent, Event

\* A published event leaves nothing out, and never brings back what the history dropped.
LEMMA PushedNumbered ==
    ASSUME NEW ch \in Channel, NEW pub \in Nat, Numbered(ch, pub), NEW terminal \in BOOLEAN
    PROVE  LET new == Pushed(ch, NextEvent(ch, pub, terminal))
           IN /\ new \in Channel /\ Numbered(new, pub + 1)
              /\ new.seq = ch.seq + 1 /\ new.finished = (ch.finished \/ terminal)
              /\ ch.seq - Len(ch.history) <= new.seq - Len(new.history)
PROOF
  <1> DEFINE e   == NextEvent(ch, pub, terminal)
             h   == ch.history
             all == Append(h, e)
             new == Pushed(ch, e)
  <1>1. e \in Event /\ e.seq = ch.seq + 1 /\ e.nth = pub + 1 /\ e.terminal = terminal
    BY NextEventTypes
  <1> HIDE DEF e
  <1>2. /\ ch.seq \in Nat /\ h \in Seq(Event) /\ Len(h) \in Nat /\ ch.finished \in BOOLEAN
    BY ChannelTypes
  <1>3. /\ all \in Seq(Event) /\ Len(all) = Len(h) + 1 /\ all # <<>>
        /\ \A i \in 1 .. Len(h) : all[i] = h[i]
        /\ all[Len(h) + 1] = e
    BY <1>1, <1>2
  <1>4. \A i \in 1 .. Len(h) + 1 :
           /\ all[i].seq = ch.seq - Len(h) + i
           /\ all[i].nth = pub - Len(h) + i
    <2> TAKE i \in 1 .. Len(h) + 1
    <2>1. CASE i = Len(h) + 1
      BY <1>1, <1>2, <1>3, <2>1
    <2>2. CASE i # Len(h) + 1
      <3>1. i \in 1 .. Len(h)
        BY <1>2, <2>2
      <3> QED
        BY <1>3, <3>1 DEF Numbered
    <2> QED
      BY <2>1, <2>2
  <1>5. new.seq = ch.seq + 1 /\ new.history = Bounded(all)
        /\ new.finished = (ch.finished \/ terminal)
    BY <1>1 DEF Pushed
  <1>6. Len(h) <= HistoryLimit /\ Len(h) <= ch.seq /\ ch.seq <= pub
    BY DEF Numbered
  <1> HIDE DEF all
  <1>7. CASE Len(all) <= HistoryLimit
    <2>1. new.history = all
      BY <1>2, <1>3, <1>5, <1>7, HistoryLimitAssumption DEF Bounded
    <2>2. new \in Channel
      BY <1>1, <1>2, <1>3, <2>1 DEF Pushed, Channel, Event, Bounded, all
    <2>3. Numbered(new, pub + 1)
      <3>1. pub + 1 \in Nat /\ ch.seq + 1 <= pub + 1 /\ Len(h) + 1 <= ch.seq + 1
        BY <1>2, <1>6
      <3>2. \A i \in 1 .. Len(h) + 1 :
               /\ all[i].seq = (ch.seq + 1) - (Len(h) + 1) + i
               /\ all[i].nth = (pub + 1) - (Len(h) + 1) + i
        BY <1>2, <1>4
      <3> HIDE DEF new, h
      <3> QED
        BY <1>3, <1>5, <1>7, <2>1, <3>1, <3>2 DEF Numbered
    <2> QED
      BY <1>2, <1>3, <1>5, <2>1, <2>2, <2>3 DEF e
  <1>8. CASE Len(all) > HistoryLimit
    <2>1. new.history = Tail(all)
      BY <1>5, <1>8 DEF Bounded
    <2>2. /\ Tail(all) \in Seq(Event) /\ Len(Tail(all)) = Len(h)
          /\ \A i \in 1 .. Len(h) : Tail(all)[i] = all[i + 1]
      BY <1>2, <1>3
    <2>3. new \in Channel
      <3>1. new = [seq |-> e.seq, history |-> Tail(all), finished |-> ch.finished \/ e.terminal]
        BY <1>8 DEF Pushed, Bounded, all
      <3>2. e.seq \in Nat /\ (ch.finished \/ e.terminal) \in BOOLEAN
        BY <1>1, <1>2
      <3> HIDE DEF new
      <3> QED
        BY <2>2, <3>1, <3>2 DEF Channel
    <2>4. Numbered(new, pub + 1)
      <3>1. \A i \in 1 .. Len(h) :
               /\ Tail(all)[i].seq = (ch.seq + 1) - Len(h) + i
               /\ Tail(all)[i].nth = (pub + 1) - Len(h) + i
        <4> TAKE i \in 1 .. Len(h)
        <4>1. i + 1 \in 1 .. Len(h) + 1 /\ i \in Nat
          BY <1>2
        <4>2. all[i + 1].seq = ch.seq - Len(h) + (i + 1) /\ all[i + 1].nth = pub - Len(h) + (i + 1)
          BY <1>4, <4>1
        <4>3. Tail(all)[i] = all[i + 1]
          BY <2>2
        <4>4. /\ ch.seq - Len(h) + (i + 1) = (ch.seq + 1) - Len(h) + i
              /\ pub - Len(h) + (i + 1) = (pub + 1) - Len(h) + i
          BY <1>2, <4>1, Shift
        <4> QED
          BY <4>2, <4>3, <4>4, Zenon
      <3>2. pub + 1 \in Nat /\ ch.seq + 1 <= pub + 1 /\ Len(h) <= ch.seq + 1
        BY <1>2, <1>6
      <3>3. /\ Len(new.history) = Len(h) /\ new.seq = ch.seq + 1
            /\ \A i \in 1 .. Len(h) : new.history[i] = Tail(all)[i]
        BY <1>5, <2>1, <2>2
      <3> HIDE DEF new, h
      <3>4. \A i \in 1 .. Len(new.history) :
               /\ new.history[i].seq = new.seq - Len(new.history) + i
               /\ new.history[i].nth = (pub + 1) - Len(new.history) + i
        BY <1>2, <3>1, <3>3
      <3>5. /\ new.seq <= pub + 1 /\ Len(new.history) <= HistoryLimit
            /\ Len(new.history) <= new.seq
        BY <1>2, <1>6, <3>2, <3>3
      <3> QED
        BY <3>2, <3>4, <3>5 DEF Numbered
    <2> QED
      BY <1>2, <1>5, <2>1, <2>2, <2>3, <2>4 DEF e
  <1> QED
    BY <1>2, <1>3, <1>7, <1>8, HistoryLimitAssumption

\* What a subscriber is sent is the end of the history: all of it, or what is later than
\* the number it asked from.
LEMMA LaterIsTail ==
    ASSUME NEW ch \in Channel, NEW pub \in Nat, Numbered(ch, pub), NEW since \in Nat
    PROVE  LET late == Later(ch.history, since)
           IN /\ late \in Seq(Event) /\ Len(late) <= Len(ch.history)
              /\ \A i \in 1 .. Len(late) :
                    /\ late[i].seq = ch.seq - Len(late) + i
                    /\ late[i].nth = pub - Len(late) + i
              /\ Len(late) = Len(ch.history) \/ ch.seq - Len(late) <= since
PROOF
  <1> DEFINE h        == ch.history
             IsIt(i)  == /\ \A j \in 1 .. i - 1 : h[j].seq <= since
                         /\ i <= Len(h) => h[i].seq > since
             first    == CHOOSE i \in 1 .. Len(h) + 1 : IsIt(i)
             late     == SubSeq(h, first, Len(h))
             gone     == ch.seq - Len(h)
             it       == IF since <= gone THEN 1
                         ELSE IF since >= ch.seq THEN Len(h) + 1 ELSE since - gone + 1
  <1>1. /\ ch.seq \in Nat /\ h \in Seq(Event) /\ Len(h) \in Nat /\ Len(h) <= ch.seq
        /\ \A i \in 1 .. Len(h) : h[i] \in Event
        /\ \A i \in 1 .. Len(h) : h[i].seq = gone + i /\ h[i].nth = pub - Len(h) + i
    <2>1. /\ ch.seq \in Nat /\ h \in Seq(Event) /\ Len(h) \in Nat
          /\ \A i \in 1 .. Len(h) : h[i] \in Event
      BY ChannelTypes
    <2> QED
      BY <2>1, Zenon DEF Numbered
  <1>2. gone \in Nat /\ ch.seq = gone + Len(h)
    BY <1>1
  <1> HIDE DEF h, gone
  <1>3. it \in 1 .. Len(h) + 1 /\ IsIt(it)
    <2>1. CASE since <= gone
      <3>1. 1 <= Len(h) => h[1].seq = gone + 1
        BY <1>1
      <3>2. 1 <= Len(h) => h[1].seq > since
        BY <1>2, <2>1, <3>1
      <3>3. it = 1
        BY <2>1
      <3> QED
        BY <1>1, <3>2, <3>3
    <2>2. CASE since > gone /\ since >= ch.seq
      <3>1. it = Len(h) + 1
        BY <1>2, <2>2
      <3>2. \A j \in 1 .. Len(h) : h[j].seq <= since
        <4> TAKE j \in 1 .. Len(h)
        <4>1. h[j].seq = gone + j
          BY <1>1
        <4> QED
          BY <1>1, <1>2, <2>2, <4>1
      <3> HIDE DEF it
      <3> QED
        BY <1>1, <3>1, <3>2
    <2>3. CASE since > gone /\ since < ch.seq
      <3>1. it = since - gone + 1 /\ it \in 1 .. Len(h)
        BY <1>1, <1>2, <2>3
      <3> HIDE DEF it
      <3>2. ASSUME NEW j \in 1 .. it - 1 PROVE h[j].seq <= since
        <4>1. j \in 1 .. Len(h) /\ gone + j <= since
          BY <1>1, <1>2, <3>1
        <4> QED
          BY <1>1, <4>1
      <3>3. gone + it > since
        BY <1>1, <1>2, <3>1
      <3>4. h[it].seq > since
        BY <1>1, <3>1, <3>3
      <3>5. it \in 1 .. Len(h) + 1
        BY <1>1, <3>1
      <3> QED
        BY <3>2, <3>4, <3>5
    <2> QED
      BY <1>1, <1>2, <2>1, <2>2, <2>3
  <1>4. first \in 1 .. Len(h) + 1 /\ IsIt(first)
    <2> HIDE DEF IsIt, it
    <2> QED
      BY <1>3
  <1>5. Later(h, since) = late
    BY DEF Later
  <1> HIDE DEF first
  <1>6. /\ late \in Seq(Event) /\ Len(late) = Len(h) - first + 1
        /\ \A i \in 1 .. Len(late) : late[i] = h[first + i - 1]
    BY <1>1, <1>4
  <1> HIDE DEF late
  <1>7. ASSUME NEW i \in 1 .. Len(late)
        PROVE  /\ late[i].seq = ch.seq - Len(late) + i
               /\ late[i].nth = pub - Len(late) + i
    <2>1. first + i - 1 \in 1 .. Len(h)
      BY <1>1, <1>4, <1>6
    <2>2. h[first + i - 1].seq = gone + (first + i - 1)
          /\ h[first + i - 1].nth = pub - Len(h) + (first + i - 1)
      BY <1>1, <2>1
    <2>3. /\ gone + (first + i - 1) = ch.seq - Len(late) + i
          /\ pub - Len(h) + (first + i - 1) = pub - Len(late) + i
      BY SMTT(30), <1>1, <1>2, <1>4, <1>6
    <2>4. late[i] = h[first + i - 1]
      BY <1>6
    <2> QED
      BY <2>2, <2>3, <2>4
  <1>8. Len(late) = Len(h) \/ ch.seq - Len(late) <= since
    <2>1. CASE first = 1
      BY <1>1, <1>6, <2>1
    <2>2. CASE first # 1
      <3>1. first - 1 \in 1 .. first - 1 /\ first - 1 \in 1 .. Len(h)
        BY <1>1, <1>4, <2>2
      <3>2. h[first - 1].seq <= since /\ h[first - 1].seq = gone + (first - 1)
        BY <1>1, <1>4, <3>1
      <3> QED
        BY <1>1, <1>2, <1>4, <1>6, <3>2
    <2> QED
      BY <2>1, <2>2
  <1>9. Len(late) <= Len(h)
    BY <1>1, <1>4, <1>6
  <1> QED
    BY <1>5, <1>6, <1>7, <1>8, <1>9 DEF h

-----------------------------------------------------------------------------
\* The wire and the stream.

\* The frames on a wire end at the channel's number `top`, the last there is while the
\* connection is live, and leave out nothing after what the stream has heard, but what the
\* history has dropped.
IsWire(k, last, ch, pub) ==
    \E top \in 0 .. ch.seq :
        /\ k.live => top = ch.seq
        /\ Len(k.frames) <= top
        /\ top - Len(k.frames) <= last \/ top - Len(k.frames) <= ch.seq - Len(ch.history)
        /\ \A i \in 1 .. Len(k.frames) :
              /\ k.frames[i].seq = top - Len(k.frames) + i
              /\ k.frames[i].nth = pub - ch.seq + (top - Len(k.frames) + i)

\* A stream has heard in the order of the run what it has heard, and nothing beyond its last
\* number; of the process that it began in, all of it but what the history has dropped.
Heard(s, ch, pub) ==
    /\ \A i, j \in DOMAIN s.delivered : i < j => s.delivered[i] < s.delivered[j]
    /\ \A i \in DOMAIN s.delivered :
          s.delivered[i] <= pub /\ s.delivered[i] <= pub - ch.seq + s.lastSeq

HeardAll(s, ch) ==
    \A k \in 1 .. s.lastSeq :
        k <= ch.seq - Len(ch.history) \/ \E j \in DOMAIN s.delivered : s.delivered[j] = k

LEMMA ConnectionTypes ==
    ASSUME NEW k \in Connection
    PROVE  /\ k.frames \in Seq(Event) /\ k.live \in BOOLEAN /\ Len(k.frames) \in Nat
           /\ \A i \in 1 .. Len(k.frames) : k.frames[i] \in Event
  BY DEF Connection

LEMMA StreamTypes ==
    ASSUME NEW s \in Stream
    PROVE  /\ s.attempt \in Nat /\ s.lastSeq \in Nat /\ s.delivered \in Seq(Nat)
           /\ Len(s.delivered) \in Nat /\ DOMAIN s.delivered = 1 .. Len(s.delivered)
           /\ \A i \in DOMAIN s.delivered : s.delivered[i] \in Nat
  BY DEF Stream

\* An event that is published reaches the live wires; the others are left as they are.
LEMMA PublishedWire ==
    ASSUME NEW ch \in Channel, NEW pub \in Nat, Numbered(ch, pub), NEW terminal \in BOOLEAN,
           NEW k \in Connection, NEW last \in Nat, IsWire(k, last, ch, pub)
    PROVE  LET e   == NextEvent(ch, pub, terminal)
               new == IF k.live THEN Reached(k, e) ELSE k
           IN /\ new \in Connection /\ IsWire(new, last, Pushed(ch, e), pub + 1)
              /\ new.live => ~terminal
PROOF
  <1> DEFINE e   == NextEvent(ch, pub, terminal)
             f   == k.frames
             to  == Pushed(ch, e)
             gone == ch.seq - Len(ch.history)
             left == to.seq - Len(to.history)
  <1>1. /\ e \in Event /\ e.seq = ch.seq + 1 /\ e.nth = pub + 1 /\ e.terminal = terminal
    BY NextEventTypes
  <1>2. /\ to \in Channel /\ to.seq = ch.seq + 1 /\ gone <= left
        /\ ch.seq \in Nat /\ gone \in Int /\ left \in Int
    <2>1. /\ to \in Channel /\ to.seq = ch.seq + 1 /\ gone <= left
      BY PushedNumbered
    <2> QED
      BY <2>1, ChannelTypes
  <1>3. f \in Seq(Event) /\ Len(f) \in Nat /\ k.live \in BOOLEAN
    BY ConnectionTypes
  <1>4. PICK top \in 0 .. ch.seq :
           /\ k.live => top = ch.seq
           /\ Len(f) <= top
           /\ top - Len(f) <= last \/ top - Len(f) <= gone
           /\ \A i \in 1 .. Len(f) :
                 /\ f[i].seq = top - Len(f) + i
                 /\ f[i].nth = pub - ch.seq + (top - Len(f) + i)
    BY DEF IsWire
  <1> HIDE DEF e, to, gone, left
  <1>5. CASE ~k.live
    <2>1. top \in 0 .. to.seq /\ (top - Len(f) <= last \/ top - Len(f) <= left)
      BY <1>2, <1>3, <1>4
    <2>2. \A i \in 1 .. Len(f) :
             /\ f[i].seq = top - Len(f) + i
             /\ f[i].nth = (pub + 1) - to.seq + (top - Len(f) + i)
      <3> TAKE i \in 1 .. Len(f)
      <3>1. f[i].seq = top - Len(f) + i /\ f[i].nth = pub - ch.seq + (top - Len(f) + i)
        BY <1>4
      <3>2. pub - ch.seq = (pub + 1) - to.seq
        BY <1>2
      <3> QED
        BY <3>1, <3>2
    <2>3. IsWire(k, last, to, pub + 1)
      BY <1>4, <1>5, <2>1, <2>2 DEF IsWire, left
    <2> QED
      BY <1>5, <2>3 DEF to, e
  <1>6. CASE k.live
    <2> DEFINE all == Append(f, e)
               new == Reached(k, e)
    <2>1. /\ all \in Seq(Event) /\ Len(all) = Len(f) + 1
          /\ \A i \in 1 .. Len(f) : all[i] = f[i]
          /\ all[Len(f) + 1] = e
      BY <1>1, <1>3
    <2>2. new.frames = all /\ new.live = ~terminal /\ new \in Connection
      BY <1>1, <2>1 DEF Reached, Connection
    <2>3. /\ to.seq \in 0 .. to.seq /\ Len(all) <= to.seq
          /\ to.seq - Len(all) <= last \/ to.seq - Len(all) <= left
      <3> HIDE DEF all, f
      <3>1. Len(f) \in Nat /\ Len(f) <= ch.seq /\ (ch.seq - Len(f) <= last \/ ch.seq - Len(f) <= gone)
        BY <1>3, <1>4, <1>6
      <3>2. Len(all) = Len(f) + 1 /\ to.seq = ch.seq + 1 /\ ch.seq \in Nat
        BY <1>2, <2>1
      <3>3. to.seq - Len(all) = ch.seq - Len(f) /\ Len(all) <= to.seq /\ to.seq \in Nat
        BY <3>1, <3>2
      <3> QED
        BY <1>2, <3>1, <3>3
    <2>4. ASSUME NEW i \in 1 .. Len(all)
          PROVE  /\ all[i].seq = to.seq - Len(all) + i
                 /\ all[i].nth = (pub + 1) - to.seq + (to.seq - Len(all) + i)
      <3>1. CASE i = Len(f) + 1
        BY <1>1, <1>2, <1>3, <2>1, <3>1
      <3>2. CASE i # Len(f) + 1
        <4>1. i \in 1 .. Len(f)
          BY <1>3, <2>1, <3>2
        <4>2. f[i].seq = ch.seq - Len(f) + i /\ f[i].nth = pub - ch.seq + (ch.seq - Len(f) + i)
          BY <1>4, <1>6, <4>1
        <4>3. /\ ch.seq - Len(f) + i = to.seq - Len(all) + i
              /\ pub - ch.seq + (ch.seq - Len(f) + i)
                 = (pub + 1) - to.seq + (to.seq - Len(all) + i)
          BY SMTT(30), <1>2, <1>3, <2>1, <4>1
        <4> QED
          BY <2>1, <4>1, <4>2, <4>3
      <3> QED
        BY <3>1, <3>2
    <2> HIDE DEF all, new
    <2>5. IsWire(new, last, to, pub + 1)
      BY <2>2, <2>3, <2>4 DEF IsWire, left
    <2> QED
      BY <1>6, <2>2, <2>5 DEF to, e, new
  <1> QED
    BY <1>3, <1>5, <1>6

\* A new connection is sent the end of the history after the last id, which is no later than
\* what the stream has heard.
LEMMA SubscribedWire ==
    ASSUME NEW ch \in Channel, NEW pub \in Nat, Numbered(ch, pub),
           NEW id \in Nat, NEW last \in Nat, id <= last
    PROVE  /\ Subscription(ch, id) \in Connection
           /\ IsWire(Subscription(ch, id), last, ch, pub)
           /\ Subscription(ch, id).live = ~ch.finished
PROOF
  <1> DEFINE since == Since(id, ch)
             late  == Later(ch.history, since)
             k     == Subscription(ch, id)
  <1>1. ch.seq \in Nat /\ Len(ch.history) \in Nat /\ ch.finished \in BOOLEAN
    BY ChannelTypes
  <1>2. since \in Nat /\ since <= last
    BY <1>1 DEF Since
  <1> HIDE DEF since
  <1>3. /\ late \in Seq(Event) /\ Len(late) <= Len(ch.history)
        /\ \A i \in 1 .. Len(late) :
              /\ late[i].seq = ch.seq - Len(late) + i
              /\ late[i].nth = pub - Len(late) + i
        /\ Len(late) = Len(ch.history) \/ ch.seq - Len(late) <= since
    BY <1>2, LaterIsTail
  <1>4. k.frames = late /\ k.live = ~ch.finished
    BY DEF Subscription, since
  <1>5. k \in Connection
    BY <1>1, <1>3 DEF Subscription, Connection, since
  <1> HIDE DEF late
  <1>6. Len(late) \in Nat
    BY <1>3
  <1>7. /\ ch.seq \in 0 .. ch.seq /\ Len(late) <= ch.seq
        /\ ch.seq - Len(late) <= last \/ ch.seq - Len(late) <= ch.seq - Len(ch.history)
    BY <1>1, <1>2, <1>3, <1>6 DEF Numbered
  <1>8. \A i \in 1 .. Len(late) :
           /\ late[i].seq = ch.seq - Len(late) + i
           /\ late[i].nth = pub - ch.seq + (ch.seq - Len(late) + i)
    BY <1>1, <1>3, <1>6
  <1> HIDE DEF k
  <1>9. IsWire(k, last, ch, pub)
    BY <1>4, <1>7, <1>8 DEF IsWire
  <1> QED
    BY <1>4, <1>5, <1>9 DEF k

\* What was heard was heard, whatever is published.
LEMMA PublishedHeard ==
    ASSUME NEW ch \in Channel, NEW pub \in Nat, Numbered(ch, pub), NEW terminal \in BOOLEAN,
           NEW s \in Stream
    PROVE  LET to == Pushed(ch, NextEvent(ch, pub, terminal))
           IN /\ Heard(s, ch, pub) => Heard(s, to, pub + 1)
              /\ HeardAll(s, ch) => HeardAll(s, to)
PROOF
  <1> DEFINE to   == Pushed(ch, NextEvent(ch, pub, terminal))
             gone == ch.seq - Len(ch.history)
             left == to.seq - Len(to.history)
  <1>1. /\ to \in Channel /\ to.seq = ch.seq + 1 /\ gone <= left
        /\ ch.seq \in Nat /\ gone \in Int /\ left \in Int
    <2>1. /\ to \in Channel /\ to.seq = ch.seq + 1 /\ gone <= left
      BY PushedNumbered
    <2> QED
      BY <2>1, ChannelTypes
  <1> HIDE DEF to
  <1>2. s.lastSeq \in Nat /\ \A i \in DOMAIN s.delivered : s.delivered[i] \in Nat
    BY StreamTypes
  <1>3. ASSUME Heard(s, ch, pub) PROVE Heard(s, to, pub + 1)
    <2>1. ASSUME NEW i \in DOMAIN s.delivered
          PROVE  /\ s.delivered[i] <= pub + 1
                 /\ s.delivered[i] <= (pub + 1) - to.seq + s.lastSeq
      <3>1. /\ s.delivered[i] \in Nat /\ s.delivered[i] <= pub
            /\ s.delivered[i] <= pub - ch.seq + s.lastSeq
        BY <1>2, <1>3 DEF Heard
      <3>2. pub - ch.seq + s.lastSeq = (pub + 1) - to.seq + s.lastSeq
        BY <1>1, <1>2, SMTT(30)
      <3> QED
        BY <3>1, <3>2
    <2> QED
      BY <1>3, <2>1 DEF Heard
  <1>4. ASSUME HeardAll(s, ch) PROVE HeardAll(s, to)
    <2>1. \A k \in 1 .. s.lastSeq : k <= gone => k <= left
      BY <1>1, <1>2
    <2> QED
      BY <1>4, <2>1 DEF HeardAll
  <1> QED
    BY <1>3, <1>4 DEF to

-----------------------------------------------------------------------------
\* The invariant.

Spent == [reports : 0 .. MaxReports, faults : 0 .. MaxFaults, restarts : 0 .. MaxRestarts,
          resumes : 0 .. MaxResumes, opens : [Clients -> 0 .. MaxOpens]]

Bus ==
    /\ row \in {"live", "failed", "over"}
    /\ worker \in {"none", "executing", "lingering", "loading"}
    /\ published \in Nat /\ channel \in Channel \cup {None}
    /\ Numbered(TheChannel, published)
    /\ spent \in Spent
    /\ spent.restarts = 0 => published = TheChannel.seq

\* A client has a connection while its source is open, and a source while its stream is
\* being watched.
Client(c) ==
    /\ conn[c] \in Connection \cup {None} /\ source[c] \in Source /\ stream[c] \in Stream
    /\ conn[c] # None <=> source[c].state = "open"
    /\ source[c].state # "none" => stream[c].state = "watching"
    /\ source[c].lastId <= stream[c].lastSeq
    /\ conn[c] # None => IsWire(conn[c], stream[c].lastSeq, TheChannel, published)
    /\ Heard(stream[c], TheChannel, published)
    /\ spent.restarts = 0 => HeardAll(stream[c], TheChannel)
    /\ conn[c] # None /\ conn[c].live =>
          row # "over" /\ channel # None /\ ~channel.finished

Inv ==
    /\ DOMAIN conn = Clients /\ DOMAIN source = Clients /\ DOMAIN stream = Clients
    /\ \A c \in Clients : Client(c)
    /\ Bus

LEMMA TheChannelTypes ==
    ASSUME Bus
    PROVE  TheChannel \in Channel /\ (channel # None => TheChannel = channel)
  BY NewChannelNumbered DEF Bus, TheChannel

LEMMA ChannelIsNotNone == \A ch \in Channel : ch # None
  BY NoneAssumption

\* A bound that is used up by one is still kept.
LEMMA SpentTypes ==
    ASSUME spent \in Spent
    PROVE  /\ spent.reports < MaxReports =>
                 LET new == [spent EXCEPT !.reports = @ + 1]
                 IN new \in Spent /\ new.restarts = spent.restarts
           /\ spent.faults < MaxFaults =>
                 LET new == [spent EXCEPT !.faults = @ + 1]
                 IN new \in Spent /\ new.restarts = spent.restarts
           /\ spent.resumes < MaxResumes =>
                 LET new == [spent EXCEPT !.resumes = @ + 1]
                 IN new \in Spent /\ new.restarts = spent.restarts
           /\ spent.restarts < MaxRestarts =>
                 LET new == [spent EXCEPT !.restarts = @ + 1]
                 IN new \in Spent /\ new.restarts # 0
PROOF
  <1>1. /\ MaxReports \in Nat /\ MaxFaults \in Nat /\ MaxRestarts \in Nat
        /\ MaxResumes \in Nat
    BY BoundsAssumption
  <1> QED
    BY <1>1 DEF Spent

\* An event is published: on the bus, and to the clients.
LEMMA PublishBus ==
    ASSUME Bus, NEW terminal \in BOOLEAN,
           channel' = Pushed(TheChannel, NextEvent(TheChannel, published, terminal)),
           published' = published + 1,
           row' \in {"live", "failed", "over"},
           worker' \in {"none", "executing", "lingering", "loading"},
           spent' \in Spent, spent'.restarts = spent.restarts
    PROVE  /\ Bus' /\ TheChannel' = channel' /\ channel' # None
           /\ channel'.finished = (TheChannel.finished \/ terminal)
PROOF
  <1> DEFINE new == Pushed(TheChannel, NextEvent(TheChannel, published, terminal))
  <1>1. TheChannel \in Channel /\ published \in Nat /\ Numbered(TheChannel, published)
    BY TheChannelTypes DEF Bus
  <1>2. /\ new \in Channel /\ Numbered(new, published + 1) /\ new.seq = TheChannel.seq + 1
        /\ new.finished = (TheChannel.finished \/ terminal)
    BY <1>1, PushedNumbered
  <1> HIDE DEF new
  <1>3. channel' = new
    BY DEF new
  <1>4. channel' # None /\ TheChannel' = channel'
    BY <1>2, <1>3, ChannelIsNotNone DEF TheChannel
  <1>5. Numbered(TheChannel, published)'
    BY <1>2, <1>3, <1>4 DEF Numbered
  <1> QED
    BY <1>1, <1>2, <1>3, <1>4, <1>5 DEF Bus

LEMMA PublishClient ==
    ASSUME Inv, Bus', NEW c \in Clients, NEW terminal \in BOOLEAN,
           published' = published + 1,
           channel' = Pushed(TheChannel, NextEvent(TheChannel, published, terminal)),
           ~terminal => row' = row,
           spent'.restarts = spent.restarts,
           source'[c] = source[c], stream'[c] = stream[c],
           conn'[c] = IF conn[c] # None /\ conn[c].live
                      THEN Reached(conn[c], NextEvent(TheChannel, published, terminal))
                      ELSE conn[c]
    PROVE  Client(c)'
PROOF
  <1> DEFINE new == Pushed(TheChannel, NextEvent(TheChannel, published, terminal))
  <1>1. /\ TheChannel \in Channel /\ published \in Nat /\ Numbered(TheChannel, published)
        /\ Bus /\ Client(c)
    BY TheChannelTypes DEF Inv, Bus
  <1>2. /\ new \in Channel /\ new.finished = (TheChannel.finished \/ terminal)
    BY <1>1, PushedNumbered
  <1>3. channel' # None /\ TheChannel' = new
    BY <1>2, ChannelIsNotNone DEF TheChannel
  <1>4. stream[c] \in Stream /\ stream[c].lastSeq \in Nat
    BY <1>1, StreamTypes DEF Client
  <1>5. /\ Heard(stream[c], new, published + 1)
        /\ spent.restarts = 0 => HeardAll(stream[c], new)
    BY <1>1, <1>4, PublishedHeard DEF Client
  <1>6. CASE conn[c] = None
    <2>1. conn'[c] = None
      BY <1>6
    <2>2. Heard(stream[c], TheChannel, published)'
      BY <1>3, <1>5 DEF Heard
    <2>3. spent'.restarts = 0 => HeardAll(stream[c], TheChannel)'
      BY <1>3, <1>5 DEF HeardAll
    <2> QED
      BY <1>1, <1>6, <2>1, <2>2, <2>3 DEF Client
  <1>7. CASE conn[c] # None
    <2>1. /\ conn'[c] \in Connection /\ IsWire(conn'[c], stream[c].lastSeq, new, published + 1)
          /\ conn'[c].live => ~terminal
      <3>1. conn[c] \in Connection /\ IsWire(conn[c], stream[c].lastSeq, TheChannel, published)
        BY <1>1, <1>7 DEF Client
      <3> HIDE DEF new
      <3> QED
        BY <1>1, <1>4, <1>7, <3>1, PublishedWire DEF new
    <2>2. conn'[c] # None
      BY <2>1, NoneAssumption
    <2>3. conn'[c].live => conn[c].live
      BY <1>7
    <2>4. IsWire(conn[c], stream[c].lastSeq, TheChannel, published)'
      BY <1>3, <2>1 DEF IsWire
    <2>5. Heard(stream[c], TheChannel, published)'
      BY <1>3, <1>5 DEF Heard
    <2>6. spent'.restarts = 0 => HeardAll(stream[c], TheChannel)'
      BY <1>3, <1>5 DEF HeardAll
    <2>7. conn'[c].live => row' # "over" /\ ~channel'.finished
      <3>1. conn[c].live => row # "over" /\ ~TheChannel.finished
        BY <1>1, <1>7, TheChannelTypes DEF Client
      <3> QED
        BY <1>2, <2>1, <2>3, <3>1
    <2> HIDE DEF new
    <2> QED
      BY <1>1, <1>3, <1>7, <2>1, <2>2, <2>4, <2>5, <2>6, <2>7 DEF Client
  <1> QED
    BY <1>6, <1>7

\* The clients only look on.
LEMMA PublishInv ==
    ASSUME Inv, NEW terminal \in BOOLEAN, Publish(terminal), UNCHANGED <<source, stream>>,
           ~terminal => row' = row, row' \in {"live", "failed", "over"},
           worker' \in {"none", "executing", "lingering", "loading"},
           spent' \in Spent, spent'.restarts = spent.restarts
    PROVE  Inv'
PROOF
  <1> DEFINE e == NextEvent(TheChannel, published, terminal)
  <1>1. /\ published' = published + 1 /\ channel' = Pushed(TheChannel, e)
        /\ conn' = [c \in Clients |->
              IF conn[c] # None /\ conn[c].live THEN Reached(conn[c], e) ELSE conn[c]]
    BY DEF Publish, NextEvent
  <1> HIDE DEF e
  <1>2. Bus'
    BY <1>1, PublishBus DEF Inv, e
  <1>3. ASSUME NEW c \in Clients PROVE Client(c)'
    <2>1. conn'[c] = IF conn[c] # None /\ conn[c].live THEN Reached(conn[c], e) ELSE conn[c]
      BY <1>1
    <2> QED
      BY <1>1, <1>2, <2>1, PublishClient DEF e
  <1> QED
    BY <1>1, <1>2, <1>3 DEF Inv

-----------------------------------------------------------------------------
\* One client: its connection, its source and its stream become k, s and t.

Becomes(c, k, s, t) ==
    /\ DOMAIN conn' = Clients /\ DOMAIN source' = Clients /\ DOMAIN stream' = Clients
    /\ conn'[c] = k /\ source'[c] = s /\ stream'[c] = t
    /\ \A d \in Clients \ {c} :
          conn'[d] = conn[d] /\ source'[d] = source[d] /\ stream'[d] = stream[d]

\* The channel is what it was; a first reader may have created it.
ChannelStays == channel' = channel \/ channel' = TheChannel

LEMMA ChannelKept ==
    ASSUME Bus, ChannelStays
    PROVE  /\ TheChannel' = TheChannel /\ channel' \in Channel \cup {None}
           /\ channel # None => channel' = channel
PROOF
  <1>1. TheChannel \in Channel /\ (channel # None => TheChannel = channel)
    BY TheChannelTypes
  <1>2. CASE channel' = channel
    BY <1>2 DEF TheChannel, Bus
  <1>3. CASE channel' = TheChannel
    <2>1. channel' # None
      BY <1>1, <1>3, ChannelIsNotNone
    <2> QED
      BY <1>1, <1>3, <2>1 DEF TheChannel
  <1> QED
    BY <1>2, <1>3 DEF ChannelStays

LEMMA BusKept ==
    ASSUME Inv, UNCHANGED <<row, worker, published>>, ChannelStays,
           spent' \in Spent, spent'.restarts = spent.restarts
    PROVE  Bus'
PROOF
  <1>1. TheChannel' = TheChannel /\ channel' \in Channel \cup {None}
    BY ChannelKept DEF Inv
  <1>2. Numbered(TheChannel, published)'
    BY <1>1 DEF Inv, Bus, Numbered
  <1> QED
    BY <1>1, <1>2 DEF Inv, Bus

\* A client that does nothing sees nothing of what another does.
LEMMA ClientKept ==
    ASSUME Inv, published' = published, ChannelStays, row' = row \/ row' # "over",
           spent'.restarts = spent.restarts,
           NEW c \in Clients, conn'[c] = conn[c], source'[c] = source[c], stream'[c] = stream[c]
    PROVE  Client(c)'
PROOF
  <1>1. TheChannel' = TheChannel /\ (channel # None => channel' = channel)
    BY ChannelKept DEF Inv
  <1>2. IsWire(conn[c], stream[c].lastSeq, TheChannel, published)
        => IsWire(conn[c], stream[c].lastSeq, TheChannel, published)'
    BY <1>1 DEF IsWire
  <1>3. /\ Heard(stream[c], TheChannel, published) => Heard(stream[c], TheChannel, published)'
        /\ HeardAll(stream[c], TheChannel) => HeardAll(stream[c], TheChannel)'
    BY <1>1 DEF Heard, HeardAll
  <1> QED
    BY <1>1, <1>2, <1>3 DEF Inv, Client

LEMMA OneClient ==
    ASSUME Inv, UNCHANGED <<row, worker, published>>, ChannelStays,
           spent' \in Spent, spent'.restarts = spent.restarts,
           NEW c \in Clients, NEW k \in Connection \cup {None}, NEW s \in Source,
           NEW t \in Stream, Becomes(c, k, s, t),
           k # None <=> s.state = "open", s.state # "none" => t.state = "watching",
           s.lastId <= t.lastSeq,
           k # None => /\ IsWire(k, t.lastSeq, TheChannel, published)
                       /\ k.live => \/ conn[c] # None /\ conn[c].live
                                    \/ row # "over" /\ channel' # None /\ ~channel'.finished,
           Heard(t, TheChannel, published),
           spent.restarts = 0 => HeardAll(t, TheChannel)
    PROVE  Inv'
PROOF
  <1>1. Bus' /\ TheChannel' = TheChannel /\ (channel # None => channel' = channel)
    BY BusKept, ChannelKept DEF Inv
  <1>2. \A d \in Clients \ {c} : Client(d)'
    BY ClientKept DEF Becomes
  <1>3. conn'[c] = k /\ source'[c] = s /\ stream'[c] = t
    BY DEF Becomes
  <1>4. k # None => IsWire(conn[c], stream[c].lastSeq, TheChannel, published)'
    BY <1>1, <1>3 DEF IsWire
  <1>5. /\ Heard(stream[c], TheChannel, published)'
        /\ spent.restarts = 0 => HeardAll(stream[c], TheChannel)'
    BY <1>1, <1>3 DEF Heard, HeardAll
  <1>6. k # None /\ k.live => row' # "over" /\ channel' # None /\ ~channel'.finished
    BY <1>1 DEF Inv, Client
  <1>7. Client(c)'
    BY <1>3, <1>4, <1>5, <1>6 DEF Client
  <1> QED
    BY <1>1, <1>2, <1>7 DEF Inv, Becomes

\* A stream whose number and deliveries stay has heard what it had.
LEMMA SameHeard ==
    ASSUME NEW t, NEW s, t.lastSeq = s.lastSeq, t.delivered = s.delivered, NEW ch, NEW pub
    PROVE  /\ Heard(s, ch, pub) => Heard(t, ch, pub)
           /\ HeardAll(s, ch) => HeardAll(t, ch)
  BY DEF Heard, HeardAll

LEMMA NothingHeard ==
    ASSUME NEW t, t.lastSeq = 0, t.delivered = <<>>, NEW ch, NEW pub
    PROVE  Heard(t, ch, pub) /\ HeardAll(t, ch)
  BY DEF Heard, HeardAll

\* After an error.
LEMMA ErroredTypes ==
    ASSUME Inv, NEW c \in Clients, source[c].state # "none"
    PROVE  /\ Errored(c) \in Stream
           /\ Errored(c).lastSeq = stream[c].lastSeq
           /\ Errored(c).delivered = stream[c].delivered
           /\ Errored(c).state = IF GivesUp(c) THEN "failed" ELSE "watching"
           /\ Reconnecting(c) \in Source
           /\ Reconnecting(c).state = IF GivesUp(c) THEN "none" ELSE "connecting"
           /\ Reconnecting(c).lastId <= stream[c].lastSeq
PROOF
  <1>1. /\ stream[c] \in Stream /\ source[c] \in Source /\ stream[c].state = "watching"
        /\ source[c].lastId <= stream[c].lastSeq
    BY DEF Inv, Client
  <1>2. CASE GivesUp(c)
    <2>1. Errored(c) = [stream[c] EXCEPT !.state = "failed"] /\ Reconnecting(c) = NoSource
      BY <1>2 DEF Errored, Reconnecting
    <2>2. NoSource \in Source /\ NoSource.state = "none" /\ NoSource.lastId = 0
      BY DEF NoSource, Source
    <2>3. stream[c].lastSeq \in Nat
      BY <1>1 DEF Stream
    <2> QED
      BY <1>1, <1>2, <2>1, <2>2, <2>3 DEF Stream
  <1>3. CASE ~GivesUp(c)
    <2>1. /\ Errored(c) = [stream[c] EXCEPT !.attempt = @ + 1]
          /\ Reconnecting(c) = [source[c] EXCEPT !.state = "connecting"]
      BY <1>3 DEF Errored, Reconnecting
    <2> QED
      BY <1>1, <1>3, <2>1 DEF Stream, Source
  <1> QED
    BY <1>2, <1>3

LEMMA OpenInv ==
    ASSUME Inv, NEW c \in Clients, OpenStream(c)
    PROVE  Inv'
PROOF
  <1> DEFINE t == [state |-> "watching", attempt |-> 0, lastSeq |-> 0, delivered |-> <<>>]
  <1>1. /\ t \in Stream /\ t.lastSeq = 0 /\ t.delivered = <<>> /\ t.state = "watching"
        /\ FreshSource \in Source /\ FreshSource.state = "connecting"
        /\ FreshSource.lastId = 0
    BY DEF Stream, Source, FreshSource
  <1> HIDE DEF t
  <1>2. conn[c] = None
    BY DEF OpenStream, Inv, Client
  <1>3. Becomes(c, None, FreshSource, t)
    BY <1>2 DEF OpenStream, Becomes, Inv, t
  <1>4. spent' \in Spent /\ spent'.restarts = spent.restarts
    <2>1. spent \in Spent /\ MaxOpens \in Nat
      BY BoundsAssumption DEF Inv, Bus
    <2> DEFINE new == [spent.opens EXCEPT ![c] = @ + 1]
    <2>2. new \in [Clients -> 0 .. MaxOpens]
      <3>1. spent.opens \in [Clients -> 0 .. MaxOpens]
        BY <2>1 DEF Spent
      <3>2. spent.opens[c] + 1 \in 0 .. MaxOpens
        BY <2>1, <3>1 DEF OpenStream
      <3> QED
        BY <3>1, <3>2
    <2>3. spent' = [spent EXCEPT !.opens = new]
      BY <2>1 DEF OpenStream, Spent
    <2> HIDE DEF new
    <2> QED
      BY <2>1, <2>2, <2>3 DEF Spent
  <1>5. Heard(t, TheChannel, published) /\ HeardAll(t, TheChannel)
    BY <1>1, NothingHeard
  <1> QED
    BY SMTT(30), <1>1, <1>3, <1>4, <1>5, OneClient DEF ChannelStays, OpenStream

LEMMA CloseInv ==
    ASSUME Inv, NEW c \in Clients, CloseStream(c)
    PROVE  Inv'
PROOF
  <1> DEFINE t == [stream[c] EXCEPT !.state = "closed"]
  <1>1. stream[c] \in Stream
    BY DEF Inv, Client
  <1>2. /\ t \in Stream /\ t.lastSeq = stream[c].lastSeq /\ t.delivered = stream[c].delivered
        /\ t.lastSeq \in Nat
    BY <1>1 DEF Stream
  <1>3. NoSource \in Source /\ NoSource.state = "none" /\ NoSource.lastId = 0
    BY DEF NoSource, Source
  <1>4. Becomes(c, None, NoSource, t)
    BY DEF CloseStream, Becomes, Inv
  <1> HIDE DEF t
  <1>5. /\ Heard(t, TheChannel, published)
        /\ spent.restarts = 0 => HeardAll(t, TheChannel)
    BY <1>2, SameHeard DEF Inv, Client
  <1>6. spent' \in Spent /\ spent'.restarts = spent.restarts
    BY DEF CloseStream, Inv, Bus
  <1> QED
    BY <1>2, <1>3, <1>4, <1>5, <1>6, OneClient DEF ChannelStays, CloseStream

LEMMA DisconnectedInv ==
    ASSUME Inv, NEW c \in Clients, conn[c] # None, Disconnected(c),
           spent' \in Spent, spent'.restarts = spent.restarts
    PROVE  Inv'
PROOF
  <1>1. source[c].state # "none"
    BY DEF Inv, Client
  <1>2. Becomes(c, None, Reconnecting(c), Errored(c))
    BY DEF Disconnected, Becomes, Inv
  <1>3. /\ Heard(Errored(c), TheChannel, published)
        /\ spent.restarts = 0 => HeardAll(Errored(c), TheChannel)
    BY <1>1, ErroredTypes, SameHeard DEF Inv, Client
  <1> QED
    BY <1>1, <1>2, <1>3, ErroredTypes, OneClient DEF ChannelStays, Disconnected

LEMMA ConnectFailsInv ==
    ASSUME Inv, NEW c \in Clients, ConnectFails(c)
    PROVE  Inv'
PROOF
  <1>1. /\ source[c].state = "connecting" /\ conn[c] = None
        /\ UNCHANGED <<row, worker, published, channel, conn>>
    BY DEF ConnectFails, Inv, Client
  <1>2. spent' \in Spent /\ spent'.restarts = spent.restarts
    BY SpentTypes DEF ConnectFails, Inv, Bus
  <1>3. /\ Heard(Errored(c), TheChannel, published)
        /\ spent.restarts = 0 => HeardAll(Errored(c), TheChannel)
    BY <1>1, ErroredTypes, SameHeard DEF Inv, Client
  <1>4. CASE source' = [source EXCEPT ![c] = Reconnecting(c)]
    <2>1. Becomes(c, None, Reconnecting(c), Errored(c))
      BY <1>1, <1>4 DEF ConnectFails, Becomes, Inv
    <2> QED
      BY <1>1, <1>2, <1>3, <2>1, ErroredTypes, OneClient DEF ChannelStays
  <1>5. CASE ~GivesUp(c) /\ source' = [source EXCEPT ![c].state = "waiting"]
    <2> DEFINE s == [source[c] EXCEPT !.state = "waiting"]
    <2>1. /\ s \in Source /\ s.state = "waiting" /\ s.lastId = source[c].lastId
          /\ s.lastId <= stream[c].lastSeq
      BY DEF Inv, Client, Source
    <2>2. Becomes(c, None, s, Errored(c))
      BY <1>1, <1>5 DEF ConnectFails, Becomes, Inv
    <2> HIDE DEF s
    <2> QED
      BY <1>1, <1>2, <1>3, <1>5, <2>1, <2>2, ErroredTypes, OneClient DEF ChannelStays
  <1> QED
    BY <1>4, <1>5 DEF ConnectFails

LEMMA RetryTimerInv ==
    ASSUME Inv, NEW c \in Clients, RetryTimer(c)
    PROVE  Inv'
PROOF
  <1>1. /\ FreshSource \in Source /\ FreshSource.state = "connecting"
        /\ FreshSource.lastId = 0
    BY DEF Source, FreshSource
  <1>2. /\ conn[c] = None /\ stream[c] \in Stream /\ stream[c].state = "watching"
        /\ stream[c].lastSeq \in Nat
    BY DEF RetryTimer, Inv, Client, Stream
  <1>3. Becomes(c, None, FreshSource, stream[c])
    BY <1>2 DEF RetryTimer, Becomes, Inv
  <1>4. /\ Heard(stream[c], TheChannel, published)
        /\ spent.restarts = 0 => HeardAll(stream[c], TheChannel)
    BY DEF Inv, Client
  <1>5. spent' \in Spent /\ spent'.restarts = spent.restarts
    BY DEF RetryTimer, Inv, Bus
  <1> QED
    BY <1>1, <1>2, <1>3, <1>4, <1>5, OneClient DEF ChannelStays, RetryTimer

-----------------------------------------------------------------------------
\* A frame arrives.

\* The frame is one of the channel's; between what was heard and it there is nothing that
\* the history still has, and between it and the next frame nothing at all.
LEMMA FirstFrame ==
    ASSUME NEW ch \in Channel, NEW pub \in Nat, Numbered(ch, pub), NEW k \in Connection,
           NEW last \in Nat, IsWire(k, last, ch, pub), k.frames # <<>>,
           NEW next \in Nat, Head(k.frames).seq <= next
    PROVE  LET e == Head(k.frames)
               rest == [k EXCEPT !.frames = Tail(@)]
           IN /\ e \in Event /\ e.seq \in 1 .. ch.seq /\ e.nth = pub - ch.seq + e.seq
              /\ e.seq - 1 <= last \/ e.seq - 1 <= ch.seq - Len(ch.history)
              /\ rest \in Connection /\ rest.live = k.live /\ IsWire(rest, next, ch, pub)
PROOF
  <1> DEFINE f    == k.frames
             e    == Head(f)
             rest == [k EXCEPT !.frames = Tail(@)]
             gone == ch.seq - Len(ch.history)
  <1>1. /\ f \in Seq(Event) /\ Len(f) \in Nat \ {0} /\ k.live \in BOOLEAN
        /\ ch.seq \in Nat /\ gone \in Int
    BY ConnectionTypes, ChannelTypes
  <1>2. PICK top \in 0 .. ch.seq :
           /\ k.live => top = ch.seq
           /\ Len(f) <= top
           /\ top - Len(f) <= last \/ top - Len(f) <= gone
           /\ \A i \in 1 .. Len(f) :
                 /\ f[i].seq = top - Len(f) + i
                 /\ f[i].nth = pub - ch.seq + (top - Len(f) + i)
    BY DEF IsWire
  <1>3. /\ e = f[1] /\ e \in Event /\ 1 \in 1 .. Len(f)
        /\ Tail(f) \in Seq(Event) /\ Len(Tail(f)) = Len(f) - 1
        /\ \A i \in 1 .. Len(f) - 1 : Tail(f)[i] = f[i + 1]
    BY <1>1
  <1>4. e.seq = top - Len(f) + 1 /\ e.nth = pub - ch.seq + (top - Len(f) + 1)
    BY <1>2, <1>3
  <1>5. rest.frames = Tail(f) /\ rest.live = k.live /\ rest \in Connection
    BY <1>1, <1>3 DEF Connection
  <1> HIDE DEF rest, e, f, gone
  <1>6. /\ e.seq \in 1 .. ch.seq /\ e.nth = pub - ch.seq + e.seq
        /\ e.seq - 1 <= last \/ e.seq - 1 <= gone
    BY <1>1, <1>2, <1>4
  <1>7. e.seq <= next
    BY DEF e, f
  <1>8. top - Len(Tail(f)) <= next /\ Len(Tail(f)) <= top
    BY <1>1, <1>2, <1>3, <1>4, <1>7
  <1>9. ASSUME NEW i \in 1 .. Len(Tail(f))
        PROVE  /\ Tail(f)[i].seq = top - Len(Tail(f)) + i
               /\ Tail(f)[i].nth = pub - ch.seq + (top - Len(Tail(f)) + i)
    <2>1. i + 1 \in 1 .. Len(f) /\ Tail(f)[i] = f[i + 1]
      BY <1>1, <1>3
    <2>2. top - Len(f) + (i + 1) = top - Len(Tail(f)) + i
      BY <1>1, <1>2, <1>3
    <2>3. /\ f[i + 1].seq = top - Len(f) + (i + 1)
          /\ f[i + 1].nth = pub - ch.seq + (top - Len(f) + (i + 1))
      BY <1>2, <2>1
    <2> QED
      BY <2>1, <2>2, <2>3, Zenon
  <1>10. IsWire(rest, next, ch, pub)
    BY <1>2, <1>5, <1>8, <1>9, ZenonT(30) DEF IsWire
  <1> QED
    BY <1>3, <1>5, <1>6, <1>10 DEF e, f, rest, gone

\* What is new comes after everything that was heard.
LEMMA NewsHeard ==
    ASSUME NEW ch \in Channel, NEW pub \in Nat, ch.seq <= pub, NEW s \in Stream,
           NEW e \in Event, e.seq \in 1 .. ch.seq, e.nth = pub - ch.seq + e.seq,
           e.seq > s.lastSeq,
           e.seq - 1 <= s.lastSeq \/ e.seq - 1 <= ch.seq - Len(ch.history),
           NEW t, t.lastSeq = e.seq, t.delivered = Append(s.delivered, e.nth)
    PROVE  /\ Heard(s, ch, pub) => Heard(t, ch, pub)
           /\ HeardAll(s, ch) /\ pub = ch.seq => HeardAll(t, ch)
PROOF
  <1> DEFINE d    == s.delivered
             more == Append(d, e.nth)
             n    == Len(d)
             gone == ch.seq - Len(ch.history)
  <1>1. /\ s.lastSeq \in Nat /\ d \in Seq(Nat) /\ n \in Nat /\ DOMAIN d = 1 .. n
        /\ \A i \in 1 .. n : d[i] \in Nat
        /\ ch.seq \in Nat /\ e.seq \in Nat /\ e.nth \in Nat /\ gone \in Int
    BY StreamTypes, ChannelTypes DEF Event
  <1>2. /\ DOMAIN more = 1 .. n + 1 /\ more[n + 1] = e.nth
        /\ \A i \in 1 .. n : more[i] = d[i]
    BY <1>1, SMTT(30)
  <1> HIDE DEF d, more, n, gone
  <1>3. ASSUME Heard(s, ch, pub) PROVE Heard(t, ch, pub)
    <2>1. /\ \A i, j \in 1 .. n : i < j => d[i] < d[j]
          /\ \A i \in 1 .. n : d[i] <= pub /\ d[i] <= pub - ch.seq + s.lastSeq
      BY <1>1, <1>3 DEF Heard, d
    <2>2. e.nth <= pub
      BY <1>1
    <2>3. ASSUME NEW i \in 1 .. n PROVE d[i] < e.nth
      <3>1. d[i] <= pub - ch.seq + s.lastSeq /\ d[i] \in Nat
        BY <1>1, <2>1
      <3> QED
        BY <1>1, <3>1, SMTT(30)
    <2>4. \A i \in 1 .. n + 1 : i \in 1 .. n \/ i = n + 1
      BY <1>1
    <2>5. ASSUME NEW i \in DOMAIN more, NEW j \in DOMAIN more, i < j
          PROVE  more[i] < more[j]
      <3>1. i \in 1 .. n
        BY <1>1, <1>2, <2>5
      <3> QED
        BY <1>2, <2>1, <2>3, <2>4, <2>5, <3>1
    <2>6. ASSUME NEW i \in DOMAIN more
          PROVE  more[i] <= pub /\ more[i] <= pub - ch.seq + e.seq
      <3>1. CASE i = n + 1
        <4>1. e.nth <= pub - ch.seq + e.seq
          BY <1>1
        <4> QED
          BY <1>2, <2>2, <3>1, <4>1
      <3>2. CASE i \in 1 .. n
        <4>1. more[i] = d[i] /\ d[i] < e.nth /\ d[i] \in Nat
          BY <1>1, <1>2, <2>3, <3>2
        <4> QED
          BY <1>1, <2>2, <4>1
      <3> QED
        BY <1>2, <2>4, <3>1, <3>2
    <2> QED
      BY <2>5, <2>6 DEF Heard, more, d
  <1>4. ASSUME HeardAll(s, ch), pub = ch.seq PROVE HeardAll(t, ch)
    <2>1. e.nth = e.seq
      BY <1>1, <1>4
    <2>2. n + 1 \in DOMAIN more /\ \A i \in 1 .. n : i \in DOMAIN more
      BY <1>1, <1>2
    <2>3. ASSUME NEW k \in 1 .. e.seq
          PROVE  k <= gone \/ \E j \in DOMAIN more : more[j] = k
      <3>1. CASE k <= s.lastSeq
        <4>1. k \in 1 .. s.lastSeq
          BY <1>1, <3>1
        <4>2. k <= gone \/ \E j \in 1 .. n : d[j] = k
          BY <1>1, <1>4, <4>1 DEF HeardAll, gone, d
        <4> QED
          BY <1>2, <2>2, <4>2
      <3>2. CASE k > s.lastSeq /\ k < e.seq
        <4>1. e.seq - 1 <= gone
          BY <1>1, <3>2 DEF gone
        <4> QED
          BY <1>1, <3>2, <4>1
      <3>3. CASE k = e.seq
        BY <1>2, <2>1, <2>2, <3>3
      <3> QED
        BY <1>1, <3>1, <3>2, <3>3
    <2> QED
      BY <2>3 DEF HeardAll, gone, more, d
  <1> QED
    BY <1>3, <1>4

LEMMA ReceiveInv ==
    ASSUME Inv, NEW c \in Clients, Receive(c)
    PROVE  Inv'
PROOF
  <1> DEFINE k    == conn[c]
             e    == Head(k.frames)
             rest == [k EXCEPT !.frames = Tail(@)]
             s    == [source[c] EXCEPT !.lastId = e.seq]
             ch   == TheChannel
  <1>1. /\ k \in Connection /\ k # None /\ k.frames # <<>>
        /\ IsWire(k, stream[c].lastSeq, ch, published)
        /\ source[c] \in Source /\ source[c].state = "open"
        /\ stream[c] \in Stream /\ stream[c].state = "watching"
        /\ stream[c].lastSeq \in Nat
    BY DEF Receive, Inv, Client, Stream
  <1>2. ch \in Channel /\ published \in Nat /\ Numbered(ch, published) /\ ch.seq \in Nat
    BY TheChannelTypes, ChannelTypes DEF Inv, Bus
  <1>3. /\ Heard(stream[c], ch, published)
        /\ spent.restarts = 0 => HeardAll(stream[c], ch) /\ published = ch.seq
    BY DEF Inv, Client, Bus
  <1>4. /\ spent' \in Spent /\ spent'.restarts = spent.restarts
        /\ UNCHANGED <<row, worker, published, channel>>
    BY DEF Receive, Inv, Bus
  <1> HIDE DEF ch
  <1>5. k.frames[1] = e /\ e \in Event /\ e.seq \in Nat
    BY <1>1, ConnectionTypes DEF Event
  <1>6. ASSUME NEW next \in Nat, e.seq <= next
        PROVE  /\ e.seq \in 1 .. ch.seq /\ e.nth = published - ch.seq + e.seq
               /\ e.seq - 1 <= stream[c].lastSeq \/ e.seq - 1 <= ch.seq - Len(ch.history)
               /\ rest \in Connection /\ rest.live = k.live
               /\ IsWire(rest, next, ch, published)
    BY <1>1, <1>2, <1>6, FirstFrame
  <1>7. /\ s \in Source /\ s.state = "open" /\ s.lastId = e.seq
    BY <1>1, <1>5 DEF Source
  <1>8. CASE IsReplay(c, e)
    <2>1. e.seq <= stream[c].lastSeq
      BY <1>8 DEF IsReplay
    <2>2. stream' = stream /\ source' = [source EXCEPT ![c] = s] /\ conn' = [conn EXCEPT ![c] = rest]
      BY <1>8 DEF Receive, Inv
    <2> HIDE DEF e, rest, s, k
    <2>3. Becomes(c, rest, s, stream[c])
      BY <2>2 DEF Becomes, Inv
    <2>4. rest # None /\ rest \in Connection /\ rest.live = k.live
          /\ IsWire(rest, stream[c].lastSeq, ch, published)
      BY <1>1, <1>6, <2>1, NoneAssumption
    <2> QED
      BY <1>1, <1>3, <1>4, <1>7, <2>1, <2>3, <2>4, OneClient DEF ChannelStays, ch, k
  <1>9. CASE ~IsReplay(c, e)
    <2> DEFINE t == [stream[c] EXCEPT !.lastSeq = e.seq, !.delivered = Append(@, e.nth),
                                      !.state = IF e.terminal THEN "done" ELSE @]
    <2>1. e.seq > stream[c].lastSeq
      BY <1>1, <1>5, <1>9 DEF IsReplay
    <2>2. /\ t \in Stream /\ t.lastSeq = e.seq
          /\ t.delivered = Append(stream[c].delivered, e.nth)
          /\ t.state = IF e.terminal THEN "done" ELSE "watching"
      <3> DEFINE more == Append(stream[c].delivered, e.nth)
                 word == IF e.terminal THEN "done" ELSE stream[c].state
      <3>1. e.nth \in Nat
        BY <1>5 DEF Event
      <3>2. more \in Seq(Nat)
        BY <1>1, <3>1 DEF Stream
      <3>3. word \in {"done", "watching"} /\ (word = IF e.terminal THEN "done" ELSE "watching")
        BY <1>1
      <3>4. t = [stream[c] EXCEPT !.lastSeq = e.seq, !.delivered = more, !.state = word]
        BY <1>1 DEF Stream
      <3> HIDE DEF t, e, more, word
      <3>5. /\ t \in Stream /\ t.lastSeq = e.seq /\ t.delivered = more /\ t.state = word
        BY <1>1, <1>5, <3>2, <3>3, <3>4 DEF Stream
      <3> QED
        BY <3>3, <3>5 DEF more
    <2>3. stream' = [stream EXCEPT ![c] = t]
      BY <1>9 DEF Receive, Inv
    <2> HIDE DEF t
    <2>4. /\ Heard(t, ch, published)
          /\ spent.restarts = 0 => HeardAll(t, ch)
      <3>1. /\ e.seq \in 1 .. ch.seq /\ e.nth = published - ch.seq + e.seq
            /\ e.seq - 1 <= stream[c].lastSeq \/ e.seq - 1 <= ch.seq - Len(ch.history)
        BY <1>5, <1>6
      <3>2. ch.seq <= published
        BY <1>2 DEF Numbered
      <3> HIDE DEF e
      <3> QED
        BY <1>1, <1>2, <1>3, <1>5, <2>1, <2>2, <3>1, <3>2, NewsHeard
    <2>5. CASE e.terminal
      <3>1. source' = [source EXCEPT ![c] = NoSource] /\ conn' = [conn EXCEPT ![c] = None]
        BY <1>9, <2>5 DEF Receive
      <3>2. NoSource \in Source /\ NoSource.state = "none" /\ NoSource.lastId = 0
        BY DEF NoSource, Source
      <3>3. Becomes(c, None, NoSource, t)
        BY <2>3, <3>1 DEF Becomes, Inv
      <3> HIDE DEF e
      <3> QED
        BY SMTT(30), <1>1, <1>4, <1>5, <2>2, <2>4, <3>2, <3>3, OneClient DEF ChannelStays, ch
    <2>6. CASE ~e.terminal
      <3>1. source' = [source EXCEPT ![c] = s] /\ conn' = [conn EXCEPT ![c] = rest]
        BY <1>9, <2>6 DEF Receive, Inv
      <3> HIDE DEF e, rest, s, k
      <3>2. /\ rest # None /\ rest \in Connection /\ rest.live = k.live
            /\ IsWire(rest, e.seq, ch, published)
        <4>1. e.seq \in Nat /\ e.seq <= e.seq
          BY <1>5
        <4> QED
          BY <1>6, <4>1, NoneAssumption
      <3>3. Becomes(c, rest, s, t)
        BY <2>3, <3>1 DEF Becomes, Inv
      <3>4. s.lastId <= t.lastSeq
        BY <1>5, <1>7, <2>2
      <3>5. t.state = "watching"
        BY <2>2, <2>6
      <3> QED
        BY <1>1, <1>4, <1>7, <2>2, <2>4, <3>2, <3>3, <3>4, <3>5, OneClient DEF ChannelStays, ch, k
    <2> QED
      BY <2>5, <2>6
  <1> QED
    BY <1>8, <1>9

-----------------------------------------------------------------------------
\* A client connects.

LEMMA ConnectInv ==
    ASSUME Inv, NEW c \in Clients, Connect(c)
    PROVE  Inv'
PROOF
  <1> DEFINE s  == [source[c] EXCEPT !.state = "open"]
             t  == [stream[c] EXCEPT !.attempt = 0]
             e  == NextEvent(TheChannel, published, TRUE)
             ch == IF Unsaid THEN Pushed(TheChannel, e) ELSE TheChannel
             k  == Subscription(ch, source[c].lastId)
  <1>1. /\ source[c] \in Source /\ source[c].state = "connecting"
        /\ stream[c] \in Stream /\ stream[c].state = "watching" /\ stream[c].lastSeq \in Nat
        /\ source[c].lastId \in Nat /\ source[c].lastId <= stream[c].lastSeq
    BY DEF Connect, Inv, Client, Source, Stream
  <1>2. /\ s \in Source /\ s.state = "open" /\ s.lastId = source[c].lastId
        /\ t \in Stream /\ t.state = "watching" /\ t.lastSeq = stream[c].lastSeq
        /\ t.delivered = stream[c].delivered
    BY <1>1 DEF Source, Stream
  <1>3. /\ source' = [source EXCEPT ![c] = s] /\ stream' = [stream EXCEPT ![c] = t]
        /\ published' = (IF Unsaid THEN published + 1 ELSE published) /\ channel' = ch
        /\ conn' = [d \in Clients |->
              IF d = c THEN k
              ELSE IF Unsaid /\ conn[d] # None /\ conn[d].live THEN Reached(conn[d], e)
              ELSE conn[d]]
        /\ UNCHANGED <<row, worker, spent>>
    BY DEF Connect, NextEvent, Inv
  <1> HIDE DEF s, t
  <1>4. /\ TheChannel \in Channel /\ published \in Nat /\ Numbered(TheChannel, published)
        /\ spent' \in Spent /\ spent'.restarts = spent.restarts
    BY <1>3, TheChannelTypes DEF Inv, Bus
  <1>5. /\ Heard(stream[c], TheChannel, published)
        /\ spent.restarts = 0 => HeardAll(stream[c], TheChannel)
    BY DEF Inv, Client
  <1>6. CASE ~Unsaid
    <2>1. ch = TheChannel /\ published' = published /\ channel' = TheChannel
      BY <1>3, <1>6
    <2> HIDE DEF ch
    <2>2. /\ k \in Connection /\ k # None
          /\ IsWire(k, t.lastSeq, TheChannel, published)
          /\ k.live = ~TheChannel.finished
      BY <1>1, <1>2, <1>4, <2>1, SubscribedWire, NoneAssumption
    <2> HIDE DEF k
    <2>3. Becomes(c, k, s, t)
      BY <1>3, <1>6 DEF Becomes, Inv
    <2>4. k.live => row # "over" /\ channel' # None /\ ~channel'.finished
      BY <1>4, <1>6, <2>1, <2>2, ChannelIsNotNone DEF Unsaid
    <2>5. /\ Heard(t, TheChannel, published)
          /\ spent.restarts = 0 => HeardAll(t, TheChannel)
      BY <1>2, <1>5, SameHeard
    <2> QED
      BY <1>1, <1>2, <1>3, <1>4, <2>1, <2>2, <2>3, <2>4, <2>5, OneClient DEF ChannelStays
  <1>7. CASE Unsaid
    <2> DEFINE new == Pushed(TheChannel, e)
    <2>1. ch = new /\ published' = published + 1 /\ channel' = new
      BY <1>3, <1>7
    <2>2. /\ new \in Channel /\ Numbered(new, published + 1) /\ new.finished
          /\ published + 1 \in Nat
      <3>1. TRUE \in BOOLEAN
        OBVIOUS
      <3>2. /\ new \in Channel /\ Numbered(new, published + 1)
            /\ new.finished = (TheChannel.finished \/ TRUE)
        BY <1>4, <3>1, PushedNumbered
      <3>3. published + 1 \in Nat
        BY <1>4
      <3> HIDE DEF new
      <3>4. new.finished = TRUE
        BY <3>2, Zenon
      <3> QED
        BY <3>2, <3>3, <3>4, Zenon
    <2>3. Bus' /\ TheChannel' = new
      BY <1>3, <1>4, <2>1, PublishBus DEF Inv, Bus
    <2>4. ASSUME NEW d \in Clients \ {c} PROVE Client(d)'
      <3>1. /\ conn'[d] = IF conn[d] # None /\ conn[d].live THEN Reached(conn[d], e) ELSE conn[d]
            /\ source'[d] = source[d] /\ stream'[d] = stream[d]
        BY <1>3, <1>7 DEF Inv
      <3> HIDE DEF ch, k
      <3> QED
        BY <1>3, <1>4, <2>1, <2>3, <3>1, PublishClient
    <2>5. /\ k \in Connection /\ k # None
          /\ IsWire(k, t.lastSeq, new, published + 1)
          /\ ~k.live
      <3> HIDE DEF new, ch
      <3> QED
        BY <1>1, <1>2, <2>1, <2>2, SubscribedWire, NoneAssumption
    <2>6. /\ Heard(t, new, published + 1)
          /\ spent.restarts = 0 => HeardAll(t, new)
      <3>1. /\ Heard(stream[c], new, published + 1)
            /\ spent.restarts = 0 => HeardAll(stream[c], new)
        BY <1>1, <1>4, <1>5, PublishedHeard
      <3> HIDE DEF new
      <3> QED
        BY <1>2, <3>1, SameHeard
    <2> HIDE DEF new, k, ch
    <2>7. conn'[c] = k /\ source'[c] = s /\ stream'[c] = t
      BY <1>3 DEF Inv
    <2>8. /\ IsWire(conn[c], stream[c].lastSeq, TheChannel, published)'
          /\ Heard(stream[c], TheChannel, published)'
          /\ spent.restarts = 0 => HeardAll(stream[c], TheChannel)'
      BY <2>1, <2>3, <2>5, <2>6, <2>7 DEF IsWire, Heard, HeardAll
    <2>9. Client(c)'
      BY <1>1, <1>2, <1>4, <2>5, <2>7, <2>8 DEF Client
    <2> QED
      BY <1>3, <2>3, <2>4, <2>9 DEF Inv
  <1> QED
    BY <1>6, <1>7

-----------------------------------------------------------------------------
\* The run, and the server.

LEMMA ReportInv ==
    ASSUME Inv, Report
    PROVE  Inv'
PROOF
  <1>1. spent' \in Spent /\ spent'.restarts = spent.restarts
    BY SpentTypes DEF Report, Inv, Bus
  <1>2. /\ row' = row /\ worker' = worker /\ UNCHANGED <<source, stream>>
        /\ Publish(FALSE)
    BY DEF Report
  <1>3. /\ row' \in {"live", "failed", "over"}
        /\ worker' \in {"none", "executing", "lingering", "loading"}
    BY <1>2 DEF Inv, Bus
  <1> QED
    BY <1>1, <1>2, <1>3, PublishInv

LEMMA FinishInv ==
    ASSUME Inv, NEW outcome \in {"failed", "over"}, Finish(outcome)
    PROVE  Inv'
PROOF
  <1>1. spent' \in Spent /\ spent'.restarts = spent.restarts
    BY DEF Finish, Inv, Bus
  <1>2. /\ Publish(TRUE) /\ UNCHANGED <<source, stream>>
        /\ row' \in {"live", "failed", "over"}
        /\ worker' \in {"none", "executing", "lingering", "loading"}
    BY DEF Finish
  <1> QED
    BY <1>1, <1>2, PublishInv

LEMMA CancelInv ==
    ASSUME Inv, Cancel
    PROVE  Inv'
PROOF
  <1>1. spent' \in Spent /\ spent'.restarts = spent.restarts
    BY DEF Cancel, Inv, Bus
  <1>2. /\ Publish(TRUE) /\ UNCHANGED <<source, stream>>
        /\ row' \in {"live", "failed", "over"}
        /\ worker' \in {"none", "executing", "lingering", "loading"}
    BY DEF Cancel
  <1> QED
    BY <1>1, <1>2, PublishInv

\* Of a run whose end is not published the readers notice nothing.
LEMMA RunMovesInv ==
    ASSUME Inv, UNCHANGED <<published, channel, conn, source, stream>>,
           row' = row \/ row' \in {"live", "failed"},
           worker' \in {"none", "executing", "lingering", "loading"},
           spent' \in Spent, spent'.restarts = spent.restarts
    PROVE  Inv'
PROOF
  <1>1. row' \in {"live", "failed", "over"} /\ (row' = row \/ row' # "over")
    BY DEF Inv, Bus
  <1>2. TheChannel' = TheChannel /\ ChannelStays
    BY DEF TheChannel, ChannelStays
  <1>3. Bus'
    <2>1. Numbered(TheChannel, published)'
      BY <1>2 DEF Inv, Bus, Numbered
    <2> QED
      BY <1>1, <1>2, <2>1 DEF Inv, Bus
  <1>4. \A c \in Clients : Client(c)'
    BY <1>1, <1>2, ClientKept
  <1> QED
    BY <1>3, <1>4 DEF Inv

LEMMA ResumeInv ==
    ASSUME Inv, StageStops \/ ResumeReads \/ ResumeLoads
    PROVE  Inv'
PROOF
  <1>1. CASE StageStops
    <2>1. spent' \in Spent /\ spent'.restarts = spent.restarts
      BY <1>1 DEF StageStops, Inv, Bus
    <2> QED
      BY <1>1, <2>1, RunMovesInv DEF StageStops
  <1>2. CASE ResumeReads
    <2>1. spent' \in Spent /\ spent'.restarts = spent.restarts
      BY <1>2, SpentTypes DEF ResumeReads, Inv, Bus
    <2> QED
      BY <1>2, <2>1, RunMovesInv DEF ResumeReads
  <1>3. CASE ResumeLoads
    <2>1. spent' \in Spent /\ spent'.restarts = spent.restarts
      BY <1>3 DEF ResumeLoads, Inv, Bus
    <2> QED
      BY <1>3, <2>1, RunMovesInv DEF ResumeLoads
  <1> QED
    BY <1>1, <1>2, <1>3

\* A new process numbers from 1 again: what a stream has delivered is still in the past.
LEMMA RestartInv ==
    ASSUME Inv, Restart
    PROVE  Inv'
PROOF
  <1>1. /\ spent' \in Spent /\ spent'.restarts # 0
        /\ row' = row /\ published' = published /\ channel' = None /\ worker' = "none"
    BY SpentTypes DEF Restart, Inv, Bus
  <1>2. TheChannel' = NewChannel /\ NewChannel.seq = 0
    BY <1>1 DEF TheChannel, NewChannel
  <1>3. Bus'
    <2>1. Numbered(NewChannel, published)
      BY NewChannelNumbered DEF Inv, Bus
    <2>2. Numbered(TheChannel, published)'
      BY <1>1, <1>2, <2>1 DEF Numbered
    <2> QED
      BY <1>1, <2>2 DEF Inv, Bus
  <1>4. ASSUME NEW c \in Clients PROVE Client(c)'
    <2>1. /\ conn'[c] = None
          /\ stream'[c] = IF conn[c] = None THEN stream[c] ELSE Errored(c)
          /\ source'[c] = IF conn[c] = None THEN source[c] ELSE Reconnecting(c)
      BY DEF Restart
    <2>2. /\ stream'[c] \in Stream /\ source'[c] \in Source
          /\ stream'[c].lastSeq = stream[c].lastSeq
          /\ stream'[c].delivered = stream[c].delivered
          /\ source'[c].state # "open"
          /\ source'[c].state # "none" => stream'[c].state = "watching"
          /\ source'[c].lastId <= stream'[c].lastSeq
      <3>1. CASE conn[c] = None
        BY <2>1, <3>1 DEF Inv, Client
      <3>2. CASE conn[c] # None
        <4>1. source[c].state # "none"
          BY <3>2 DEF Inv, Client
        <4> QED
          BY <2>1, <3>2, <4>1, ErroredTypes
      <3> QED
        BY <3>1, <3>2
    <2>3. Heard(stream[c], TheChannel, published)'
      <3>1. Heard(stream[c], TheChannel, published) /\ stream[c] \in Stream /\ published \in Nat
        BY DEF Inv, Client, Bus
      <3>2. stream[c].lastSeq \in Nat /\ \A i \in DOMAIN stream[c].delivered :
               stream[c].delivered[i] \in Nat
        BY <3>1, StreamTypes
      <3>3. \A i \in DOMAIN stream[c].delivered :
               stream[c].delivered[i] <= published - 0 + stream[c].lastSeq
        BY <3>1, <3>2 DEF Heard
      <3> QED
        BY <1>1, <1>2, <2>2, <3>1, <3>3 DEF Heard
    <2> QED
      BY <1>1, <2>1, <2>2, <2>3 DEF Client
  <1>5. DOMAIN conn' = Clients /\ DOMAIN source' = Clients /\ DOMAIN stream' = Clients
    BY DEF Restart
  <1> QED
    BY <1>3, <1>4, <1>5 DEF Inv

LEMMA InitInv == Init => Inv
PROOF
  <1> SUFFICES ASSUME Init PROVE Inv
    OBVIOUS
  <1>1. Numbered(TheChannel, published) /\ TheChannel.seq = 0
    BY NewChannelNumbered DEF Init, TheChannel, NewChannel
  <1>2. Bus
    <2>1. spent \in Spent
      BY BoundsAssumption DEF Init, Spent
    <2> QED
      BY <1>1, <2>1 DEF Init, Bus
  <1>3. ASSUME NEW c \in Clients PROVE Client(c)
    <2>1. /\ conn[c] = None /\ source[c] = NoSource
          /\ stream[c] = [state |-> "closed", attempt |-> 0, lastSeq |-> 0, delivered |-> <<>>]
      BY DEF Init
    <2>2. stream[c] \in Stream /\ stream[c].lastSeq = 0 /\ stream[c].delivered = <<>>
      BY <2>1 DEF Stream
    <2>3. NoSource \in Source /\ NoSource.state = "none" /\ NoSource.lastId = 0
      BY DEF NoSource, Source
    <2>4. Heard(stream[c], TheChannel, published) /\ HeardAll(stream[c], TheChannel)
      BY <2>2, NothingHeard
    <2> QED
      BY <2>1, <2>2, <2>3, <2>4 DEF Client
  <1> QED
    BY <1>2, <1>3 DEF Init, Inv

LEMMA StutterInv ==
    ASSUME Inv, UNCHANGED vars
    PROVE  Inv'
PROOF
  <1>1. spent' \in Spent /\ spent'.restarts = spent.restarts /\ row' = row
        /\ worker' \in {"none", "executing", "lingering", "loading"}
    BY DEF vars, Inv, Bus
  <1> QED
    BY <1>1, RunMovesInv DEF vars

LEMMA NextInv ==
    ASSUME Inv, [Next]_vars
    PROVE  Inv'
PROOF
  <1>1. CASE Report \/ Cancel
    BY <1>1, ReportInv, CancelInv
  <1>2. CASE StageStops \/ ResumeReads \/ ResumeLoads
    BY <1>2, ResumeInv
  <1>3. CASE Restart
    BY <1>3, RestartInv
  <1>4. CASE \E outcome \in {"failed", "over"} : Finish(outcome)
    BY <1>4, FinishInv
  <1>5. ASSUME NEW c \in Clients,
               OpenStream(c) \/ CloseStream(c) \/ Drop(c) \/ ConnectFails(c) \/ ClientStep(c)
        PROVE  Inv'
    <2>1. CASE OpenStream(c) \/ CloseStream(c)
      BY <2>1, OpenInv, CloseInv
    <2>2. CASE Drop(c)
      <3>1. spent' \in Spent /\ spent'.restarts = spent.restarts
        BY <2>2, SpentTypes DEF Drop, Inv, Bus
      <3> QED
        BY <2>2, <3>1, DisconnectedInv DEF Drop
    <2>3. CASE ConnectFails(c)
      BY <2>3, ConnectFailsInv
    <2>4. CASE ResponseEnds(c)
      <3>1. spent' \in Spent /\ spent'.restarts = spent.restarts
        BY <2>4 DEF ResponseEnds, Inv, Bus
      <3> QED
        BY <2>4, <3>1, DisconnectedInv DEF ResponseEnds
    <2>5. CASE Connect(c) \/ Receive(c) \/ RetryTimer(c)
      BY <2>5, ConnectInv, ReceiveInv, RetryTimerInv
    <2> QED
      BY <1>5, <2>1, <2>2, <2>3, <2>4, <2>5 DEF ClientStep
  <1>6. CASE UNCHANGED vars
    BY <1>6, StutterInv
  <1> QED
    BY <1>1, <1>2, <1>3, <1>4, <1>5, <1>6 DEF Next

LEMMA Invariance == Spec => []Inv
PROOF
  <1>1. Init => Inv
    BY InitInv
  <1>2. Inv /\ [Next]_vars => Inv'
    BY NextInv
  <1> QED
    BY <1>1, <1>2, PTL DEF Spec

-----------------------------------------------------------------------------
\* The theorems.

\* The clients' variables are functions.
Tabular ==
    /\ conn = [c \in Clients |-> conn[c]]
    /\ source = [c \in Clients |-> source[c]]
    /\ stream = [c \in Clients |-> stream[c]]

LEMMA NextTabular ==
    ASSUME Tabular, [Next]_vars
    PROVE  Tabular'
PROOF
  <1>1. CASE Report
    BY <1>1 DEF Tabular, Report, Publish
  <1>2. CASE Cancel
    BY <1>2 DEF Tabular, Cancel, Publish
  <1>3. CASE \E outcome \in {"failed", "over"} : Finish(outcome)
    BY <1>3 DEF Tabular, Finish, Publish
  <1>4. CASE Restart
    BY <1>4 DEF Tabular, Restart
  <1>5. CASE StageStops \/ ResumeReads \/ ResumeLoads \/ UNCHANGED vars
    BY <1>5 DEF Tabular, StageStops, ResumeReads, ResumeLoads, vars
  <1>6. ASSUME NEW c \in Clients,
               OpenStream(c) \/ CloseStream(c) \/ Drop(c) \/ ConnectFails(c) \/ ClientStep(c)
        PROVE  Tabular'
    <2>1. CASE OpenStream(c)
      BY <2>1 DEF Tabular, OpenStream
    <2>2. CASE CloseStream(c)
      BY <2>2 DEF Tabular, CloseStream
    <2>3. CASE Drop(c) \/ ResponseEnds(c)
      BY <2>3 DEF Tabular, Drop, ResponseEnds, Disconnected
    <2>4. CASE ConnectFails(c)
      BY <2>4 DEF Tabular, ConnectFails
    <2>5. CASE Connect(c)
      BY <2>5 DEF Tabular, Connect
    <2>6. CASE Receive(c)
      BY <2>6 DEF Tabular, Receive
    <2>7. CASE RetryTimer(c)
      BY <2>7 DEF Tabular, RetryTimer
    <2> QED
      BY <1>6, <2>1, <2>2, <2>3, <2>4, <2>5, <2>6, <2>7 DEF ClientStep
  <1> QED
    BY <1>1, <1>2, <1>3, <1>4, <1>5, <1>6 DEF Next

LEMMA TypesFollow ==
    ASSUME Inv, Tabular
    PROVE  TypeOK
PROOF
  <1>1. /\ conn \in [Clients -> Connection \cup {None}] /\ source \in [Clients -> Source]
        /\ stream \in [Clients -> Stream]
    BY DEF Inv, Client, Tabular
  <1>2. channel # None => Len(channel.history) <= HistoryLimit
    BY DEF Inv, Bus, Numbered, TheChannel
  <1>3. \A c \in Clients : conn[c] # None <=> source[c].state = "open"
    BY DEF Inv, Client
  <1> QED
    BY <1>1, <1>2, <1>3 DEF Inv, Bus, Spent, TypeOK

\* No stream delivers an event twice or late, however many connections break, processes
\* die and numbers start again (TypeOK included).
THEOREM InOrder == Spec => []DeliveredInOrder
PROOF
  <1>1. Init => Tabular
    BY DEF Init, Tabular
  <1>2. Tabular /\ [Next]_vars => Tabular'
    BY NextTabular
  <1>3. Inv /\ Tabular => DeliveredInOrder
    <2> SUFFICES ASSUME Inv, Tabular PROVE DeliveredInOrder
      OBVIOUS
    <2>1. \A c \in Clients : Heard(stream[c], TheChannel, published)
      BY DEF Inv, Client
    <2> QED
      BY <2>1, TypesFollow DEF DeliveredInOrder, Heard
  <1> QED
    BY <1>1, <1>2, <1>3, Invariance, PTL DEF Spec

\* A stream that has delivered an event has delivered every earlier one the bus still has,
\* as long as one process numbers them.
THEOREM NothingIsMissed == Spec => []NothingMissed
PROOF
  <1>1. Inv => NothingMissed
    <2> SUFFICES ASSUME Inv, NEW c \in Clients, spent.restarts = 0, channel # None,
                        NEW i \in DOMAIN channel.history,
                        channel.history[i].seq <= stream[c].lastSeq
                 PROVE  \E j \in DOMAIN stream[c].delivered :
                           stream[c].delivered[j] = channel.history[i].nth
      BY DEF NothingMissed
    <2> DEFINE h == channel.history
    <2>1. /\ channel \in Channel /\ Numbered(channel, published)
          /\ published = channel.seq /\ HeardAll(stream[c], channel)
      BY TheChannelTypes DEF Inv, Bus, Client
    <2>2. /\ channel.seq \in Nat /\ Len(h) \in Nat /\ Len(h) <= channel.seq
          /\ i \in 1 .. Len(h)
          /\ h[i].seq = channel.seq - Len(h) + i /\ h[i].nth = published - Len(h) + i
      BY <2>1, ChannelTypes DEF Numbered
    <2>3. stream[c].lastSeq \in Nat
      BY StreamTypes DEF Inv, Client
    <2> HIDE DEF h
    <2>4. /\ h[i].nth = h[i].seq /\ h[i].nth \in 1 .. stream[c].lastSeq
          /\ ~(h[i].nth <= channel.seq - Len(h))
      BY <2>1, <2>2, <2>3 DEF h
    <2> QED
      BY <2>1, <2>4 DEF HeardAll, h
  <1> QED
    BY <1>1, Invariance, PTL

\* No connection waits for the end of a run whose end was published.
THEOREM NobodyWaits == Spec => []NobodyWaitsInVain
PROOF
  <1>1. Inv => NobodyWaitsInVain
    BY DEF Inv, Client, NobodyWaitsInVain
  <1> QED
    BY <1>1, Invariance, PTL

=============================================================================
