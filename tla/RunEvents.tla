----------------------------- MODULE RunEvents -----------------------------
(***************************************************************************)
(* The events of one run: the bus that numbers, keeps and fans them out,   *)
(* the controller that serves them as a stream, and the studio's clients,  *)
(* which reconnect (apps/api/src/events, apps/web/src/api/run-stream.ts).  *)
(* Runs share nothing on the bus, so one run stands for all.               *)
(*                                                                         *)
(* What the run itself does is reduced to what the stream can see: its row *)
(* in the database, and whether this process is working on it (see         *)
(* PipelineRunner).  A crash takes the bus, not the row.                   *)
(*                                                                         *)
(* Publishing is synchronous, and so is everything between the arrival of  *)
(* a request and its subscription but for promises already resolved: each  *)
(* is one step.  Between server and client frames travel in order, and a   *)
(* connection that breaks loses those on their way.                        *)
(*                                                                         *)
(* Definitions named Broken... are not the code, see PipelineRunner.       *)
(***************************************************************************)
EXTENDS Naturals, Sequences, FiniteSets

CONSTANTS
    Clients,       \* browser tabs
    HistoryLimit,  \* DEFAULT_HISTORY_LIMIT
    MaxAttempts,   \* RunStreamOptions.maxAttempts
    None,          \* no channel, no connection
    MaxReports,    \* bound: progress, cost and issue events published
    MaxFaults,     \* bound: connections that break or are refused
    MaxRestarts,   \* bound: crashes of the server
    MaxResumes,    \* bound: resumes of the run
    MaxOpens       \* bound: streams a client opens

ASSUME HistoryLimitAssumption == HistoryLimit \in Nat \ {0}
ASSUME MaxAttemptsAssumption == MaxAttempts \in Nat
ASSUME BoundsAssumption ==
    {MaxReports, MaxFaults, MaxRestarts, MaxResumes, MaxOpens} \subseteq Nat

VARIABLES
    row,        \* the run in the database: going on, failed, or over for good
    worker,     \* what this process is doing for the run
    published,  \* how many events the run has had, whatever process numbered them
    channel,    \* the bus's RunChannel of the run, or None
    conn,       \* per client: its connection, as the server and the wire see it
    source,     \* per client: its EventSource
    stream,     \* per client: its RunStream
    spent       \* how much of each bound has been used

vars == <<row, worker, published, channel, conn, source, stream, spent>>

-----------------------------------------------------------------------------
\* The bus.  `nth` is not in the code: it says which of the run's events this is.

Event == [seq : Nat, nth : Nat, terminal : BOOLEAN]

Channel == [seq : Nat, history : Seq(Event), finished : BOOLEAN]

NewChannel == [seq |-> 0, history |-> <<>>, finished |-> FALSE]

\* #channelFor
TheChannel == IF channel = None THEN NewChannel ELSE channel

BrokenBounded(history) ==
    IF Len(history) > HistoryLimit + 1 THEN Tail(history) ELSE history

Bounded(history) ==
    IF Len(history) > HistoryLimit THEN Tail(history) ELSE history

Pushed(ch, e) ==
    [seq      |-> e.seq,
     history  |-> Bounded(Append(ch.history, e)),
     finished |-> ch.finished \/ e.terminal]

\* A connection whose subject has completed gets no more frames, and ends when
\* those it has are through.
Connection == [frames : Seq(Event), live : BOOLEAN]

BrokenReached(k, e) == [k EXCEPT !.frames = Append(@, e)]

Reached(k, e) == [frames |-> Append(k.frames, e), live |-> ~e.terminal]

ASSUME NoneAssumption == None \notin Channel \cup Connection

Publish(terminal) ==
    LET e == [seq |-> TheChannel.seq + 1, nth |-> published + 1, terminal |-> terminal]
    IN /\ published' = published + 1
       /\ channel' = Pushed(TheChannel, e)
       /\ conn' = [c \in Clients |->
              IF conn[c] # None /\ conn[c].live THEN Reached(conn[c], e) ELSE conn[c]]

\* A sequence number from the future is treated as zero.
Since(id, ch) == IF id > ch.seq THEN 0 ELSE id

BrokenSubscription(ch, id) ==
    [frames |-> <<>>, live |-> ~ch.finished]

\* The events later than `seq`: the history is in the order of its numbers, so the filter
\* keeps a tail of it.
Later(history, seq) ==
    LET first == CHOOSE i \in 1 .. Len(history) + 1 :
                    /\ \A j \in 1 .. i - 1 : history[j].seq <= seq
                    /\ i <= Len(history) => history[i].seq > seq
    IN SubSeq(history, first, Len(history))

\* subscribe: what was missed, then live events unless the channel is finished.
Subscription(ch, id) ==
    [frames |-> Later(ch.history, Since(id, ch)), live |-> ~ch.finished]

-----------------------------------------------------------------------------
\* The client.  A stream ends by the terminal event ("done"), by its user
\* ("closed"), or after too many failed attempts ("failed").

Stream == [state : {"closed", "watching", "failed", "done"}, attempt : Nat,
           lastSeq : Nat, delivered : Seq(Nat)]

Source == [state : {"none", "connecting", "open", "waiting"}, lastId : Nat]

NoSource == [state |-> "none", lastId |-> 0]

FreshSource == [state |-> "connecting", lastId |-> 0]

\* onerror: one attempt more, or give up.
GivesUp(c) == stream[c].attempt >= MaxAttempts

Errored(c) ==
    IF GivesUp(c) THEN [stream[c] EXCEPT !.state = "failed"]
    ELSE [stream[c] EXCEPT !.attempt = @ + 1]

\* The browser itself reconnects, with the id of the last frame it received.
Reconnecting(c) ==
    IF GivesUp(c) THEN NoSource ELSE [source[c] EXCEPT !.state = "connecting"]

-----------------------------------------------------------------------------
Init ==
    /\ row = "live"
    /\ worker = "executing"
    /\ published = 0
    /\ channel = None
    /\ conn = [c \in Clients |-> None]
    /\ source = [c \in Clients |-> NoSource]
    /\ stream = [c \in Clients |->
           [state |-> "closed", attempt |-> 0, lastSeq |-> 0, delivered |-> <<>>]]
    /\ spent = [reports |-> 0, faults |-> 0, restarts |-> 0, resumes |-> 0,
                opens |-> [c \in Clients |-> 0]]

-----------------------------------------------------------------------------
\* What the run does.

\* A stage reports, also one that was cancelled and has not noticed.
Report ==
    /\ worker \in {"executing", "lingering"}
    /\ spent.reports < MaxReports
    /\ spent' = [spent EXCEPT !.reports = @ + 1]
    /\ Publish(FALSE)
    /\ UNCHANGED <<row, worker, source, stream>>

\* #succeed and #fail.
Finish(outcome) ==
    /\ worker = "executing"
    /\ row' = outcome
    /\ worker' = "none"
    /\ Publish(TRUE)
    /\ UNCHANGED <<source, stream, spent>>

\* cancel, of a run with or without a worker; the stage may take time to stop.
Cancel ==
    /\ row = "live"
    /\ row' = "over"
    /\ \/ worker' = "none"
       \/ worker = "executing" /\ worker' = "lingering"
    /\ Publish(TRUE)
    /\ UNCHANGED <<source, stream, spent>>

StageStops ==
    /\ worker = "lingering"
    /\ worker' = "none"
    /\ UNCHANGED <<row, published, channel, conn, source, stream, spent>>

\* resume: the row is failed while the payload is read, then live again.
ResumeReads ==
    /\ worker = "none"
    /\ row \in {"live", "failed"}
    /\ spent.resumes < MaxResumes
    /\ spent' = [spent EXCEPT !.resumes = @ + 1]
    /\ row' = "failed"
    /\ worker' = "loading"
    /\ UNCHANGED <<published, channel, conn, source, stream>>

ResumeLoads ==
    /\ worker = "loading"
    /\ \/ row' = "live" /\ worker' = "executing"
       \/ worker' = "none" /\ UNCHANGED row
    /\ UNCHANGED <<published, channel, conn, source, stream, spent>>

\* The server dies, and with it the bus and every connection.
Restart ==
    /\ spent.restarts < MaxRestarts
    /\ spent' = [spent EXCEPT !.restarts = @ + 1]
    /\ worker' = "none"
    /\ channel' = None
    /\ conn' = [c \in Clients |-> None]
    /\ stream' = [c \in Clients |-> IF conn[c] = None THEN stream[c] ELSE Errored(c)]
    /\ source' = [c \in Clients |-> IF conn[c] = None THEN source[c] ELSE Reconnecting(c)]
    /\ UNCHANGED <<row, published>>

-----------------------------------------------------------------------------
\* What a client does.

\* openRunStream: a new stream, that has seen nothing.
OpenStream(c) ==
    /\ stream[c].state # "watching"
    /\ spent.opens[c] < MaxOpens
    /\ spent' = [spent EXCEPT !.opens[c] = @ + 1]
    /\ stream' = [stream EXCEPT ![c] =
           [state |-> "watching", attempt |-> 0, lastSeq |-> 0, delivered |-> <<>>]]
    /\ source' = [source EXCEPT ![c] = FreshSource]
    /\ UNCHANGED <<row, worker, published, channel, conn>>

\* close: the scope is disposed, another run is chosen.
CloseStream(c) ==
    /\ stream[c].state = "watching"
    /\ stream' = [stream EXCEPT ![c].state = "closed"]
    /\ source' = [source EXCEPT ![c] = NoSource]
    /\ conn' = [conn EXCEPT ![c] = None]
    /\ UNCHANGED <<row, worker, published, channel, spent>>

BrokenUnsaid == FALSE

Unsaid == row # "live" /\ ~TheChannel.finished

\* RunEventsController.stream: a run that is over on a channel that does not know
\* gets its terminal event first.
Connect(c) ==
    /\ source[c].state = "connecting"
    /\ source' = [source EXCEPT ![c].state = "open"]
    /\ stream' = [stream EXCEPT ![c].attempt = 0]
    /\ LET e == [seq |-> TheChannel.seq + 1, nth |-> published + 1, terminal |-> TRUE]
           ch == IF Unsaid THEN Pushed(TheChannel, e) ELSE TheChannel
       IN /\ published' = IF Unsaid THEN published + 1 ELSE published
          /\ channel' = ch
          /\ conn' = [d \in Clients |->
                 IF d = c THEN Subscription(ch, source[c].lastId)
                 ELSE IF Unsaid /\ conn[d] # None /\ conn[d].live THEN Reached(conn[d], e)
                 ELSE conn[d]]
    /\ UNCHANGED <<row, worker, spent>>

BrokenIsReplay(c, e) == FALSE

\* The duplicate guard of handleFrame.
IsReplay(c, e) == e.seq <= stream[c].lastSeq

\* handleFrame.  The EventSource notes the id of every frame.
Receive(c) ==
    LET e == Head(conn[c].frames)
        news == ~IsReplay(c, e)
    IN /\ conn[c] # None
       /\ conn[c].frames # <<>>
       /\ stream' = IF ~news THEN stream
                    ELSE [stream EXCEPT
                            ![c].lastSeq = e.seq,
                            ![c].delivered = Append(@, e.nth),
                            ![c].state = IF e.terminal THEN "done" ELSE @]
       /\ IF news /\ e.terminal
          THEN /\ source' = [source EXCEPT ![c] = NoSource]
               /\ conn' = [conn EXCEPT ![c] = None]
          ELSE /\ source' = [source EXCEPT ![c].lastId = e.seq]
               /\ conn' = [conn EXCEPT ![c].frames = Tail(@)]
       /\ UNCHANGED <<row, worker, published, channel, spent>>

\* The connection is gone: EventSource reports an error and is already retrying.
Disconnected(c) ==
    /\ conn' = [conn EXCEPT ![c] = None]
    /\ stream' = [stream EXCEPT ![c] = Errored(c)]
    /\ source' = [source EXCEPT ![c] = Reconnecting(c)]
    /\ UNCHANGED <<row, worker, published, channel>>

\* The server has completed the response.
ResponseEnds(c) ==
    /\ conn[c] # None
    /\ conn[c].frames = <<>> /\ ~conn[c].live
    /\ Disconnected(c)
    /\ UNCHANGED spent

\* The connection breaks, with what was on its way.
Drop(c) ==
    /\ conn[c] # None
    /\ spent.faults < MaxFaults
    /\ spent' = [spent EXCEPT !.faults = @ + 1]
    /\ Disconnected(c)

\* The server cannot be reached, or answers with an error status: in that case the
\* browser gives the socket up, and the stream builds a new one after a delay.
ConnectFails(c) ==
    /\ source[c].state = "connecting"
    /\ spent.faults < MaxFaults
    /\ spent' = [spent EXCEPT !.faults = @ + 1]
    /\ stream' = [stream EXCEPT ![c] = Errored(c)]
    /\ \/ source' = [source EXCEPT ![c] = Reconnecting(c)]
       \/ ~GivesUp(c) /\ source' = [source EXCEPT ![c].state = "waiting"]
    /\ UNCHANGED <<row, worker, published, channel, conn>>

RetryTimer(c) ==
    /\ source[c].state = "waiting"
    /\ source' = [source EXCEPT ![c] = FreshSource]
    /\ UNCHANGED <<row, worker, published, channel, conn, stream, spent>>

-----------------------------------------------------------------------------
ClientStep(c) ==
    Connect(c) \/ Receive(c) \/ ResponseEnds(c) \/ RetryTimer(c)

Next ==
    \/ Report \/ Cancel \/ StageStops \/ ResumeReads \/ ResumeLoads \/ Restart
    \/ \E outcome \in {"failed", "over"} : Finish(outcome)
    \/ \E c \in Clients :
          OpenStream(c) \/ CloseStream(c) \/ Drop(c) \/ ConnectFails(c) \/ ClientStep(c)

Spec == Init /\ [][Next]_vars

\* A browser that is connecting gets an answer, frames on the wire arrive, an ended
\* response is noticed, a timer fires.
LiveSpec == Spec /\ \A c \in Clients : WF_vars(ClientStep(c))

-----------------------------------------------------------------------------
\* Properties.

TypeOK ==
    /\ row \in {"live", "failed", "over"}
    /\ worker \in {"none", "executing", "lingering", "loading"}
    /\ published \in Nat
    /\ channel \in Channel \cup {None}
    /\ conn \in [Clients -> Connection \cup {None}]
    /\ source \in [Clients -> Source]
    /\ stream \in [Clients -> Stream]
    /\ spent \in [reports : 0 .. MaxReports, faults : 0 .. MaxFaults,
                  restarts : 0 .. MaxRestarts, resumes : 0 .. MaxResumes,
                  opens : [Clients -> 0 .. MaxOpens]]
    /\ channel # None => Len(channel.history) <= HistoryLimit
    /\ \A c \in Clients : conn[c] # None <=> source[c].state = "open"

\* A stream never delivers an event twice, nor one event after a later one, whatever
\* breaks, is replayed or is numbered again by a new process (`seq` as the duplicate
\* guard, `concat` rather than `merge`).
DeliveredInOrder ==
    /\ TypeOK
    /\ \A c \in Clients : \A i, j \in DOMAIN stream[c].delivered :
          i < j => stream[c].delivered[i] < stream[c].delivered[j]

\* A stream that has delivered an event has delivered every earlier one that the bus
\* still has: a reconnect, by the browser or with a new socket, brings "the events that
\* were missed".  Within one process: see LowSeqIsReplay.
NothingMissed ==
    \A c \in Clients : spent.restarts = 0 /\ channel # None /\ stream[c].delivered # <<>> =>
        \A i \in DOMAIN channel.history :
            channel.history[i].seq <= stream[c].lastSeq =>
                \E j \in DOMAIN stream[c].delivered :
                    stream[c].delivered[j] = channel.history[i].nth

\* No connection is left open on a run that is over, nor on a channel that has said
\* its last word: nobody waits behind heartbeats for a terminal event that was already
\* published, or that an earlier process published (isFinished, terminalEventFor).
NobodyWaitsInVain ==
    \A c \in Clients :
        conn[c] # None /\ conn[c].live =>
            row # "over" /\ channel # None /\ ~channel.finished

\* Who watches a run that is over hears of its end, or gives up trying.  Within one
\* process: after a restart the end may be dropped as a replay, at every reconnect.
EndIsHeard ==
    \A c \in Clients :
        stream[c].state = "watching" /\ row = "over" ~>
            stream[c].state # "watching" \/ spent.restarts > 0

\* What comments of the code say and the code does not do.

\* run-stream.ts: "anything at or below the highest already delivered is a replay".
\* After a restart the numbers start again, and the terminal event may be dropped too.
LowSeqIsReplay ==
    \A c \in Clients : conn[c] # None =>
        \A i \in DOMAIN conn[c].frames :
            conn[c].frames[i].seq <= stream[c].lastSeq =>
                \E j \in DOMAIN stream[c].delivered :
                    stream[c].delivered[j] = conn[c].frames[i].nth

\* run-event.ts, on run-completed: "The last event on the stream."
TerminalIsLast ==
    channel # None =>
        \A i \in DOMAIN channel.history :
            channel.history[i].terminal => i = Len(channel.history)

\* run-events.controller.ts: "The stream *completes* when the run does": not when a
\* client connects to a run that is being worked on.
LiveRunIsStreamed ==
    [][\A c \in Clients :
          worker = "executing" /\ conn[c] = None /\ conn'[c] # None => conn'[c].live]_vars

=============================================================================
