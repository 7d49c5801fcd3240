------------------------------ MODULE GrpcFeed ------------------------------
(***************************************************************************)
(* The Yellowstone subscription with reconnection (core grpc.rs): the task *)
(* that connects, subscribes and forwards the updates of the stream, up to *)
(* the bounded channel that the consumer empties.  The node publishes the  *)
(* blocks of scene.feed in that order; it keeps the last scene.replay of   *)
(* them for a subscription that asks for an earlier slot.                  *)
(***************************************************************************)
EXTENDS Naturals, Sequences, FiniteSetsExt

CONSTANTS ChannelSize, MaxErrors, Scenes

VARIABLES
    scene,      \* the blocks and the faults of this run
    grpc,       \* the subscription task
    published,  \* blocks the node has published
    chan,       \* the channel to the consumer
    lastSlot,   \* last_slot_received, set by the consumer
    faults      \* failures still allowed

feedVars == <<grpc, published, chan, lastSlot, faults>>

\* The give-up window reconnect_failed_since: closed, open, open for longer
\* than reconnect-from-slot-retain, open for longer than reconnect-give-up.
Closed == 0
Open == 1
Retained == 2
GaveUp == 3

\* get_or_insert_with(Instant::now).
Opened(window) == IF window = Closed THEN Open ELSE window

FeedInit ==
    /\ grpc = [pc |-> "connect", window |-> Closed, again |-> FALSE,
               pos |-> 0, got |-> FALSE, errored |-> FALSE, errors |-> 0]
    /\ published = 0
    /\ chan = <<>>
    /\ lastSlot = 0
    /\ faults = scene.faults

Publish ==
    /\ published < Len(scene.feed)
    /\ published' = published + 1
    /\ UNCHANGED <<grpc, chan, lastSlot, faults>>

\* The window ages while the task fails to reconnect.
Elapse ==
    /\ grpc.window \in {Open, Retained}
    /\ grpc' = [grpc EXCEPT !.window = @ + 1]
    /\ UNCHANGED <<published, chan, lastSlot, faults>>

\* The panic of the give-up ends the process.
GiveUp ==
    /\ grpc.pc = "connect" /\ grpc.window = GaveUp
    /\ grpc' = [grpc EXCEPT !.pc = "dead"]
    /\ UNCHANGED <<published, chan, lastSlot, faults>>

\* The slot to replay from: only on a reconnect, only while the failing is
\* shorter than from_slot_retain, and only if a block was consumed.
FromSlot ==
    IF grpc.again /\ grpc.window < Retained /\ lastSlot # 0
    THEN lastSlot + 1 ELSE 0

\* connect or subscribe_with_request fails.
ConnectFails ==
    /\ grpc.pc = "connect" /\ grpc.window # GaveUp
    /\ faults > 0 /\ faults' = faults - 1
    /\ grpc' = [grpc EXCEPT !.window = Opened(@)]
    /\ UNCHANGED <<published, chan, lastSlot>>

\* The stream starts behind the blocks published, or at the replayed slot.  A
\* slot the node no longer has makes the first update an error.
Subscribe ==
    /\ grpc.pc = "connect" /\ grpc.window # GaveUp
    /\ LET older == {i \in 1..published : scene.feed[i].slot < FromSlot}
           held == FromSlot = 0 \/ published - Cardinality(older) <= scene.replay
       IN grpc' = [grpc EXCEPT
             !.pc = "stream", !.got = FALSE, !.errored = FALSE, !.errors = 0,
             !.pos = IF FromSlot = 0 THEN published
                     ELSE IF held THEN Cardinality(older)
                     ELSE Len(scene.feed) + 1]
    /\ UNCHANGED <<published, chan, lastSlot, faults>>

\* A block of the stream goes into the channel; send waits while it is full.
Forward ==
    /\ grpc.pc = "stream" /\ grpc.pos < published
    /\ Len(chan) < ChannelSize
    /\ chan' = Append(chan, scene.feed[grpc.pos + 1])
    /\ grpc' = [grpc EXCEPT !.pos = @ + 1, !.got = TRUE]
    /\ UNCHANGED <<published, lastSlot, faults>>

\* What the end of a run means to the window.
RunEnds(g, errored) ==
    [g EXCEPT !.pc = "connect", !.again = TRUE,
              !.window = IF errored /\ ~g.got THEN Opened(@) ELSE Closed]

\* An error of the stream; the run ends at max_grpc_errors of them.
StreamError ==
    /\ grpc.pc = "stream"
    /\ IF grpc.pos > Len(scene.feed) THEN UNCHANGED faults
       ELSE faults > 0 /\ faults' = faults - 1
    /\ grpc' = IF grpc.errors + 1 >= MaxErrors
               THEN RunEnds([grpc EXCEPT !.errors = @ + 1, !.errored = TRUE], TRUE)
               ELSE [grpc EXCEPT !.errors = @ + 1, !.errored = TRUE]
    /\ UNCHANGED <<published, chan, lastSlot>>

\* No update for the timeout, no block for 30 s too often, or the server
\* closed the stream.
StreamEnds ==
    /\ grpc.pc = "stream"
    /\ faults > 0 /\ faults' = faults - 1
    /\ grpc' = RunEnds(grpc, grpc.errored)
    /\ UNCHANGED <<published, chan, lastSlot>>

FeedNext ==
    \/ Publish \/ Elapse \/ GiveUp \/ ConnectFails \/ Subscribe
    \/ Forward \/ StreamError \/ StreamEnds

\* The documentation of subscribe_grpc_with_reconnection: the window is only
\* cleared once a stream delivered a block.
WindowClearedByBlock ==
    [][grpc.window # Closed /\ grpc'.window = Closed => grpc.got]_<<grpc>>
=============================================================================
