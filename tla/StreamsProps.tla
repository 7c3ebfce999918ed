---------------------------- MODULE StreamsProps ----------------------------
(* What the two ends of a stream rely on: properties of Streams. *)
EXTENDS Streams

AllStreams == Inbound \cup Outbound

(***************************************************************************)
(* Refinement: whatever order headers, chunks, controllers, writes and     *)
(* cancellations come in, a stream is a Pipe.  A body whose controller is  *)
(* closed (__streamDeliverChunks), and a response whose pump has closed the *)
(* stream (writeResponse), are complete and in order.                      *)
(***************************************************************************)
Told(s) == given[s] # <<>> /\ given[s][Len(given[s])] = End
Data(s) == IF Told(s) THEN SubSeq(given[s], 1, Len(given[s]) - 1) ELSE given[s]

sent  == [s \in AllStreams |-> IF s \in Inbound THEN nread[s] ELSE nwritten[s]]
got   == [s \in AllStreams |-> IF s \in Inbound THEN Data(s) ELSE out[s]]
ended == {s \in Inbound : Told(s)} \cup {s \in Outbound : consumer[s] = "done" /\ s \in closed}

PipeOf == INSTANCE Pipe WITH Streams <- AllStreams
ImplementsPipe == PipeOf!Spec

(***************************************************************************)
(* Backpressure: however the reader and processEvents interleave, no more  *)
(* than highWaterMark chunks are buffered, and one for the end.            *)
(***************************************************************************)
Backpressure ==
    \A s \in Inbound : Len(chunks[s]) <= HighWater + (IF reader[s] = "exit" THEN 1 ELSE 0)

(***************************************************************************)
(* A stream nobody works on any more - its reader or its HTTP handler has  *)
(* returned and nothing is left to deliver - stays in streamManager, where *)
(* it keeps the event loop alive (hasActive), in two cases only: it was    *)
(* cancelled, or it belongs to a response that came too late for its       *)
(* request, which stop had answered already (bunServerState.respond).      *)
(***************************************************************************)
Unserved(s)  == s \in Outbound /\ consumer[s] = "unserved"
Abandoned(s) ==
    IF s \in Inbound THEN reader[s] = "exit" /\ chunks[s] = <<>>
                     ELSE consumer[s] \in {"unserved", "failed", "done", "lost"}
OnlyCancelledLinger == \A s \in inMap : Abandoned(s) => s \in cancelled \/ Unserved(s)

(***************************************************************************)
(* doneCh is closed by the pump, by the HTTP handler or by closeAll: a     *)
(* second close, which panics whoever comes second, closeAll included,     *)
(* needs a Close of the runtime (closeAll does not take s.mu, closeStream  *)
(* and cancelStream do).                                                   *)
(***************************************************************************)
OnlyCloseCrashes == crashed => life # "open"

(***************************************************************************)
(* A wait can end.  A reader that waits for room is cancelled, or the      *)
(* event loop still lists its stream and has chunks to take from it, or    *)
(* has left a token.  The engine goroutine in a write to a full channel is *)
(* cancelled, or an HTTP handler has the response and will come back to    *)
(* the loop that empties the channel - unless no handler has it: the pump  *)
(* filled the channel before its response could be handed over, or after   *)
(* that came too late (Stuck).  Then only a Close can end the write.       *)
(***************************************************************************)
Served(s) == consumer[s] \notin {"none", "unserved"}
WaitsCanEnd ==
    /\ \A s \in Inbound : reader[s] = "blocked" =>
         \/ s \in cancelled
         \/ s \in inMap /\ (s \in drain \/ Len(chunks[s]) >= HighWater)
    /\ \A s \in Outbound : engine = [op |-> "write", on |-> s] /\ Served(s) =>
         \/ s \in cancelled
         \/ s \in inMap /\ consumer[s] \in {"handed", "loop", "writing"}

(***************************************************************************)
(* A reader whose stream is cancelled ends, and closes the body it reads,  *)
(* also when it waits for room (createGoToJS).                             *)
(***************************************************************************)
CancelEndsReader ==
    \A s \in Inbound : (s \in cancelled) ~> (reader[s] = "exit" \/ crashed)

(* The engine goroutine waits for good: in a write to a channel no HTTP      *)
(* handler reads, or one whose handler itself waits for its client for ever. *)
Stuck   == engine.op = "write" /\ ~Served(engine.on)
Stalled == <>[](engine.op = "write" /\ consumer[engine.on] = "writing")

(***************************************************************************)
(* A reader that waits for room goes on once the event loop has taken its  *)
(* chunks: the token that processEvents leaves in the drain channel is not *)
(* lost, and a stale one does not make the reader wait for ever.  Excepted *)
(* is an engine goroutine that waits for good.                             *)
(***************************************************************************)
RoomEndsWait ==
    \/ Stalled
    \/ \A s \in Inbound :
        (reader[s] = "blocked") ~> (reader[s] # "blocked" \/ Stuck \/ crashed \/ life = "down")

(***************************************************************************)
(* A body that has been read to its end reaches the script, which is told  *)
(* of the end, unless the script gave it up, the runtime is closed, or the *)
(* engine goroutine waits for good in a write.                             *)
(***************************************************************************)
GivenUp(s) == s \notin pending \cup controllers /\ given[s] = <<>>
EndReachesScript ==
    \/ Stalled
    \/ \A s \in Inbound :
        (reader[s] = "exit")
            ~> (Told(s) \/ s \in cancelled \/ GivenUp(s) \/ Stuck \/ crashed \/ life # "open")

(***************************************************************************)
(* A write that waits for room in dataCh, and with it the engine goroutine, *)
(* goes on once an HTTP handler has the response, also if the connection   *)
(* of that handler breaks (writeToStream, cancelStream) - unless the       *)
(* client neither reads nor hangs up: the server has no WriteTimeout, and  *)
(* the engine goroutine waits as long as that client keeps the handler.    *)
(***************************************************************************)
WriteFreed ==
    \A s \in Outbound :
        \/ <>[](consumer[s] = "writing")
        \/ (engine = [op |-> "write", on |-> s] /\ Served(s))
              ~> (engine # [op |-> "write", on |-> s] \/ crashed)
=============================================================================
