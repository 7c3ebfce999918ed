------------------------------ MODULE Streams ------------------------------
(***************************************************************************)
(* Streams between Go and JavaScript (streambridge.go), with the two users *)
(* the runtime has for them.                                               *)
(*   Inbound streams carry the body of a response to fetch (fetch.go): a   *)
(*   goroutine reads it into s.chunks and waits when too many are buffered;*)
(*   the event loop takes them to a ReadableStream controller in           *)
(*   JavaScript, or to a buffer if there is no controller yet.             *)
(*   Outbound streams carry the body of a response of Ramune.serve         *)
(*   (buncompat.go): a pump in JavaScript writes to the channel dataCh, and*)
(*   the goroutine of the HTTP handler writes what it finds there to the   *)
(*   connection, until doneCh is closed.                                   *)
(* JavaScript runs on the engine goroutine only (module Engine); the       *)
(* readers, the handlers and Close run on goroutines of their own.         *)
(***************************************************************************)
EXTENDS Naturals, Sequences

CONSTANTS
    Inbound, Outbound,  \* streams of either direction
    HighWater,          \* highWaterMark: chunks buffered before the reader waits (8)
    DataCap,            \* capacity of dataCh (16)
    Bound,              \* bound: chunks the source of a stream has at most
    None

ASSUME StreamsAssumption ==
    /\ Inbound \cap Outbound = {}
    /\ None \notin Inbound \cup Outbound
    /\ HighWater \in Nat \ {0} /\ DataCap \in Nat \ {0} /\ Bound \in Nat

VARIABLES
    life,        \* of the runtime: "open", "closing" (closeAll runs), "released", "down"
    closer,      \* the stream whose doneCh closeAll has found open and will close, or None
    crashed,     \* a panic has ended the process
    engine,      \* what the engine goroutine is in the middle of, and on which stream
    handling,    \* the response the request handler is about to hand over, or None
    inMap,       \* streamManager.streams
    cancelled,   \* streams whose context is done
    closed,      \* s.closed
    \* inbound
    reader,      \* where the goroutine that reads the source is
    nread,       \* how many chunks it has read
    chunks,      \* s.chunks
    drain,       \* streams whose drain channel holds its token
    headers,     \* responses: "none", "due" (stream made), "queued", "delivered"
    pending,     \* __fetchPending: responses JavaScript still waits for
    controllers, \* __streamControllers
    buffered,    \* __streamBuffered
    given,       \* what the controller of each stream has been given
    \* outbound
    pump,        \* __streamPumpToGo: "none", "pumping", "ended"
    nwritten,    \* how many chunks it has written
    dataCh,
    doneCh,      \* streams whose doneCh is closed
    consumer,    \* where the goroutine of the HTTP handler is
    out          \* what it has written to its connection

inVars      == <<reader, nread, chunks, drain, headers>>
jsVars      == <<pending, controllers, buffered, given>>
outVars     == <<pump, nwritten, dataCh, doneCh, consumer, out>>
managerVars == <<inMap, cancelled, closed>>
vars == <<life, closer, crashed, engine, handling, managerVars, inVars, jsVars, outVars>>

(* Chunks are numbered as they are read or written.  The last one of an      *)
(* inbound stream says that it is done, or that reading failed.              *)
End == 0

NotBusy == [op |-> "none", on |-> None]
Ops     == {"write", "close", "cancel"}

TypeOK ==
    /\ life \in {"open", "closing", "released", "down"} /\ crashed \in BOOLEAN
    /\ closer \in Outbound \cup {None}
    /\ engine \in [op : Ops, on : Inbound \cup Outbound] \cup {NotBusy}
    /\ handling \in Outbound \cup {None}
    /\ inMap \subseteq Inbound \cup Outbound
    /\ cancelled \subseteq Inbound \cup Outbound
    /\ closed \subseteq Inbound \cup Outbound
    /\ reader \in [Inbound -> {"none", "top", "read", "eof", "blocked", "ending", "exit"}]
    /\ nread \in [Inbound -> 0..Bound]
    /\ chunks \in [Inbound -> Seq(Nat)] /\ buffered \in [Inbound -> Seq(Nat)]
    /\ given \in [Inbound -> Seq(Nat)]
    /\ drain \subseteq Inbound /\ pending \subseteq Inbound /\ controllers \subseteq Inbound
    /\ headers \in [Inbound -> {"none", "due", "queued", "delivered"}]
    /\ pump \in [Outbound -> {"none", "pumping", "ended"}]
    /\ nwritten \in [Outbound -> 0..Bound]
    /\ dataCh \in [Outbound -> Seq(Nat)] /\ out \in [Outbound -> Seq(Nat)]
    /\ doneCh \subseteq Outbound
    /\ \A s \in Outbound : Len(dataCh[s]) <= DataCap
    /\ consumer \in [Outbound -> {"none", "unserved", "handed", "loop", "writing", "cancel", "closing",
                                  "failed", "drain", "drainLost", "done", "lost"}]

Init ==
    /\ life = "open" /\ closer = None /\ crashed = FALSE
    /\ engine = NotBusy /\ handling = None
    /\ inMap = {} /\ cancelled = {} /\ closed = {}
    /\ reader = [s \in Inbound |-> "none"]
    /\ nread = [s \in Inbound |-> 0]
    /\ chunks = [s \in Inbound |-> <<>>]
    /\ drain = {}
    /\ headers = [s \in Inbound |-> "none"]
    /\ pending = Inbound
    /\ controllers = {}
    /\ buffered = [s \in Inbound |-> <<>>]
    /\ given = [s \in Inbound |-> <<>>]
    /\ pump = [s \in Outbound |-> "none"]
    /\ nwritten = [s \in Outbound |-> 0]
    /\ dataCh = [s \in Outbound |-> <<>>]
    /\ doneCh = {}
    /\ consumer = [s \in Outbound |-> "none"]
    /\ out = [s \in Outbound |-> <<>>]

runtimeVars == <<life, closer, crashed, engine, handling>>

(* JavaScript runs: a piece of it between two calls into Go.  While a request *)
(* handler is running, events are not delivered.                              *)
JsFree == engine = NotBusy /\ life # "down"
Tick   == JsFree /\ handling = None

(* closeAll holds sm.mu as long as it runs: nobody else looks a stream up,   *)
(* registers one or removes one meanwhile.                                   *)
Unlocked == life # "closing"

-----------------------------------------------------------------------------
(* The goroutine of a request, once there is a response. *)

(* createGoToJS of the body starts its reader. *)
Responds(s) ==
    /\ headers[s] = "none" /\ Unlocked
    /\ headers' = [headers EXCEPT ![s] = "due"]
    /\ inMap' = inMap \cup {s}
    /\ reader' = [reader EXCEPT ![s] = "top"]
    /\ UNCHANGED <<runtimeVars, cancelled, closed, nread, chunks, drain, jsVars, outVars>>

QueueHeaders(s) ==
    /\ headers[s] = "due"
    /\ headers' = [headers EXCEPT ![s] = "queued"]
    /\ UNCHANGED <<runtimeVars, managerVars, reader, nread, chunks, drain, jsVars, outVars>>

-----------------------------------------------------------------------------
(* The reader of an inbound stream. *)

ReaderTo(s, l) == reader' = [reader EXCEPT ![s] = l]
quiet == <<runtimeVars, inMap, cancelled, headers, jsVars, outVars>>

(* Variant: the reader goes on with one chunk more. *)
ReaderTopOver(s) ==
    /\ reader[s] = "top"
    /\ ReaderTo(s, IF s \in cancelled THEN "ending"
                   ELSE IF Len(chunks[s]) <= HighWater THEN "read" ELSE "blocked")
    /\ UNCHANGED <<quiet, closed, nread, chunks, drain>>

(* The loop looks at the context, then at how much is buffered. *)
ReaderTop(s) ==
    /\ reader[s] = "top"
    /\ ReaderTo(s, IF s \in cancelled THEN "ending"
                   ELSE IF Len(chunks[s]) < HighWater THEN "read" ELSE "blocked")
    /\ UNCHANGED <<quiet, closed, nread, chunks, drain>>

(* The context was done: unless the stream is closed already, it is now. *)
ReaderEnding(s) ==
    /\ reader[s] = "ending"
    /\ closed' = closed \cup {s}
    /\ chunks' = IF s \in closed THEN chunks ELSE [chunks EXCEPT ![s] = Append(@, End)]
    /\ ReaderTo(s, "exit")
    /\ UNCHANGED <<quiet, nread, drain>>

(* Backpressure: the token of drain, after which the reader looks at the     *)
(* buffer again, or the end of the context, on which it just returns.        *)
Drained(s) ==
    /\ reader[s] = "blocked" /\ s \in drain
    /\ drain' = drain \ {s}
    /\ ReaderTo(s, IF Len(chunks[s]) < HighWater THEN "read" ELSE "blocked")
    /\ UNCHANGED <<quiet, closed, nread, chunks>>

(* Variant: the wait for room ignores the context. *)
BlockedNoCancel(s) == FALSE /\ UNCHANGED vars

BlockedCancelled(s) ==
    /\ reader[s] = "blocked" /\ s \in cancelled
    /\ ReaderTo(s, "exit")
    /\ UNCHANGED <<quiet, closed, nread, chunks, drain>>

(* Read returns a chunk, and may return the end or an error with it. *)
ReadChunk(s) ==
    /\ reader[s] = "read" /\ nread[s] < Bound
    /\ nread' = [nread EXCEPT ![s] = @ + 1]
    /\ chunks' = [chunks EXCEPT ![s] = Append(@, nread'[s])]
    /\ ReaderTo(s, "top") \/ ReaderTo(s, "eof")
    /\ UNCHANGED <<quiet, closed, drain>>

(* Variant: the final chunk is queued before the stream is marked closed. *)
ReadEndUnclosed(s) ==
    /\ reader[s] \in {"read", "eof"}
    /\ chunks' = [chunks EXCEPT ![s] = Append(@, End)]
    /\ ReaderTo(s, "exit")
    /\ UNCHANGED <<quiet, closed, nread, drain>>

(* Read returns io.EOF or an error: the server's, or that the context of the *)
(* request is over, which its goroutine cancels when it has queued the       *)
(* headers.                                                                  *)
ReadEnd(s) ==
    /\ reader[s] \in {"read", "eof"}
    /\ closed' = closed \cup {s}
    /\ chunks' = [chunks EXCEPT ![s] = Append(@, End)]
    /\ ReaderTo(s, "exit")
    /\ UNCHANGED <<quiet, nread, drain>>

-----------------------------------------------------------------------------
(* JavaScript and the inbound streams. *)

(* What a controller takes of a list of chunks: it stops at the end. *)
HasEnd(q) == \E i \in DOMAIN q : q[i] = End
Cut(q) ==
    IF HasEnd(q)
      THEN SubSeq(q, 1, CHOOSE i \in DOMAIN q : q[i] = End /\ \A j \in 1..(i - 1) : q[j] # End)
      ELSE q

(* Variant: what was buffered is not handed over. *)
DeliverHeadersOnly ==
    LET H == {s \in Inbound : headers[s] = "queued"}
    IN  /\ Tick /\ H # {}
        /\ headers' = [s \in Inbound |-> IF s \in H THEN "delivered" ELSE headers[s]]
        /\ pending' = pending \ H
        /\ controllers' = controllers \cup (H \cap pending)
        /\ UNCHANGED <<runtimeVars, managerVars, reader, nread, chunks, drain, buffered, given, outVars>>

(* fetchManager.processEvents: each response still waited for gets a stream  *)
(* whose controller is registered, and is given what came before it.         *)
DeliverHeaders ==
    LET H == {s \in Inbound : headers[s] = "queued"}
        R == H \cap pending
    IN  /\ Tick /\ H # {}
        /\ headers' = [s \in Inbound |-> IF s \in H THEN "delivered" ELSE headers[s]]
        /\ pending' = pending \ H
        /\ controllers' = controllers \cup {s \in R : ~HasEnd(buffered[s])}
        /\ given' = [s \in Inbound |-> IF s \in R THEN given[s] \o Cut(buffered[s]) ELSE given[s]]
        /\ buffered' = [s \in Inbound |-> IF s \in R THEN <<>> ELSE buffered[s]]
        /\ UNCHANGED <<runtimeVars, managerVars, reader, nread, chunks, drain, outVars>>

(* Variant: the reader is not told that there is room again. *)
ProcessEventsNoDrain ==
    LET T == {s \in inMap \cap Inbound : chunks[s] # <<>>}
    IN  /\ Tick /\ Unlocked /\ T # {}
        /\ chunks' = [s \in Inbound |-> IF s \in T THEN <<>> ELSE chunks[s]]
        /\ inMap' = inMap \ (T \cap closed)
        /\ given' = [s \in Inbound |-> IF s \in T \cap controllers THEN given[s] \o Cut(chunks[s]) ELSE given[s]]
        /\ buffered' = [s \in Inbound |-> IF s \in T \ controllers THEN buffered[s] \o chunks[s] ELSE buffered[s]]
        /\ controllers' = controllers \ {s \in T : HasEnd(chunks[s])}
        /\ UNCHANGED <<runtimeVars, cancelled, closed, reader, nread, drain, headers, pending, outVars>>

(* streamManager.processEvents: the chunks of all streams are taken, streams *)
(* that are closed forgotten, and the chunks given to the controllers, or    *)
(* buffered for those still to come.                                         *)
ProcessEvents ==
    LET T == {s \in inMap \cap Inbound : chunks[s] # <<>>}
    IN  /\ Tick /\ Unlocked /\ T # {}
        /\ chunks' = [s \in Inbound |-> IF s \in T THEN <<>> ELSE chunks[s]]
        /\ drain' = drain \cup T
        /\ inMap' = inMap \ (T \cap closed)
        /\ given' = [s \in Inbound |-> IF s \in T \cap controllers THEN given[s] \o Cut(chunks[s]) ELSE given[s]]
        /\ buffered' = [s \in Inbound |-> IF s \in T \ controllers THEN buffered[s] \o chunks[s] ELSE buffered[s]]
        /\ controllers' = controllers \ {s \in T : HasEnd(chunks[s])}
        /\ UNCHANGED <<runtimeVars, cancelled, closed, reader, nread, headers, pending, outVars>>

(* The script aborts the request before its headers are there. *)
Abort(s) ==
    /\ JsFree /\ s \in pending
    /\ pending' = pending \ {s}
    /\ UNCHANGED <<runtimeVars, managerVars, inVars, controllers, buffered, given, outVars>>

(* The script cancels the body: cancelStream ends the context, and marks the *)
(* stream closed in a second step.                                           *)
CancelBody(s) ==
    /\ JsFree /\ Unlocked /\ s \in controllers
    /\ controllers' = controllers \ {s}
    /\ buffered' = [buffered EXCEPT ![s] = <<>>]
    /\ IF s \in inMap
         THEN cancelled' = cancelled \cup {s} /\ engine' = [op |-> "cancel", on |-> s]
         ELSE UNCHANGED <<cancelled, engine>>
    /\ UNCHANGED <<life, closer, crashed, handling, inMap, closed, inVars, pending, given, outVars>>

CancelLock ==
    /\ engine.op = "cancel"
    /\ closed' = closed \cup {engine.on}
    /\ engine' = NotBusy
    /\ UNCHANGED <<life, closer, crashed, handling, inMap, cancelled, inVars, jsVars, outVars>>

-----------------------------------------------------------------------------
(* The request handler and the pump of an outbound stream. *)

outQuiet == <<life, closer, crashed, handling, cancelled, inVars, jsVars>>

(* The handler returns a Response with a stream: __bunExtract creates the    *)
(* stream and starts its pump, which may write before the response is handed *)
(* over.                                                                     *)
Handles(s) ==
    /\ Tick /\ Unlocked /\ pump[s] = "none"
    /\ pump' = [pump EXCEPT ![s] = "pumping"]
    /\ inMap' = inMap \cup {s}
    /\ handling' = s
    /\ UNCHANGED <<life, closer, crashed, engine, cancelled, closed, inVars, jsVars,
                   nwritten, dataCh, doneCh, consumer, out>>

(* respond: the HTTP handler gets the response, unless the server has been   *)
(* stopped and its request answered by that: then nobody will ever read the  *)
(* stream or remove it.                                                      *)
HandOver(s) ==
    /\ JsFree /\ handling = s
    /\ handling' = None
    /\ \/ consumer' = [consumer EXCEPT ![s] = "handed"]
       \/ consumer' = [consumer EXCEPT ![s] = "unserved"]
    /\ UNCHANGED <<life, closer, crashed, engine, managerVars, inVars, jsVars, pump, nwritten, dataCh, doneCh, out>>

Put(s) ==
    /\ nwritten' = [nwritten EXCEPT ![s] = @ + 1]
    /\ dataCh' = [dataCh EXCEPT ![s] = Append(@, nwritten'[s])]

(* __go_stream_close at the end of the pump, or when a write has failed:     *)
(* closeStream looks the stream up, and takes s.mu in a second step.         *)
Closes(s) ==
    /\ pump' = [pump EXCEPT ![s] = "ended"]
    /\ engine' = IF s \in inMap THEN [op |-> "close", on |-> s] ELSE NotBusy

(* Variant: a channel with room for one chunk more. *)
PumpWriteOver(s) ==
    /\ JsFree /\ Unlocked /\ pump[s] = "pumping" /\ nwritten[s] < Bound
    /\ \/ s \notin inMap /\ Closes(s) /\ UNCHANGED <<nwritten, dataCh>>
       \/ s \in inMap /\ Len(dataCh[s]) <= DataCap /\ Put(s) /\ UNCHANGED <<engine, pump>>
       \/ s \in inMap /\ s \in cancelled /\ Closes(s) /\ UNCHANGED <<nwritten, dataCh>>
       \/ /\ s \in inMap /\ Len(dataCh[s]) > DataCap
          /\ engine' = [op |-> "write", on |-> s]
          /\ UNCHANGED <<pump, nwritten, dataCh>>
    /\ UNCHANGED <<outQuiet, inMap, closed, doneCh, consumer, out>>

(* writeToStream: a stream that is not there, room in the channel, a context *)
(* that is done, or the engine goroutine waits for one of the two.           *)
PumpWrite(s) ==
    /\ JsFree /\ Unlocked /\ pump[s] = "pumping" /\ nwritten[s] < Bound
    /\ \/ s \notin inMap /\ Closes(s) /\ UNCHANGED <<nwritten, dataCh>>
       \/ s \in inMap /\ Len(dataCh[s]) < DataCap /\ Put(s) /\ UNCHANGED <<engine, pump>>
       \/ s \in inMap /\ s \in cancelled /\ Closes(s) /\ UNCHANGED <<nwritten, dataCh>>
       \/ /\ s \in inMap /\ s \notin cancelled /\ Len(dataCh[s]) >= DataCap
          /\ engine' = [op |-> "write", on |-> s]
          /\ UNCHANGED <<pump, nwritten, dataCh>>
    /\ UNCHANGED <<outQuiet, inMap, closed, doneCh, consumer, out>>

WriteDone(s) ==
    /\ engine = [op |-> "write", on |-> s] /\ Len(dataCh[s]) < DataCap
    /\ Put(s)
    /\ engine' = NotBusy
    /\ UNCHANGED <<outQuiet, inMap, closed, pump, doneCh, consumer, out>>

(* Variant: a write that waits does not look at the context. *)
WriteFailsNever(s) == FALSE /\ UNCHANGED vars

WriteFails(s) ==
    /\ engine = [op |-> "write", on |-> s] /\ s \in cancelled /\ Unlocked
    /\ Closes(s)
    /\ UNCHANGED <<outQuiet, inMap, closed, nwritten, dataCh, doneCh, consumer, out>>

PumpEnds(s) ==
    /\ JsFree /\ Unlocked /\ pump[s] = "pumping"
    /\ Closes(s)
    /\ UNCHANGED <<outQuiet, inMap, closed, nwritten, dataCh, doneCh, consumer, out>>

(* Variant: closeStream closes doneCh whatever s.closed says. *)
CloseLockBlind(s) ==
    /\ engine = [op |-> "close", on |-> s]
    /\ engine' = NotBusy
    /\ closed' = closed \cup {s}
    /\ doneCh' = doneCh \cup {s}
    /\ crashed' = (s \in doneCh)
    /\ UNCHANGED <<life, closer, handling, inMap, cancelled, inVars, jsVars, pump, nwritten, dataCh, consumer, out>>

(* closeStream under s.mu; a second close of the channel is a panic. *)
CloseLock(s) ==
    /\ engine = [op |-> "close", on |-> s]
    /\ engine' = NotBusy
    /\ closed' = closed \cup {s}
    /\ doneCh' = IF s \in closed THEN doneCh ELSE doneCh \cup {s}
    /\ crashed' = (s \notin closed /\ s \in doneCh)
    /\ UNCHANGED <<life, closer, handling, inMap, cancelled, inVars, jsVars, pump, nwritten, dataCh, consumer, out>>

-----------------------------------------------------------------------------
(* The goroutine of the HTTP handler: writeResponse. *)

ConsumerTo(s, l) == consumer' = [consumer EXCEPT ![s] = l]
handlerQuiet == <<life, closer, engine, handling, inVars, jsVars, pump, nwritten>>

GetStream(s) ==
    /\ consumer[s] = "handed" /\ Unlocked
    /\ ConsumerTo(s, IF s \in inMap THEN "loop" ELSE "failed")
    /\ UNCHANGED <<handlerQuiet, crashed, managerVars, dataCh, doneCh, out>>

Take(s) == dataCh[s] # <<>> /\ dataCh' = [dataCh EXCEPT ![s] = Tail(@)]

(* A chunk is taken and written to the connection, for as long as that takes. *)
Takes(s) ==
    /\ consumer[s] = "loop" /\ Take(s)
    /\ out' = [out EXCEPT ![s] = Append(@, Head(dataCh[s]))]
    /\ ConsumerTo(s, "writing")
    /\ UNCHANGED <<handlerQuiet, crashed, managerVars, doneCh>>

Written(s) ==
    /\ consumer[s] = "writing"
    /\ ConsumerTo(s, "loop")
    /\ UNCHANGED <<handlerQuiet, crashed, managerVars, dataCh, doneCh, out>>

(* The write fails: cancelStream looks the stream up and ends its context,   *)
(* and marks the stream closed in a second step.                             *)
WriteBreaks(s) ==
    /\ consumer[s] = "writing" /\ Unlocked
    /\ ConsumerTo(s, IF s \in inMap THEN "cancel" ELSE "failed")
    /\ cancelled' = cancelled \cup ({s} \cap inMap)
    /\ UNCHANGED <<handlerQuiet, crashed, inMap, closed, dataCh, doneCh, out>>

(* cancelStream under s.mu: it closes doneCh unless it finds it closed.      *)
ConsumerLock(s) ==
    /\ consumer[s] = "cancel"
    /\ closed' = closed \cup {s}
    /\ ConsumerTo(s, IF s \in closed \cup doneCh THEN "failed" ELSE "closing")
    /\ UNCHANGED <<handlerQuiet, crashed, inMap, cancelled, dataCh, doneCh, out>>

(* closeAll, which does not take s.mu, may have closed it meanwhile: a panic. *)
ConsumerCloses(s) ==
    /\ consumer[s] = "closing"
    /\ crashed' = (s \in doneCh)
    /\ doneCh' = doneCh \cup {s}
    /\ ConsumerTo(s, "failed")
    /\ UNCHANGED <<handlerQuiet, managerVars, dataCh, out>>

SeesDone(s) ==
    /\ consumer[s] = "loop" /\ s \in doneCh
    /\ ConsumerTo(s, "drain")
    /\ UNCHANGED <<handlerQuiet, crashed, managerVars, dataCh, doneCh, out>>

(* What is left in dataCh is written too; errors are not looked at. *)
Drains(s) ==
    /\ consumer[s] \in {"drain", "drainLost"} /\ Take(s)
    /\ \/ /\ consumer[s] = "drain"
          /\ out' = [out EXCEPT ![s] = Append(@, Head(dataCh[s]))]
          /\ UNCHANGED consumer
       \/ ConsumerTo(s, "drainLost") /\ UNCHANGED out
    /\ UNCHANGED <<handlerQuiet, crashed, managerVars, doneCh>>

(* Variant: the handler leaves as soon as doneCh is closed. *)
RemovesEarly(s) ==
    /\ consumer[s] \in {"drain", "drainLost"} /\ Unlocked
    /\ ConsumerTo(s, IF consumer[s] = "drain" THEN "done" ELSE "lost")
    /\ inMap' = inMap \ {s}
    /\ cancelled' = cancelled \cup (inMap \cap {s})
    /\ UNCHANGED <<handlerQuiet, crashed, closed, dataCh, doneCh, out>>

(* The channel is empty: removeStream, and the response is complete. *)
Removes(s) ==
    /\ consumer[s] \in {"drain", "drainLost"} /\ dataCh[s] = <<>> /\ Unlocked
    /\ ConsumerTo(s, IF consumer[s] = "drain" THEN "done" ELSE "lost")
    /\ inMap' = inMap \ {s}
    /\ cancelled' = cancelled \cup (inMap \cap {s})
    /\ UNCHANGED <<handlerQuiet, crashed, closed, dataCh, doneCh, out>>

-----------------------------------------------------------------------------
(* Close of the runtime.  closeAll runs on the goroutine of its caller, also *)
(* while JavaScript runs; the engine goroutine ends between two pieces of    *)
(* JavaScript.  The qjswasm backend does not call closeAll.                  *)
closeQuiet == <<crashed, engine, handling, closed, inVars, jsVars, pump, nwritten, dataCh, consumer, out>>

CloseAllBegins ==
    /\ life = "open"
    /\ life' = "closing"
    /\ UNCHANGED <<closeQuiet, closer, inMap, cancelled, doneCh>>

(* Each stream is cancelled, and forgotten unless its doneCh has to be closed. *)
CloseAllCancels(s) ==
    /\ life = "closing" /\ closer = None /\ s \in inMap
    /\ cancelled' = cancelled \cup {s}
    /\ IF s \in Outbound \ doneCh
         THEN closer' = s /\ UNCHANGED inMap
         ELSE inMap' = inMap \ {s} /\ UNCHANGED closer
    /\ UNCHANGED <<closeQuiet, life, doneCh>>

(* s.mu is not held: somebody else may have closed it since, and this panics. *)
CloseAllCloses ==
    /\ closer # None
    /\ crashed' = (closer \in doneCh)
    /\ doneCh' = doneCh \cup {closer}
    /\ inMap' = inMap \ {closer}
    /\ closer' = None
    /\ UNCHANGED <<life, engine, handling, cancelled, closed, inVars, jsVars, pump, nwritten, dataCh, consumer, out>>

CloseAllEnds ==
    /\ life = "closing" /\ closer = None /\ inMap = {}
    /\ life' = "released"
    /\ UNCHANGED <<closeQuiet, closer, inMap, cancelled, doneCh>>

Down ==
    /\ Tick /\ Unlocked
    /\ life' = "down"
    /\ UNCHANGED <<closer, crashed, engine, handling, managerVars, inVars, jsVars, outVars>>

-----------------------------------------------------------------------------
Reads(s) == ReadChunk(s) \/ ReadEnd(s)

Reader(s) == ReaderTop(s) \/ ReaderEnding(s) \/ Drained(s) \/ BlockedCancelled(s) \/ Reads(s)

(* What the HTTP handler does by itself; its connection does the rest. *)
Consumer(s) ==
    \/ GetStream(s) \/ Takes(s) \/ ConsumerLock(s) \/ ConsumerCloses(s)
    \/ SeesDone(s) \/ Removes(s)
Connection(s) == Written(s) \/ WriteBreaks(s) \/ Drains(s)

InGo(s) == WriteDone(s) \/ WriteFails(s) \/ CloseLock(s)

CloseAll ==
    \/ CloseAllBegins \/ CloseAllCloses \/ CloseAllEnds
    \/ \E s \in Inbound \cup Outbound : CloseAllCancels(s)

Next ==
    /\ ~crashed
    /\ \/ \E s \in Inbound : Responds(s) \/ QueueHeaders(s) \/ Reader(s) \/ Abort(s) \/ CancelBody(s)
       \/ DeliverHeaders \/ ProcessEvents \/ CancelLock
       \/ \E s \in Outbound :
            \/ Handles(s) \/ HandOver(s) \/ PumpWrite(s) \/ PumpEnds(s) \/ InGo(s)
            \/ Consumer(s) \/ Connection(s)
       \/ CloseAll \/ Down

Spec == Init /\ [][Next]_vars

(* Somebody drives the loop; a Read returns, since a request has a timeout;  *)
(* goroutines go on, and a call into Go ends when it can.  What scripts,     *)
(* servers and clients do is not fair: the server sets no WriteTimeout, so a *)
(* write to a client that neither reads nor hangs up may never return.       *)
Fairness ==
    /\ WF_vars(~crashed /\ DeliverHeaders) /\ WF_vars(~crashed /\ ProcessEvents)
    /\ WF_vars(~crashed /\ CancelLock)
    /\ WF_vars(~crashed /\ life = "closing" /\ CloseAll)
    /\ \A s \in Inbound :
         /\ WF_vars(~crashed /\ QueueHeaders(s))
         /\ WF_vars(~crashed /\ Reader(s))
    /\ \A s \in Outbound :
         /\ WF_vars(~crashed /\ HandOver(s))
         /\ WF_vars(~crashed /\ InGo(s))
         /\ WF_vars(~crashed /\ Consumer(s))

FairSpec == Spec /\ Fairness
=============================================================================
