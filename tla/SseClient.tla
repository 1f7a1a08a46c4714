------------------------------ MODULE SseClient -----------------------------
(***************************************************************************)
(* The stream of server-sent events of the TypeScript SDK                  *)
(* (clients/ts/src/generated/core/serverSentEvents.gen.ts,                 *)
(* createSseClient): it connects, yields the events, and connects again    *)
(* after an error, from the last id it has seen.  Events are numbered; the *)
(* server (external) resumes after the id it is told.  A chunk of the body *)
(* holds some whole events; the rest of it is in the buffer, and lost with *)
(* the connection.                                                         *)
(***************************************************************************)
EXTENDS Naturals, Sequences, FiniteSetsExt

CONSTANTS
    Events,         \* the number of events
    MaxChunk,       \* bound: whole events in a chunk
    MaxAttempts,    \* sseMaxRetryAttempts, when it is given
    CountedAttempts \* bound: attempts that are counted when it is not

VARIABLES
    stream,     \* the generator
    seen,       \* the events it has yielded or refused
    feed        \* the server's side, and whether the caller has aborted

sseVars == <<stream, seen, feed>>

(***************************************************************************)
(* A stream is at the top of its loop, connecting, open, sleeping or       *)
(* ended; chunk: the events that were read and wait for their turn.  named *)
(* has the events with an id, bad those responseValidator throws on.       *)
(***************************************************************************)
SseInit ==
    /\ stream = [at |-> "top", attempt |-> 0, lastEventId |-> 0, chunk |-> <<>>]
    /\ seen = {}
    /\ \E named, bad \in SUBSET (1 .. Events), limited \in BOOLEAN :
         feed = [named |-> named, bad |-> bad, limited |-> limited, pos |-> 0, aborted |-> FALSE]

----------------------------------------------------------------------------

\* A plausible slip: an abort is not looked for between attempts.
LoopDeaf ==
    /\ stream.at = "top"
    /\ stream' = [stream EXCEPT !.at = "connecting",
                                !.attempt = IF feed.limited \/ @ < CountedAttempts THEN @ + 1 ELSE @]
    /\ UNCHANGED <<seen, feed>>

\* The top of the loop.
loop ==
    /\ stream.at = "top"
    /\ stream' = IF feed.aborted THEN [stream EXCEPT !.at = "ended"]
                 ELSE [stream EXCEPT
                         !.at = "connecting",
                         !.attempt = IF feed.limited \/ @ < CountedAttempts THEN @ + 1 ELSE @]
    /\ UNCHANGED <<seen, feed>>

\* A plausible slip: the request does not say where to go on.
ConnectAfresh ==
    /\ stream.at = "connecting"
    /\ stream' = [stream EXCEPT !.at = "open"]
    /\ feed' = [feed EXCEPT !.pos = 0]
    /\ UNCHANGED seen

\* The request, with its Last-Event-ID, is answered by a stream.
connect ==
    /\ stream.at = "connecting"
    /\ stream' = [stream EXCEPT !.at = "open"]
    /\ feed' = [feed EXCEPT !.pos = stream.lastEventId]
    /\ UNCHANGED seen

\* A plausible slip: one attempt too many.
CatchErrorLate(s) ==
    [s EXCEPT !.at = IF feed.limited /\ s.attempt > MaxAttempts THEN "ended" ELSE "sleeping",
              !.chunk = <<>>]

\* The catch of the loop.
catchError(s) ==
    [s EXCEPT !.at = IF feed.limited /\ s.attempt >= MaxAttempts THEN "ended" ELSE "sleeping",
              !.chunk = <<>>]

\* The request fails, or is aborted; or the connection is lost between chunks.
connectionError ==
    /\ stream.at \in {"connecting", "open"} /\ stream.chunk = <<>>
    /\ stream' = catchError(stream)
    /\ UNCHANGED <<seen, feed>>

\* A plausible slip: the ids are taken from the chunk before its events are
\* looked at.
ReadAhead(n) ==
    LET chunk == [k \in 1 .. n |-> feed.pos + k]
    IN  /\ stream.at = "open" /\ stream.chunk = <<>>
        /\ feed.pos + n <= Events
        /\ stream' = [stream EXCEPT !.chunk = chunk,
                                    !.lastEventId = Max({@} \cup ({chunk[k] : k \in 1 .. n} \cap feed.named))]
        /\ feed' = [feed EXCEPT !.pos = @ + n]
        /\ UNCHANGED seen

\* reader.read: a chunk with n whole events.
read(n) ==
    /\ stream.at = "open" /\ stream.chunk = <<>>
    /\ feed.pos + n <= Events
    /\ stream' = [stream EXCEPT !.chunk = [k \in 1 .. n |-> feed.pos + k]]
    /\ feed' = [feed EXCEPT !.pos = @ + n]
    /\ UNCHANGED seen

\* One event of the chunk: its id is kept, the validator looks at its data, and
\* it is yielded.  When the validator throws, the rest of the chunk is lost.
event ==
    LET k == Head(stream.chunk)
        s == IF k \in feed.named THEN [stream EXCEPT !.lastEventId = k] ELSE stream
    IN  /\ stream.at = "open" /\ stream.chunk # <<>>
        /\ stream' = IF k \in feed.bad THEN catchError(s) ELSE [s EXCEPT !.chunk = Tail(@)]
        /\ seen' = seen \cup {k}
        /\ UNCHANGED feed

\* read says done: the server has closed the stream, or the abort handler has
\* cancelled the reader.  Either way this is the end.
done ==
    /\ stream.at = "open" /\ stream.chunk = <<>>
    /\ stream' = [stream EXCEPT !.at = "ended"]
    /\ UNCHANGED <<seen, feed>>

\* The backoff is over; an abort does not cut it short.
awake ==
    /\ stream.at = "sleeping"
    /\ stream' = [stream EXCEPT !.at = "top"]
    /\ UNCHANGED <<seen, feed>>

abort ==
    /\ ~feed.aborted /\ stream.at # "ended"
    /\ feed' = [feed EXCEPT !.aborted = TRUE]
    /\ UNCHANGED <<stream, seen>>

----------------------------------------------------------------------------

SseNext ==
    \/ loop \/ connect \/ connectionError \/ event \/ done \/ awake \/ abort
    \/ \E n \in 1 .. MaxChunk : read(n)

\* Timers fire, requests and reads settle, and the consumer asks for events.
SseFairness ==
    /\ WF_sseVars(loop) /\ WF_sseVars(awake) /\ WF_sseVars(event)
    /\ WF_sseVars(connect \/ connectionError)
    /\ WF_sseVars(done \/ connectionError \/ \E n \in 1 .. MaxChunk : read(n))
=============================================================================
