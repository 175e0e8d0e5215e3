------------------------------ MODULE ZenResponses ------------------------------
(***************************************************************************)
(* The answer of the Responses upstream on its way to the client           *)
(* (zen_responses.go, chatResponses in zen.go, handleOpenAIResponse).  Its *)
(* events take one of two lanes: "stream" translates them to chunks in a   *)
(* goroutine that feeds a synchronous pipe, "aggregate" folds them into    *)
(* one answer.  A free model is asked for with the shared credential first *)
(* and, if that fails, with an account.                                    *)
(*                                                                         *)
(* The upstream sends what it likes and may fall silent; the client may    *)
(* leave, which cancels the read of the upstream.                          *)
(***************************************************************************)
EXTENDS Integers, Sequences, SequencesExt

CONSTANTS
    Texts,     \* text deltas that are not empty
    Calls,     \* tool calls: identifier, name and arguments
    Whys,      \* reasons of a terminal event, after incomplete_details or the status
    Usages,    \* token counts of a terminal event: in, out and, if not 0, total
    NoUsage,   \* a terminal event without token counts
    MaxEvents  \* bound: events of one attempt

Empty == "empty"   \* the delta that carries nothing

ASSUME ZenAssumption ==
    /\ Empty \notin Texts /\ NoUsage \notin Usages
    /\ \A u \in Usages : u \in [in : Nat, out : Nat, total : Nat]
    /\ MaxEvents \in Nat

VARIABLES
    lane,      \* how the answer is made
    fallback,  \* an account remains to be tried
    seen,      \* the events of this attempt
    ending,    \* how the body of the upstream ended
    tr,        \* the translator: its goroutine and what it has folded
    ready,     \* the channel the caller waits on
    pipe,      \* the two ends of the io.Pipe
    relay,     \* the caller, later handleOpenAIResponse
    out,       \* what the client has been sent
    gone,      \* the client has left
    recorded   \* the calls of usage.Record

vars == <<lane, fallback, seen, ending, tr, ready, pipe, relay, out, gone, recorded>>

\* An event names its kind in "type", or, untyped, only in its SSE event field.
Event ==
    [kind : {"text"}, typed : BOOLEAN, text : Texts \cup {Empty}]
    \cup [kind : {"call"}, typed : BOOLEAN, call : Calls]
    \cup [kind : {"end"}, typed : BOOLEAN, why : Whys, usage : Usages \cup {NoUsage}]
    \cup [kind : {"failed"}, typed : BOOLEAN]
    \cup [kind : {"other"}, typed : {TRUE}]  \* unknown, malformed or [DONE]

-----------------------------------------------------------------------------
(***************************************************************************)
(* Folding events.                                                         *)
(***************************************************************************)

mapResponsesFinish(why) ==
    CASE why \in {"max_output_tokens", "max_tokens", "length"} -> "length"
      [] why = "content_filter" -> why
      [] OTHER -> "stop"

Totalled(u) == IF u # NoUsage /\ u.total = 0 THEN [u EXCEPT !.total = u.in + u.out] ELSE u

NewFold == [texts |-> <<>>, calls |-> <<>>, finish |-> "stop", usage |-> NoUsage,
            terminal |-> FALSE, failed |-> FALSE]

\* One event whose kind is known; both lanes do the same with it.
Folded(f, e) ==
    CASE e.kind = "text" /\ e.text # Empty -> [f EXCEPT !.texts = Append(@, e.text)]
      [] e.kind = "call" -> [f EXCEPT !.calls = Append(@, e.call)]
      [] e.kind = "end" ->
            [f EXCEPT !.terminal = TRUE,
                      !.finish = IF f.calls # <<>> THEN "tool_calls" ELSE mapResponsesFinish(e.why),
                      !.usage = IF e.usage = NoUsage THEN @ ELSE Totalled(e.usage)]
      [] e.kind = "failed" -> [f EXCEPT !.terminal = TRUE, !.failed = TRUE]
      [] OTHER -> f

\* The events folded in their order, those without a type or not.
Read(events, untyped) ==
    LET fold[i \in 0..Len(events)] ==
            IF i = 0 THEN NewFold
            ELSE IF events[i].typed \/ untyped THEN Folded(fold[i - 1], events[i])
            ELSE fold[i - 1]
    IN  fold[Len(events)]

\* parseZenResponsesEvents clears the event field before it looks at it.
Parsed(events) == Read(events, FALSE)

Failure == [failed |-> TRUE]

Answer(f) == [failed |-> FALSE, texts |-> f.texts, calls |-> f.calls, finish |-> f.finish, usage |-> f.usage]

Aggregated(events, how) ==
    LET f == Parsed(events)
    IN  IF how = "broken" \/ f.failed \/ ~f.terminal THEN Failure ELSE Answer(f)

\* Mutant: the index counts the call itself.
ChunksFromOne(f, e) ==
    CASE e.kind = "text" /\ e.text # Empty -> <<[kind |-> "text", text |-> e.text]>>
      [] e.kind = "call" -> <<[kind |-> "call", call |-> e.call, index |-> Len(f.calls) + 1]>>
      [] OTHER -> <<>>

\* The chunk of an event, if it has one.
Chunks(f, e) ==
    CASE e.kind = "text" /\ e.text # Empty -> <<[kind |-> "text", text |-> e.text]>>
      [] e.kind = "call" -> <<[kind |-> "call", call |-> e.call, index |-> Len(f.calls)]>>
      [] OTHER -> <<>>

\* The chunks that end the stream.
Closing(f) ==
    <<[kind |-> "finish", finish |-> f.finish]>>
    \o (IF f.usage = NoUsage THEN <<>> ELSE <<[kind |-> "usage", usage |-> f.usage]>>)
    \o <<[kind |-> "DONE"]>>

\* Mutant: a failure counts as an end.
UnfinishedOpen(f) == ~f.terminal

\* The stream may not be closed as complete.
Unfinished(f) == ~f.terminal \/ f.failed

-----------------------------------------------------------------------------
(***************************************************************************)
(* The upstream and the goroutine of the translator.                       *)
(***************************************************************************)

NewTranslator == [pc |-> "read", fold |-> NewFold, announced |-> FALSE, pending |-> <<>>]

NewPipe == [reader |-> "open", writer |-> "open"]

Init ==
    /\ lane \in {"stream", "aggregate"}
    /\ fallback \in BOOLEAN
    /\ seen = <<>> /\ ending = "open"
    /\ tr = NewTranslator /\ ready = "empty" /\ pipe = NewPipe
    /\ relay = "waiting"
    /\ out = <<>>
    /\ gone = FALSE
    /\ recorded = 0

\* Mutant: a call does not tell the caller to go on.
AnnouncesText(chunk) == chunk.kind \in {"text", "finish"}

\* The chunks that tell the caller, when it still waits, to go on.
Announces(chunk) == chunk.kind \in {"text", "call", "finish"}

\* Before it writes to the pipe the translator announces the answer.
Write(f, chunks) ==
    LET first == ~tr.announced /\ Announces(chunks[1])
    IN  /\ tr' = [pc |-> "write", fold |-> f, pending |-> chunks,
                  announced |-> tr.announced \/ first]
        /\ ready' = IF first THEN "ok" ELSE ready

\* An answer that was not announced ends in an error for the caller.
CloseWithError(writer) ==
    /\ ready' = IF tr.announced THEN ready ELSE "err"
    /\ tr' = [tr EXCEPT !.pc = "closed"]
    /\ pipe' = [pipe EXCEPT !.writer = writer]

Reading == ending = "open" /\ IF lane = "stream" THEN tr.pc = "read" ELSE relay = "waiting"

\* dispatch: one event; the translator knows the kind of an untyped one too.
Receive(e) ==
    /\ Reading /\ Len(seen) < MaxEvents
    /\ seen' = Append(seen, e)
    /\ IF lane = "aggregate" THEN UNCHANGED <<tr, ready>>
       ELSE IF Chunks(tr.fold, e) # <<>> THEN Write(Folded(tr.fold, e), Chunks(tr.fold, e))
       ELSE tr' = [tr EXCEPT !.fold = Folded(@, e)] /\ UNCHANGED ready
    /\ UNCHANGED <<lane, fallback, ending, pipe, relay, out, gone, recorded>>

\* The body ends.
End ==
    /\ Reading
    /\ ending' = "eof"
    /\ IF lane = "aggregate" THEN UNCHANGED <<tr, ready, pipe>>
       ELSE IF Unfinished(tr.fold) THEN CloseWithError("error")
       ELSE Write(tr.fold, Closing(tr.fold)) /\ UNCHANGED pipe
    /\ UNCHANGED <<lane, fallback, seen, relay, out, gone, recorded>>

\* The read of the body fails: the pipe is closed as if all had come.
Break ==
    /\ Reading
    /\ ending' = "broken"
    /\ IF lane = "aggregate" THEN UNCHANGED <<tr, ready, pipe>> ELSE CloseWithError("eof")
    /\ UNCHANGED <<lane, fallback, seen, relay, out, gone, recorded>>

\* All that was to be written has been read: the goroutine reads on or returns.
Return ==
    /\ tr.pc = "write" /\ tr.pending = <<>>
    /\ IF ending = "open" THEN tr' = [tr EXCEPT !.pc = "read"] /\ UNCHANGED pipe
       ELSE tr' = [tr EXCEPT !.pc = "closed"] /\ pipe' = [pipe EXCEPT !.writer = "eof"]
    /\ UNCHANGED <<lane, fallback, seen, ending, ready, relay, out, gone, recorded>>

\* The reader is closed, so that the write fails.
WriteFails ==
    /\ tr.pc = "write" /\ tr.pending # <<>> /\ pipe.reader = "closed"
    /\ tr' = [tr EXCEPT !.pc = "closed", !.pending = <<>>]
    /\ pipe' = [pipe EXCEPT !.writer = "eof"]
    /\ UNCHANGED <<lane, fallback, seen, ending, ready, relay, out, gone, recorded>>

-----------------------------------------------------------------------------
(***************************************************************************)
(* The request.                                                            *)
(***************************************************************************)

\* An attempt that came to nothing; the account may turn the request down.
Failed ==
    \/ /\ fallback
       /\ fallback' = FALSE
       /\ seen' = <<>> /\ ending' = "open"
       /\ tr' = NewTranslator /\ ready' = "empty" /\ pipe' = NewPipe
       /\ UNCHANGED relay
    \/ /\ relay' = "failed"
       /\ pipe' = [pipe EXCEPT !.reader = "closed"]
       /\ UNCHANGED <<fallback, seen, ending, tr, ready>>

\* translateZenResponsesStream returns: with a body to relay, or an error.
Proceed ==
    /\ lane = "stream" /\ relay = "waiting"
    /\ \/ /\ ready = "ok"
          /\ relay' = "reading"
          /\ UNCHANGED <<fallback, seen, ending, tr, ready, pipe>>
       \/ ready = "err" /\ Failed
    /\ UNCHANGED <<lane, out, gone, recorded>>

Done == relay' = "done" /\ recorded' = recorded + 1

Aggregate ==
    LET answer == Aggregated(seen, ending)
    IN  /\ lane = "aggregate" /\ relay = "waiting" /\ ending # "open"
        /\ \/ answer.failed /\ Failed /\ UNCHANGED <<out, recorded>>
           \/ /\ ~answer.failed
              /\ out' = <<answer>>
              /\ Done
              /\ UNCHANGED <<fallback, seen, ending, tr, ready, pipe>>
        /\ UNCHANGED <<lane, gone>>

CloseBody == pipe' = [pipe EXCEPT !.reader = "closed"]

\* One round of handleOpenAIResponse; the write to a client that left may fail.
Relay ==
    /\ relay = "reading" /\ tr.pc = "write" /\ tr.pending # <<>>
    /\ tr' = [tr EXCEPT !.pending = Tail(@)]
    /\ \/ /\ out' = Append(out, Head(tr.pending))
          /\ UNCHANGED <<relay, pipe, recorded>>
       \/ /\ gone
          /\ CloseBody /\ Done
          /\ UNCHANGED out
    /\ UNCHANGED <<lane, fallback, seen, ending, ready, gone>>

\* The pipe was closed, with an error or without.
RelayEnds ==
    /\ relay = "reading" /\ pipe.writer # "open"
    /\ CloseBody /\ Done
    /\ UNCHANGED <<lane, fallback, seen, ending, tr, ready, out, gone>>

Leave ==
    /\ relay \in {"waiting", "reading"} /\ ~gone
    /\ gone' = TRUE
    /\ UNCHANGED <<lane, fallback, seen, ending, tr, ready, pipe, relay, out, recorded>>

Next ==
    \/ \E e \in Event : Receive(e)
    \/ End \/ Break \/ Return \/ WriteFails
    \/ Proceed \/ Aggregate \/ Relay \/ RelayEnds \/ Leave

\* The goroutines run; the read of the upstream fails once the client has left.
Fairness ==
    /\ WF_vars(Return \/ WriteFails)
    /\ WF_vars(Proceed \/ Aggregate \/ Relay \/ RelayEnds)
    /\ WF_vars(gone /\ Break)

Spec == Init /\ [][Next]_vars /\ Fairness

-----------------------------------------------------------------------------
(***************************************************************************)
(* Properties.                                                             *)
(***************************************************************************)

Counts == {Totalled(u) : u \in Usages} \cup {NoUsage}

Finishes == {"stop", "tool_calls", "length", "content_filter"}

Chunk ==
    [kind : {"text"}, text : Texts]
    \cup [kind : {"call"}, call : Calls, index : 0..MaxEvents - 1]
    \cup [kind : {"finish"}, finish : Finishes]
    \cup [kind : {"usage"}, usage : Counts \ {NoUsage}]
    \cup [kind : {"DONE"}]

Answers == [failed : {FALSE}, texts : Seq(Texts), calls : Seq(Calls), finish : Finishes, usage : Counts]

TypeOK ==
    /\ lane \in {"stream", "aggregate"}
    /\ fallback \in BOOLEAN /\ gone \in BOOLEAN
    /\ seen \in Seq(Event) /\ Len(seen) <= MaxEvents
    /\ ending \in {"open", "eof", "broken"}
    /\ tr \in [pc : {"read", "write", "closed"}, announced : BOOLEAN, pending : Seq(Chunk),
               fold : [texts : Seq(Texts), calls : Seq(Calls), finish : Finishes, usage : Counts,
                       terminal : BOOLEAN, failed : BOOLEAN]]
    /\ ready \in {"empty", "ok", "err"}
    /\ pipe \in [reader : {"open", "closed"}, writer : {"open", "eof", "error"}]
    /\ relay \in {"waiting", "reading", "done", "failed"}
    /\ out \in Seq(Chunk) \cup Seq(Answers)
    /\ recorded = IF relay = "done" THEN 1 ELSE 0

\* What the chunks of a kind have in a field, in their order.
Gathered(chunks, kind, field) ==
    FlattenSeq([i \in DOMAIN chunks |->
                  IF chunks[i].kind = kind THEN <<chunks[i][field]>> ELSE <<>>])

\* What a client makes of the chunks of a stream that was closed with [DONE].
Assembled(chunks) ==
    LET usages == Gathered(chunks, "usage", "usage")
    IN  [failed |-> FALSE,
         texts |-> Gathered(chunks, "text", "text"),
         calls |-> Gathered(chunks, "call", "call"),
         finish |-> Gathered(chunks, "finish", "finish")[1],
         usage |-> IF usages = <<>> THEN NoUsage ELSE usages[1]]

IsComplete(chunks) == chunks # <<>> /\ Last(chunks).kind = "DONE"

(***************************************************************************)
(* A client that stays gets the same from both lanes, provided the events  *)
(* are typed: [DONE] if and only if the fold of the same body is an        *)
(* answer, with that answer in the chunks before it; and the request only  *)
(* fails if the fold does.  Without the type the fold knows no event, as   *)
(* it clears the event field before it is looked at.                       *)
(***************************************************************************)
LanesAgree ==
    LET answer == Aggregated(seen, ending)
    IN  lane = "stream" /\ ~gone /\ ending # "open" /\ (\A i \in DOMAIN seen : seen[i].typed) =>
            /\ relay = "failed" => answer.failed
            /\ relay = "done" => IsComplete(out) = ~answer.failed
            /\ IsComplete(out) => Assembled(out) = answer

(***************************************************************************)
(* The types; and what the client of a stream has is a prefix of what the  *)
(* upstream sent in the attempt under way: no delta or call is lost,       *)
(* repeated or moved, none of an attempt that failed is left when another  *)
(* one begins, and the calls are numbered from zero.                       *)
(***************************************************************************)
PipeInvariant ==
    /\ TypeOK
    /\ LET f == Read(seen, TRUE)
           indices == Gathered(out, "call", "index")
       IN  lane = "stream" =>
               /\ IsPrefix(Gathered(out, "text", "text"), f.texts)
               /\ IsPrefix(Gathered(out, "call", "call"), f.calls)
               /\ \A i \in DOMAIN indices : indices[i] = i - 1

Over == relay \in {"done", "failed"} /\ (lane = "stream" => tr.pc = "closed")

(***************************************************************************)
(* Once the upstream has ended or the client has left, the handler returns *)
(* and the goroutine of the translator ends, or a second attempt begins    *)
(* for a client that stayed: nobody waits on ready or on the pipe forever. *)
(***************************************************************************)
Settles == ending # "open" \/ gone ~> Over \/ (ending = "open" /\ ~gone)

=============================================================================
