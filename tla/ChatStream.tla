------------------------------- MODULE ChatStream -------------------------------
(***************************************************************************)
(* Turning the event stream of the cmdcode upstream into one answer in the *)
(* OpenAI format: ccEventNormalizer (events.go), and the two handlers that *)
(* consume it, handleStreamWithOptions, which relays events as they come,  *)
(* and handleNonStream, which answers once (handler.go).                   *)
(*                                                                         *)
(* The handler reads one event at a time and acts on it before it reads    *)
(* the next, so an event is one step.  The upstream may send any event at  *)
(* any time, and may stop by closing the connection, by an explicit [DONE] *)
(* or by a failed read.  A tool call is only executable for the client if  *)
(* it came complete, in a "tool-call" event; the tool-input events that    *)
(* announce it are provisional.                                            *)
(***************************************************************************)
EXTENDS Integers, Sequences, FiniteSets

CONSTANTS
    Types,      \* the types of events the upstream may send
    Texts,      \* text fragments; the empty one is ""
    CallIDs,    \* tool call identifiers
    Arguments,  \* well-formed tool call arguments: complete JSON objects
    Reasons,    \* finish reasons as normalizeFinishReason returns them
    Usages,     \* token counts an event may report
    MaxEvents   \* bound: events in one stream

\* An event without a tool call id, arguments that are absent or not one JSON
\* object, a finish reason that is absent or unknown, and an absent usage.
NoID == "no id"
BadArguments == "bad arguments"
Unknown == "unknown"
NoUsage == 0

ASSUME StreamAssumption ==
    /\ NoID \notin CallIDs
    /\ BadArguments \notin Arguments
    /\ Reasons \subseteq {"stop", "tool_calls", "length", "content_filter"}
    /\ Usages \subseteq Nat \ {NoUsage}
    /\ MaxEvents \in Nat

VARIABLES
    mode,       \* the handler: "stream" or "plain"
    options,    \* whether the client asked for a usage chunk
    norm,       \* the normalizer
    phase,      \* what parseStreamEvents has come to
    firstText,  \* stream: the next delta is the first one
    finishing,  \* stream: the commit has begun
    done,       \* stream: [DONE] has been written
    text,       \* plain: the fragments received
    calls,      \* the calls released by the normalizer
    final,      \* plain: the finish reason released by the normalizer
    out,        \* what the client has been sent
    recorded,   \* the usage handed to the tracker, -1 if none was
    closed,     \* the handler has returned
    seen        \* history: the events received

vars == <<mode, options, norm, phase, firstText, finishing, done, text, calls,
          final, out, recorded, closed, seen>>

handlerVars == <<firstText, finishing, done, text, calls, final, out, recorded,
                 closed>>

Call == [id : CallIDs, args : Arguments]

Normalizer ==
    [pending : SUBSET CallIDs,  \* provisional inputs that were announced
     kept : Seq(Call),          \* authoritative calls, first seen first
     usage : Usages \cup {NoUsage},
     finished : BOOLEAN]

\* The events, by type.  "malformed" is a payload that is not one JSON value,
\* "other" a type that the normalizer does not know or that carries nothing.
Event ==
    { e \in
        [type : {"text-delta", "reasoning-delta"}, text : Texts]
        \cup [type : {"tool-call"}, id : CallIDs \cup {NoID},
              args : Arguments \cup {BadArguments}]
        \cup [type : {"tool-input-start", "tool-input-delta", "tool-input-end",
                      "tool-error"}, id : CallIDs \cup {NoID}]
        \cup [type : {"finish-step"}, usage : Usages \cup {NoUsage}]
        \cup [type : {"finish"}, reason : Reasons \cup {Unknown},
              usage : Usages \cup {NoUsage}]
        \cup [type : {"error", "malformed", "other"}]
      : e.type \in Types }

Delta == {"text-delta", "reasoning-delta"}

Chunk ==
    [kind : Delta, text : Texts, role : BOOLEAN]
    \cup [kind : {"call"}, call : Call, role : BOOLEAN]
    \cup [kind : {"finish"}, reason : Reasons \cup {"tool_calls", "length"}]
    \cup [kind : {"usage"}, usage : Usages \cup {NoUsage}]
    \cup [kind : {"error", "DONE"}]
    \cup [kind : {"answer"}, text : Seq([kind : Delta, text : Texts]), calls : Seq(Call),
          reason : Reasons \cup {"tool_calls", "length"}]

-----------------------------------------------------------------------------
(***************************************************************************)
(* The normalizer.                                                         *)
(***************************************************************************)

\* Mutant: provisional inputs without an id are let through.
RefusedNot(n, e) ==
    \/ e.type \in {"error", "malformed"}
    \/ e.type = "tool-call" /\ (e.id = NoID \/ e.args = BadArguments)
    \/ e.type = "finish" /\ ~n.finished /\ e.reason = Unknown

\* The events that make Consume, or the decoder before it, return an error.
\* A finish is not looked at again once the normalizer has finished.
Refused(n, e) ==
    \/ e.type \in {"error", "malformed"}
    \/ e.type = "tool-call" /\ (e.id = NoID \/ e.args = BadArguments)
    \/ e.type \in {"tool-input-start", "tool-input-delta"} /\ e.id = NoID
    \/ e.type = "finish" /\ ~n.finished /\ e.reason = Unknown

\* Mutant: a repeated id replaces the call that was announced first.
DeduplicatedLast(kept, call) ==
    IF \E i \in 1..Len(kept) : kept[i].id = call.id
    THEN [i \in 1..Len(kept) |-> IF kept[i].id = call.id THEN call ELSE kept[i]]
    ELSE Append(kept, call)

\* An id is kept once, with the arguments it came with first.
Deduplicated(kept, call) ==
    IF \E i \in 1..Len(kept) : kept[i].id = call.id THEN kept ELSE Append(kept, call)

WithUsage(n, usage) == IF usage = NoUsage THEN n ELSE [n EXCEPT !.usage = usage]

\* Mutant: usage is still taken over after the finish.
ConsumedLate(n, e) ==
    CASE e.type = "tool-call" ->
            [n EXCEPT !.kept = Deduplicated(@, [id |-> e.id, args |-> e.args])]
      [] e.type = "finish-step" -> WithUsage(n, e.usage)
      [] e.type = "finish" -> [WithUsage(n, e.usage) EXCEPT !.pending = {}, !.finished = TRUE]
      [] OTHER -> n

\* The normalizer after an event that is not refused.
Consumed(n, e) ==
    CASE e.type = "tool-call" ->
            [n EXCEPT !.kept = Deduplicated(@, [id |-> e.id, args |-> e.args])]
      [] e.type \in {"tool-input-start", "tool-input-delta"} ->
            [n EXCEPT !.pending = @ \cup {e.id}]
      [] e.type \in {"tool-input-end", "tool-error"} ->
            [n EXCEPT !.pending = @ \ {e.id}]
      [] e.type = "finish-step" /\ ~n.finished -> WithUsage(n, e.usage)
      [] e.type = "finish" /\ ~n.finished ->
            [WithUsage(n, e.usage) EXCEPT !.pending = {}, !.finished = TRUE]
      [] OTHER -> n

\* Mutant: the presence of calls wins over truncation.
resolveCallsFirst(upstream, hasToolCalls) ==
    IF hasToolCalls THEN "tool_calls" ELSE upstream

\* The reason reported for a turn: truncation wins, then the content filter,
\* then the presence of calls.
resolveFinishReason(upstream, hasToolCalls) ==
    IF upstream \notin {"length", "content_filter"} /\ hasToolCalls
    THEN "tool_calls" ELSE upstream

-----------------------------------------------------------------------------
Init ==
    /\ mode \in {"stream", "plain"}
    /\ options \in IF mode = "stream" THEN BOOLEAN ELSE {FALSE}
    /\ norm = [pending |-> {}, kept |-> <<>>, usage |-> NoUsage, finished |-> FALSE]
    /\ phase = "reading"
    /\ firstText = TRUE
    /\ finishing = FALSE
    /\ done = FALSE
    /\ text = <<>>
    /\ calls = <<>>
    /\ final = "none"
    /\ out = <<>>
    /\ recorded = -1
    /\ closed = FALSE
    /\ seen = <<>>

\* The next event arrives.
Receive(e) ==
    /\ phase = "reading"
    /\ Len(seen) < MaxEvents
    /\ seen' = Append(seen, e)
    /\ UNCHANGED <<mode, options>>

\* An event that ends the parse with an error; nothing else happens to it.
Refuse(e) ==
    /\ Receive(e)
    /\ Refused(norm, e)
    /\ phase' = "failed"
    /\ UNCHANGED <<norm, handlerVars>>

\* Mutant: the stream relays content after it is over.
ContentLate(e) ==
    /\ Receive(e)
    /\ e.type \in Delta
    /\ out' = Append(out, [kind |-> e.type, text |-> e.text, role |-> firstText])
    /\ firstText' = FALSE
    /\ UNCHANGED <<norm, phase, finishing, done, text, calls, final, recorded, closed>>

\* A fragment of text or reasoning.  The stream relays it at once, unless it
\* is empty or the stream is over; the plain handler buffers it.
Content(e) ==
    /\ Receive(e)
    /\ e.type \in Delta
    /\ \/ /\ mode = "stream" /\ e.text # "" /\ ~done
          /\ out' = Append(out, [kind |-> e.type, text |-> e.text, role |-> firstText])
          /\ firstText' = FALSE
          /\ UNCHANGED text
       \/ /\ mode = "plain" /\ e.text # ""
          /\ text' = Append(text, [kind |-> e.type, text |-> e.text])
          /\ UNCHANGED <<out, firstText>>
       \/ /\ e.text = "" \/ (mode = "stream" /\ done)
          /\ UNCHANGED <<out, firstText, text>>
    /\ UNCHANGED <<norm, phase, finishing, done, calls, final, recorded, closed>>

\* An event that only the normalizer takes notice of, a late finish included.
Silent(e) ==
    /\ Receive(e)
    /\ e.type \notin Delta
    /\ ~Refused(norm, e)
    /\ e.type = "finish" => norm.finished
    /\ norm' = Consumed(norm, e)
    /\ UNCHANGED <<phase, handlerVars>>

\* Mutant: every call announces the role when no content came before.
CallChunksEach ==
    [i \in 1..Len(norm.kept) |->
        [kind |-> "call", call |-> norm.kept[i], role |-> firstText]]

CallChunks ==
    [i \in 1..Len(norm.kept) |->
        [kind |-> "call", call |-> norm.kept[i], role |-> firstText /\ i = 1]]

UsageChunk(usage) == IF options THEN <<[kind |-> "usage", usage |-> usage]>> ELSE <<>>

\* The finish event releases the calls.  The stream is committed and closed at
\* once; the plain handler reads on.  A finish that claims tool calls when
\* there are none breaks the stream before anything is written.
Finish(e) ==
    LET reason == resolveFinishReason(e.reason, norm.kept # <<>>)
        hollow == e.reason = "tool_calls" /\ norm.kept = <<>>
    IN
    /\ Receive(e)
    /\ e.type = "finish" /\ ~norm.finished /\ ~Refused(norm, e)
    /\ norm' = Consumed(norm, e)
    /\ calls' = norm.kept
    /\ \/ /\ mode = "stream" /\ hollow
          /\ finishing' = TRUE
          /\ phase' = "failed"
          /\ UNCHANGED <<out, done, firstText, final>>
       \/ /\ mode = "stream" /\ ~hollow
          /\ finishing' = TRUE
          /\ out' = out \o CallChunks \o <<[kind |-> "finish", reason |-> reason]>>
                        \o UsageChunk(norm'.usage) \o <<[kind |-> "DONE"]>>
          /\ done' = TRUE
          /\ firstText' = (firstText /\ norm.kept = <<>>)
          /\ UNCHANGED <<phase, final>>
       \/ /\ mode = "plain"
          /\ final' = e.reason
          /\ UNCHANGED <<phase, out, done, finishing, firstText>>
    /\ UNCHANGED <<text, recorded, closed>>

\* The upstream stops: end of file, an explicit [DONE], or a failed read.
Stop(how) ==
    /\ phase = "reading"
    /\ phase' = how
    /\ UNCHANGED <<mode, options, norm, handlerVars, seen>>

\* Mutant: a parse error is reported even after the stream was committed.
CloseStreamAlways ==
    /\ mode = "stream"
    /\ phase # "reading" /\ ~closed
    /\ closed' = TRUE
    /\ out' = IF done /\ phase # "failed" THEN out
              ELSE out \o <<[kind |-> "error"], [kind |-> "DONE"]>>
    /\ done' = TRUE
    /\ recorded' = norm.usage
    /\ UNCHANGED <<mode, options, norm, phase, firstText, finishing, text, calls, final,
                   seen>>

\* The end of handleStreamWithOptions.  A stream that is not committed is
\* failed; the usage is recorded in any case.
CloseStream ==
    /\ mode = "stream"
    /\ phase # "reading" /\ ~closed
    /\ closed' = TRUE
    /\ out' = IF done THEN out ELSE out \o <<[kind |-> "error"], [kind |-> "DONE"]>>
    /\ done' = TRUE
    /\ recorded' = norm.usage
    /\ UNCHANGED <<mode, options, norm, phase, firstText, finishing, text, calls, final,
                   seen>>

\* The end of handleNonStream.
Answer ==
    /\ mode = "plain"
    /\ phase # "reading" /\ ~closed
    /\ closed' = TRUE
    /\ \/ /\ \/ phase = "failed"
             \/ ~norm.finished
             \/ final = "tool_calls" /\ calls = <<>>
          /\ out' = <<[kind |-> "error"]>>
          /\ UNCHANGED recorded
       \/ /\ phase # "failed"
          /\ norm.finished
          /\ final = "tool_calls" => calls # <<>>
          /\ out' = <<[kind |-> "answer", text |-> text, calls |-> calls,
                       reason |-> resolveFinishReason(final, calls # <<>>)]>>
          /\ recorded' = norm.usage
    /\ UNCHANGED <<mode, options, norm, phase, firstText, finishing, done, text, calls,
                   final, seen>>

Next ==
    \/ \E e \in Event : Refuse(e) \/ Content(e) \/ Silent(e) \/ Finish(e)
    \/ \E how \in {"eof", "DONE", "failed"} : Stop(how)
    \/ CloseStream
    \/ Answer

Spec == Init /\ [][Next]_vars

-----------------------------------------------------------------------------
TypeOK ==
    /\ mode \in {"stream", "plain"}
    /\ options \in BOOLEAN
    /\ norm \in Normalizer
    /\ phase \in {"reading", "eof", "DONE", "failed"}
    /\ firstText \in BOOLEAN /\ finishing \in BOOLEAN /\ done \in BOOLEAN
    /\ text \in Seq([kind : Delta, text : Texts])
    /\ calls \in Seq(Call)
    /\ final \in Reasons \cup {"none"}
    /\ out \in Seq(Chunk)
    /\ recorded \in Usages \cup {NoUsage, -1}
    /\ closed \in BOOLEAN
    /\ seen \in Seq(Event)

-----------------------------------------------------------------------------
(***************************************************************************)
(* The answer as the client sees it.                                       *)
(***************************************************************************)
Kinds(k) == {i \in 1..Len(out) : out[i].kind \in k}

Succeeded == Kinds({"finish", "answer"}) # {}

\* The place of an index among those of a set, and the index at a place.
Rank(j, S) == Cardinality({k \in S : k <= j})

Nth(n, S) == CHOOSE j \in S : Rank(j, S) = n

\* The content, the calls and the finish reason that were sent.
Sent(kind) == [n \in 1..Cardinality(Kinds(kind)) |-> out[Nth(n, Kinds(kind))]]

SentContent ==
    IF Kinds({"answer"}) # {} THEN out[1].text
    ELSE [i \in 1..Len(Sent(Delta)) |->
             [kind |-> Sent(Delta)[i].kind, text |-> Sent(Delta)[i].text]]

SentCalls ==
    IF Kinds({"answer"}) # {} THEN out[1].calls
    ELSE [i \in 1..Len(Sent({"call"})) |-> Sent({"call"})[i].call]

SentReason == Sent({"finish", "answer"})[1].reason

(***************************************************************************)
(* The answer as the events define it, whichever handler consumed them.    *)
(***************************************************************************)
Seen(types) == {j \in 1..Len(seen) : seen[j].type \in types}

\* The events up to the first finish.
InTurn == {j \in 1..Len(seen) : \A k \in Seen({"finish"}) : j <= k}

\* The first announcement of each authoritative call.
FirstCalls ==
    {j \in Seen({"tool-call"}) \cap InTurn :
        \A k \in Seen({"tool-call"}) : seen[k].id = seen[j].id => j <= k}

Fragments == {j \in Seen(Delta) : seen[j].text # ""}

-----------------------------------------------------------------------------
(***************************************************************************)
(* What a stream may look like on the wire at any moment: content, then    *)
(* all the calls, then one finish or error, then the usage, then one       *)
(* [DONE] and nothing after it.  A failed stream carries no calls.         *)
(***************************************************************************)
Order(k) ==
    CASE k \in Delta -> 1
      [] k = "call"  -> 2
      [] k \in {"finish", "error", "answer"} -> 3
      [] k = "usage" -> 4
      [] k = "DONE"  -> 5

StreamGrammar ==
    /\ \A i, j \in 1..Len(out) :
          i < j => \/ Order(out[i].kind) < Order(out[j].kind)
                   \/ Order(out[i].kind) = Order(out[j].kind) /\ Order(out[i].kind) <= 2
    /\ Kinds({"error"}) # {} => Kinds({"call", "usage"}) = {}
    /\ mode = "stream" => (done <=> Kinds({"DONE"}) # {})
    /\ mode = "stream" /\ closed => done
    /\ Kinds({"call", "usage", "DONE"}) # {} => Kinds({"finish", "error"}) # {}

(***************************************************************************)
(* The assistant role is announced once, in the first delta, be it text,   *)
(* reasoning or a call.                                                    *)
(***************************************************************************)
RoleOnce ==
    \A i \in Kinds(Delta \cup {"call"}) :
        out[i].role <=> \A j \in Kinds(Delta \cup {"call"}) : i <= j

(***************************************************************************)
(* The calls a client may execute are exactly the complete tool calls of   *)
(* the turn, once each, in the order and with the arguments they were      *)
(* announced with first: never a provisional input, never one that was     *)
(* announced after the finish, never any in a turn that failed.            *)
(***************************************************************************)
ExecutableCalls ==
    IF Succeeded
    THEN /\ Len(SentCalls) = Cardinality(FirstCalls)
         /\ \A j \in FirstCalls :
               SentCalls[Rank(j, FirstCalls)] = [id |-> seen[j].id, args |-> seen[j].args]
    ELSE SentCalls = <<>>

(***************************************************************************)
(* When nothing follows the finish event, both handlers give the client    *)
(* the answer that the events define: success exactly if there was a       *)
(* finish that did not claim calls that never came, all the fragments in   *)
(* order, and a finish reason that is tool_calls only if there are calls   *)
(* and that never hides a truncation.                                      *)
(***************************************************************************)
HandlersAgree ==
    closed /\ phase # "failed" /\ Seen({"finish"}) \subseteq {Len(seen)} =>
        /\ Succeeded <=> \E j \in Seen({"finish"}) :
                            seen[j].reason = "tool_calls" => FirstCalls # {}
        /\ Succeeded =>
              /\ Len(SentContent) = Cardinality(Fragments)
              /\ \A j \in Fragments : SentContent[Rank(j, Fragments)] =
                                        [kind |-> seen[j].type, text |-> seen[j].text]
              /\ SentReason = "tool_calls" => FirstCalls # {}
              /\ SentReason # seen[Len(seen)].reason =>
                    SentReason = "tool_calls" /\ seen[Len(seen)].reason = "stop"

(***************************************************************************)
(* The usage that is charged is that of the last event of the turn that    *)
(* reported any, whatever arrives after the finish: the stream charges it  *)
(* in any case, the plain handler only for an answer.                      *)
(***************************************************************************)
ChargedOnce ==
    LET reports == {j \in Seen({"finish-step", "finish"}) \cap InTurn :
                       /\ seen[j].usage # NoUsage
                       /\ seen[j].type = "finish" => seen[j].reason # Unknown}
    IN  closed =>
          IF mode = "plain" /\ ~Succeeded THEN recorded = -1
          ELSE \/ reports = {} /\ recorded = NoUsage
               \/ \E j \in reports : recorded = seen[j].usage /\ \A k \in reports : k <= j

(***************************************************************************)
(* Both handlers implement a turn of a chat: content while it is open, and *)
(* then, in one step, either all the calls with a reason or a failure.     *)
(***************************************************************************)
Turn == INSTANCE ChatTurn WITH
            content <- SentContent,
            calls <- SentCalls,
            outcome <- IF Succeeded THEN SentReason
                       ELSE IF Kinds({"error"}) # {} THEN "failed" ELSE "open"

ImplementsTurn == Turn!Spec
=============================================================================
