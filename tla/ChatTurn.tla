-------------------------------- MODULE ChatTurn --------------------------------
(***************************************************************************)
(* What the client of a chat completion is promised, streamed or not: some *)
(* content, and then one outcome that is final.  The calls become visible  *)
(* together with a successful outcome, all at once or not at all, and      *)
(* "tool_calls" is the outcome of a turn that has calls.                   *)
(***************************************************************************)
EXTENDS Naturals, Sequences

VARIABLES
    content,  \* the fragments of text and reasoning
    calls,    \* the calls to execute
    outcome   \* "open", a finish reason, or "failed"

turnVars == <<content, calls, outcome>>

FinishReasons == {"stop", "tool_calls", "length", "content_filter"}

DistinctIDs(s) == \A i, j \in DOMAIN s : s[i].id = s[j].id => i = j

\* The old content is a prefix of the new one.
Extends == Len(content) <= Len(content') /\ \A i \in DOMAIN content : content'[i] = content[i]

Init ==
    /\ content = <<>>
    /\ calls = <<>>
    /\ outcome = "open"

Deliver ==
    /\ outcome = "open"
    /\ Extends
    /\ UNCHANGED <<calls, outcome>>

\* A turn that is answered at once extends its content in the same step.
Commit ==
    /\ outcome = "open"
    /\ Extends
    /\ outcome' \in FinishReasons
    /\ DistinctIDs(calls')
    /\ outcome' = "tool_calls" => calls' # <<>>
    /\ outcome' = "stop" => calls' = <<>>

Fail ==
    /\ outcome = "open"
    /\ outcome' = "failed"
    /\ UNCHANGED <<content, calls>>

Next == Deliver \/ Commit \/ Fail

Spec == Init /\ [][Next]_turnVars

=============================================================================
