------------------------------- MODULE OAuthFlow -------------------------------
(***************************************************************************)
(* Signing in to Command Code from the WebUI: OAuthFlow (oauth.go) and the *)
(* admin handlers around it (admin.go).                                    *)
(*                                                                         *)
(* A flow is awaited by a goroutine of its own.  Its end may come from a   *)
(* callback of the browser, from a callback link that was pasted, from a   *)
(* cancellation or from the timer, in handlers that run concurrently.      *)
(* They share the flow through two channels of capacity one, a done        *)
(* channel that is closed once, and a result and an error under a mutex.   *)
(*                                                                         *)
(* What follows an added account (saving the configuration, refreshing the *)
(* catalogue and the quota) is left out, as are accounts of other origin.  *)
(***************************************************************************)
EXTENDS Naturals

CONSTANTS
    MaxFlows,  \* bound: the flows that are ever started
    MaxCalls,  \* bound: the HTTP calls that are ever made
    Keys,      \* credentials a callback may carry
    Kinds,     \* the kinds of calls that are made
    Locals,    \* whether a flow is started with the loopback listener
    Timeouts,  \* whether the timer of a flow may fire
    NoKey      \* an empty channel, a missing result

ASSUME OAuthAssumption ==
    /\ Kinds \subseteq {"callback", "paste", "denied", "cancel"}
    /\ Locals \subseteq BOOLEAN
    /\ Timeouts \in BOOLEAN
    /\ MaxFlows \in Nat
    /\ MaxCalls \in Nat
    /\ NoKey \notin Keys

VARIABLES
    current,   \* webOAuthFlow
    stage,     \* whether a flow was created, and whether its done is closed
    local,     \* whether a flow has a loopback listener
    heard,     \* whether the channels of that listener hold anything
    resultCh,  \* the flow's result channel
    errCh,     \* whether the flow's error channel holds a cancellation
    result,    \* the result that the status reports
    err,       \* the error that the status reports
    waiter,    \* the goroutine that awaits the flow
    took,      \* the credential that goroutine received
    call,      \* the handlers
    accounts   \* the credentials in the pool

flowVars == <<current, stage, local, heard, resultCh, errCh, result, err, waiter, took>>
vars == <<current, stage, local, heard, resultCh, errCh, result, err, waiter, took,
          call, accounts>>

\* Flows are numbered as they are started, calls as they arrive.
Flows == 1..MaxFlows
Calls == 1..MaxCalls

\* webOAuthFlow is nil.
NoFlow == 0

Arrives(c) == call[c].pc = "idle" /\ \A d \in Calls : d < c => call[d].pc # "idle"

Unborn(f) == stage[f] = "unborn" /\ \A g \in Flows : g < f => stage[g] # "unborn"

\* A callback carries a credential and a state token; that of another flow
\* stands for any wrong one.
Callback == [key : Keys, state : Flows]

NoCallback == [key |-> NoKey, state |-> NoFlow]

\* The callbacks a call of a kind may come with.
Carried(kind) == IF kind \in {"callback", "paste"} THEN Callback ELSE {NoCallback}

NewCall ==
    [pc |-> "idle", kind |-> "start", flow |-> NoFlow, cb |-> NoCallback, reply |-> "none"]

Call ==
    [pc : {"idle", "check", "settle", "send", "add", "abort", "close", "done"},
     kind : {"start", "callback", "paste", "denied", "cancel"},
     flow : Flows \cup {NoFlow},
     cb : Callback \cup {NoCallback},
     reply : {"none", "started", "running", "ok", "refused", "duplicate", "canceled"}]

Goes(c, pc) == call' = [call EXCEPT ![c].pc = pc]
Replies(c, reply) == call' = [call EXCEPT ![c].pc = "done", ![c].reply = reply]

Pending(f) == f \in Flows /\ stage[f] = "pending"

\* The state the status endpoint shows.
StateName(f) ==
    IF stage[f] # "closed" THEN stage[f]
    ELSE IF err[f] # "none" THEN "failed" ELSE "success"

-----------------------------------------------------------------------------
Init ==
    /\ current = NoFlow
    /\ stage = [f \in Flows |-> "unborn"]
    /\ local = [f \in Flows |-> FALSE]
    /\ heard = [f \in Flows |-> FALSE]
    /\ resultCh = [f \in Flows |-> NoKey]
    /\ errCh = [f \in Flows |-> FALSE]
    /\ result = [f \in Flows |-> NoKey]
    /\ err = [f \in Flows |-> "none"]
    /\ waiter = [f \in Flows |-> "waiting"]
    /\ took = [f \in Flows |-> NoKey]
    /\ call = [c \in Calls |-> NewCall]
    /\ accounts = {}

(***************************************************************************)
(* The handlers.  A flow starts under webOAuthMu, unless one is pending.   *)
(***************************************************************************)

\* Mutant: a pending flow is replaced.
StartAnyway(c, f, l) ==
    /\ Arrives(c)
    /\ Unborn(f)
    /\ stage' = [stage EXCEPT ![f] = "pending"]
    /\ local' = [local EXCEPT ![f] = l]
    /\ current' = f
    /\ Replies(c, "started")
    /\ UNCHANGED <<heard, resultCh, errCh, result, err, waiter, took, accounts>>

Start(c, f, l) ==
    /\ Arrives(c)
    /\ ~Pending(current)
    /\ Unborn(f)
    /\ stage' = [stage EXCEPT ![f] = "pending"]
    /\ local' = [local EXCEPT ![f] = l]
    /\ current' = f
    /\ Replies(c, "started")
    /\ UNCHANGED <<heard, resultCh, errCh, result, err, waiter, took, accounts>>

StartAgain(c) ==
    /\ Arrives(c)
    /\ Pending(current)
    /\ Replies(c, "running")
    /\ UNCHANGED <<flowVars, accounts>>

\* A call that finds the current flow pending keeps it and works on it, also
\* when the flow is closed or replaced meanwhile.
Open(c, kind, cb) ==
    /\ Arrives(c)
    /\ Pending(current)
    /\ call' = [call EXCEPT ![c] =
            [pc |-> IF kind \in {"callback", "paste"} THEN "check" ELSE "abort",
             kind |-> kind, flow |-> current, cb |-> cb, reply |-> "none"]]
    /\ UNCHANGED <<flowVars, accounts>>

OpenNone(c, kind) ==
    /\ Arrives(c)
    /\ ~Pending(current)
    /\ Replies(c, IF kind = "cancel" THEN "canceled" ELSE "refused")
    /\ UNCHANGED <<flowVars, accounts>>

(***************************************************************************)
(* deliver: the flow must not be closed and the token must be its own.     *)
(* Then the result is set and done closed, and the result sent without     *)
(* waiting.  Wait compares the token once more, with the same result.      *)
(***************************************************************************)
Check(c) ==
    LET f == call[c].flow IN
    /\ call[c].pc = "check"
    /\ \/ /\ stage[f] = "pending" /\ call[c].cb.state = f
          /\ Goes(c, "settle")
       \/ /\ stage[f] # "pending" \/ call[c].cb.state # f
          /\ Replies(c, "refused")
    /\ UNCHANGED <<flowVars, accounts>>

Settle(c) ==
    LET f == call[c].flow IN
    /\ call[c].pc = "settle"
    /\ result' = [result EXCEPT ![f] = call[c].cb.key]
    /\ stage' = [stage EXCEPT ![f] = "closed"]
    /\ Goes(c, "send")
    /\ UNCHANGED <<current, local, heard, resultCh, errCh, err, waiter, took, accounts>>

\* Mutant: the result is recorded and not sent.
SendNothing(c) ==
    /\ call[c].pc = "send"
    /\ IF call[c].kind = "paste" THEN Goes(c, "add") ELSE Replies(c, "ok")
    /\ UNCHANGED <<flowVars, accounts>>

Send(c) ==
    LET f == call[c].flow IN
    /\ call[c].pc = "send"
    /\ resultCh' = [resultCh EXCEPT ![f] = IF @ = NoKey THEN call[c].cb.key ELSE @]
    /\ IF call[c].kind = "paste" THEN Goes(c, "add") ELSE Replies(c, "ok")
    /\ UNCHANGED <<current, stage, local, heard, errCh, result, err, waiter, took, accounts>>

\* The handler of a pasted link adds the account, and so does the waiter.
AddByCall(c) ==
    /\ call[c].pc = "add"
    /\ Replies(c, IF call[c].cb.key \in accounts THEN "duplicate" ELSE "ok")
    /\ accounts' = accounts \cup {call[c].cb.key}
    /\ UNCHANGED flowVars

\* Mutant: the waiter is not told.
AbortSilent(c) ==
    /\ call[c].pc = "abort"
    /\ Goes(c, "close")
    /\ UNCHANGED <<flowVars, accounts>>

\* Cancel: first the error is sent without waiting, then done is closed.
Abort(c) ==
    /\ call[c].pc = "abort"
    /\ errCh' = [errCh EXCEPT ![call[c].flow] = TRUE]
    /\ Goes(c, "close")
    /\ UNCHANGED <<current, stage, local, heard, resultCh, result, err, waiter, took, accounts>>

CloseFlow(c) ==
    /\ call[c].pc = "close"
    /\ stage' = [stage EXCEPT ![call[c].flow] = "closed"]
    /\ Replies(c, "canceled")
    /\ UNCHANGED <<current, local, heard, resultCh, errCh, result, err, waiter, took, accounts>>

(***************************************************************************)
(* The loopback listener answers as long as the flow is pending.  It sends *)
(* the credential, or the denial, to two channels that StartOAuthFlow      *)
(* makes for it; they are not those of the flow, and nothing reads them.   *)
(***************************************************************************)
Listen(f) ==
    /\ local[f] /\ stage[f] = "pending"
    /\ heard' = [heard EXCEPT ![f] = TRUE]
    /\ UNCHANGED <<current, stage, local, resultCh, errCh, result, err, waiter, took,
                   call, accounts>>

(***************************************************************************)
(* The waiter takes whatever is ready first.                               *)
(***************************************************************************)
Claim(f) ==
    /\ stage[f] # "unborn" /\ waiter[f] = "waiting"
    /\ resultCh[f] # NoKey
    /\ resultCh' = [resultCh EXCEPT ![f] = NoKey]
    /\ took' = [took EXCEPT ![f] = resultCh[f]]
    /\ result' = [result EXCEPT ![f] = resultCh[f]]
    /\ stage' = [stage EXCEPT ![f] = "closed"]
    /\ waiter' = [waiter EXCEPT ![f] = "claimed"]
    /\ UNCHANGED <<current, local, heard, errCh, err, call, accounts>>

Failed(f, e) ==
    /\ err' = [err EXCEPT ![f] = e]
    /\ stage' = [stage EXCEPT ![f] = "closed"]
    /\ waiter' = [waiter EXCEPT ![f] = "ended"]

Canceled(f) ==
    /\ stage[f] # "unborn" /\ waiter[f] = "waiting"
    /\ errCh[f]
    /\ errCh' = [errCh EXCEPT ![f] = FALSE]
    /\ Failed(f, "canceled")
    /\ UNCHANGED <<current, local, heard, resultCh, result, took, call, accounts>>

TimedOut(f) ==
    /\ stage[f] # "unborn" /\ waiter[f] = "waiting"
    /\ Timeouts
    /\ Failed(f, "timeout")
    /\ UNCHANGED <<current, local, heard, resultCh, errCh, result, took, call, accounts>>

\* An account that exists already is only logged.
AddByWaiter(f) ==
    /\ waiter[f] = "claimed"
    /\ accounts' = accounts \cup {took[f]}
    /\ waiter' = [waiter EXCEPT ![f] = "ended"]
    /\ UNCHANGED <<current, stage, local, heard, resultCh, errCh, result, err, took, call>>

-----------------------------------------------------------------------------
Handle(c) ==
    Check(c) \/ Settle(c) \/ Send(c) \/ AddByCall(c) \/ Abort(c) \/ CloseFlow(c)

Await(f) == Claim(f) \/ Canceled(f) \/ AddByWaiter(f)

Next ==
    \/ \E c \in Calls :
        \/ \E f \in Flows, l \in Locals : Start(c, f, l)
        \/ StartAgain(c)
        \/ \E kind \in Kinds : \E cb \in Carried(kind) : Open(c, kind, cb)
        \/ \E kind \in Kinds : OpenNone(c, kind)
        \/ Handle(c)
    \/ \E f \in Flows :
        \/ Listen(f)
        \/ Await(f)
        \/ TimedOut(f)

Spec == Init /\ [][Next]_vars

\* Handlers and waiters are goroutines the scheduler runs.  Nothing is assumed
\* of the browser, of the admin or of the timer.
FairSpec ==
    /\ Spec
    /\ \A c \in Calls : WF_vars(Handle(c))
    /\ \A f \in Flows : WF_vars(Await(f))

-----------------------------------------------------------------------------
TypeOK ==
    /\ current \in Flows \cup {NoFlow}
    /\ stage \in [Flows -> {"unborn", "pending", "closed"}]
    /\ local \in [Flows -> BOOLEAN]
    /\ heard \in [Flows -> BOOLEAN]
    /\ resultCh \in [Flows -> Keys \cup {NoKey}]
    /\ errCh \in [Flows -> BOOLEAN]
    /\ result \in [Flows -> Keys \cup {NoKey}]
    /\ err \in [Flows -> {"none", "canceled", "timeout"}]
    /\ waiter \in [Flows -> {"waiting", "claimed", "ended"}]
    /\ took \in [Flows -> Keys \cup {NoKey}]
    /\ call \in [Calls -> Call]
    /\ accounts \subseteq Keys

(***************************************************************************)
(* Sign-ins run one at a time and each has one verdict, given by its       *)
(* waiter: no late callback, second delivery or cancellation changes it.   *)
(***************************************************************************)
Verdict(f) ==
    IF stage[f] = "closed" /\ waiter[f] = "waiting" THEN "closing"
    ELSE IF stage[f] = "pending" THEN "open" ELSE StateName(f)

Promise == INSTANCE SignIn WITH verdict <- [f \in Flows |-> Verdict(f)]

ImplementsSignIn == Promise!Spec

(***************************************************************************)
(* A flow that was closed, by whomever, does not wait for its timer.       *)
(***************************************************************************)
ClosedEnds == \A f \in Flows : stage[f] = "closed" ~> waiter[f] = "ended"

(***************************************************************************)
(* When a handler has accepted a credential, an account with a credential  *)
(* that was accepted for that flow exists in the end, or the flow is shown *)
(* as failed.                                                              *)
(***************************************************************************)
Accepted(f) == {c \in Calls : call[c].flow = f /\ call[c].pc \in {"send", "add", "done"}
                                /\ call[c].reply # "refused" /\ call[c].kind \in {"callback", "paste"}}

AcceptedSignsIn ==
    \A f \in Flows :
        Accepted(f) # {} ~>
            \/ \E c \in Accepted(f) : call[c].cb.key \in accounts
            \/ StateName(f) = "failed"

(***************************************************************************)
(* A callback that the loopback listener has taken ends the flow.          *)
(***************************************************************************)
ListenerSignsIn ==
    \A f \in Flows : heard[f] ~> waiter[f] = "ended"

=============================================================================
