---------------------------- MODULE OAuthFlowProofs ----------------------------
(***************************************************************************)
(* Theorems about OAuthFlow, for any number of flows and calls: the types, *)
(* and that every step of the handlers, the waiters and the timer is a     *)
(* step of SignIn or changes no verdict.                                   *)
(***************************************************************************)
EXTENDS OAuthFlow, TLAPS

Working == {"check", "settle", "send", "add", "abort", "close"}
Delivering == {"check", "settle", "send", "add"}

(***************************************************************************)
(* What makes the verdicts stand: only the current flow is pending; a      *)
(* channel holds a credential, and a waiter has ended, only when the flow  *)
(* is closed; and the error is set by the waiter alone, when it ends.      *)
(***************************************************************************)
OnlyCurrent == \A f \in Flows : stage[f] = "pending" => f = current

WaiterInv ==
    \A f \in Flows :
        /\ resultCh[f] # NoKey => stage[f] = "closed"
        /\ waiter[f] # "waiting" => stage[f] = "closed"
        /\ waiter[f] # "ended" => err[f] = "none"
        /\ waiter[f] = "claimed" => took[f] \in Keys

CallInv ==
    \A c \in Calls :
        /\ call[c].pc \in Working =>
                call[c].flow \in Flows /\ stage[call[c].flow] # "unborn"
        /\ call[c].pc \in Delivering => call[c].cb \in Callback
        /\ call[c].pc \in {"send", "add"} => stage[call[c].flow] = "closed"

Inv == TypeOK /\ OnlyCurrent /\ WaiterInv /\ CallInv

LEMMA InitInv == Init => Inv
  <1> SUFFICES ASSUME Init PROVE Inv
    OBVIOUS
  <1> USE OAuthAssumption DEF Init, NewCall, NoCallback, NoFlow
  <1>1. TypeOK
    BY DEF TypeOK, Call
  <1>2. OnlyCurrent /\ WaiterInv
    BY DEF OnlyCurrent, WaiterInv
  <1>3. CallInv
    BY DEF CallInv, Working, Delivering
  <1> QED
    BY <1>1, <1>2, <1>3 DEF Inv

(***************************************************************************)
(* A handler that goes on, or replies, changes its own record only.        *)
(***************************************************************************)
Reply == {"none", "started", "running", "ok", "refused", "duplicate", "canceled"}

LEMMA RepliesChange ==
    ASSUME call \in [Calls -> Call], NEW c \in Calls, NEW reply \in Reply,
           Replies(c, reply)
    PROVE  /\ call' \in [Calls -> Call]
           /\ call'[c].pc = "done"
           /\ \A d \in Calls : d # c => call'[d] = call[d]
  <1> DEFINE r == [[call[c] EXCEPT !.pc = "done"] EXCEPT !.reply = reply]
  <1>1. call[c] \in Call
    OBVIOUS
  <1>2. r \in Call /\ r.pc = "done"
    BY <1>1 DEF Call, Reply
  <1>3. call' = [call EXCEPT ![c] = r]
    BY DEF Replies
  <1> HIDE DEF r
  <1> QED
    BY <1>2, <1>3

LEMMA StepInv == Inv /\ [Next]_vars => Inv'
  <1> SUFFICES ASSUME Inv, [Next]_vars PROVE Inv'
    OBVIOUS
  <1> USE OAuthAssumption DEF Inv, TypeOK, OnlyCurrent, WaiterInv, CallInv, Working,
          Delivering, Goes, Replies, flowVars, Pending
  <1>1. ASSUME NEW c \in Calls, NEW f \in Flows, NEW l \in Locals, Start(c, f, l)
        PROVE  Inv'
    <2>1. /\ call' \in [Calls -> Call]
          /\ call'[c].pc = "done"
          /\ \A d \in Calls : d # c => call'[d] = call[d]
      BY <1>1, RepliesChange DEF Start, Reply
    <2>2. TypeOK'
      BY <1>1, <2>1 DEF Start
    <2>3. OnlyCurrent'
      BY <1>1 DEF Start
    <2>4. WaiterInv'
      BY <1>1 DEF Start, Unborn
    <2>5. stage[f] = "unborn" /\ stage' = [stage EXCEPT ![f] = "pending"]
      BY <1>1 DEF Start, Unborn
    <2>6. ASSUME NEW d \in Calls, call'[d].pc \in Working
          PROVE  /\ call'[d] = call[d]
                 /\ call[d].flow \in Flows /\ stage[call[d].flow] # "unborn"
                 /\ stage'[call[d].flow] = stage[call[d].flow]
      BY <2>1, <2>5, <2>6
    <2>7. CallInv'
      BY <2>6
    <2> QED
      BY <2>2, <2>3, <2>4, <2>7
  <1>2. ASSUME NEW c \in Calls, StartAgain(c) PROVE Inv'
    <2>1. /\ call' \in [Calls -> Call]
          /\ call'[c].pc = "done"
          /\ \A d \in Calls : d # c => call'[d] = call[d]
      BY <1>2, RepliesChange DEF StartAgain, Reply
    <2>2. TypeOK' /\ OnlyCurrent' /\ WaiterInv'
      BY <1>2, <2>1 DEF StartAgain
    <2>3. CallInv'
      BY <1>2, <2>1 DEF StartAgain
    <2> QED
      BY <2>2, <2>3
  <1>3. ASSUME NEW c \in Calls, NEW kind \in Kinds, NEW cb \in Carried(kind),
               Open(c, kind, cb)
        PROVE  Inv'
    BY <1>3 DEF Open, Arrives, Call, Carried
  <1>4. ASSUME NEW c \in Calls, NEW kind \in Kinds, OpenNone(c, kind) PROVE Inv'
    <2>1. /\ call' \in [Calls -> Call]
          /\ call'[c].pc = "done"
          /\ \A d \in Calls : d # c => call'[d] = call[d]
      BY <1>4, RepliesChange DEF OpenNone, Reply
    <2>2. TypeOK' /\ OnlyCurrent' /\ WaiterInv'
      BY <1>4, <2>1 DEF OpenNone
    <2>3. CallInv'
      BY <1>4, <2>1 DEF OpenNone
    <2> QED
      BY <2>2, <2>3
  <1>5. ASSUME NEW c \in Calls, Check(c) PROVE Inv'
    BY <1>5 DEF Check, Call
  <1>6. ASSUME NEW c \in Calls, Settle(c) PROVE Inv'
    BY <1>6 DEF Settle, Call, Callback
  <1>7. ASSUME NEW c \in Calls, Send(c) PROVE Inv'
    <2> DEFINE f == call[c].flow
    <2>1. /\ f \in Flows /\ stage[f] = "closed"
          /\ call[c].cb.key \in Keys
      BY <1>7 DEF Send, Callback
    <2>2. call' \in [Calls -> Call] /\ CallInv'
      <3>1. CASE call[c].kind = "paste"
        BY <1>7, <3>1 DEF Send, Call
      <3>2. CASE call[c].kind # "paste"
        <4>1. /\ call' \in [Calls -> Call]
              /\ call'[c].pc = "done"
              /\ \A d \in Calls : d # c => call'[d] = call[d]
          BY <1>7, <3>2, RepliesChange DEF Send, Reply
        <4> QED
          BY <1>7, <4>1 DEF Send
      <3> QED
        BY <3>1, <3>2
    <2>3. resultCh' \in [Flows -> Keys \cup {NoKey}]
      BY <1>7, <2>1 DEF Send
    <2>4. TypeOK' /\ OnlyCurrent' /\ WaiterInv'
      BY <1>7, <2>1, <2>2, <2>3 DEF Send
    <2> QED
      BY <2>2, <2>4
  <1>8. ASSUME NEW c \in Calls, AddByCall(c) PROVE Inv'
    <2>1. /\ call' \in [Calls -> Call]
          /\ call'[c].pc = "done"
          /\ \A d \in Calls : d # c => call'[d] = call[d]
      BY <1>8, RepliesChange DEF AddByCall, Reply
    <2>2. TypeOK' /\ OnlyCurrent' /\ WaiterInv'
      BY <1>8, <2>1 DEF AddByCall, Callback
    <2>3. CallInv'
      BY <1>8, <2>1 DEF AddByCall, Callback
    <2> QED
      BY <2>2, <2>3
  <1>9. ASSUME NEW c \in Calls, Abort(c) PROVE Inv'
    BY <1>9 DEF Abort, Call
  <1>10. ASSUME NEW c \in Calls, CloseFlow(c) PROVE Inv'
    <2>1. /\ call' \in [Calls -> Call]
          /\ call'[c].pc = "done"
          /\ \A d \in Calls : d # c => call'[d] = call[d]
      BY <1>10, RepliesChange DEF CloseFlow, Reply
    <2>2. TypeOK' /\ OnlyCurrent' /\ WaiterInv'
      BY <1>10, <2>1 DEF CloseFlow
    <2>3. CallInv'
      BY <1>10, <2>1 DEF CloseFlow
    <2> QED
      BY <2>2, <2>3
  <1>11. ASSUME NEW f \in Flows, Listen(f) PROVE Inv'
    BY <1>11 DEF Listen
  <1>12. ASSUME NEW f \in Flows, Claim(f) PROVE Inv'
    BY <1>12 DEF Claim
  <1>13. ASSUME NEW f \in Flows, Canceled(f) PROVE Inv'
    BY <1>13 DEF Canceled, Failed
  <1>14. ASSUME NEW f \in Flows, AddByWaiter(f) PROVE Inv'
    BY <1>14 DEF AddByWaiter
  <1>15. ASSUME NEW f \in Flows, TimedOut(f) PROVE Inv'
    BY <1>15 DEF TimedOut, Failed
  <1>16. CASE UNCHANGED vars
    BY <1>16 DEF vars
  <1> QED
    BY <1>1, <1>2, <1>3, <1>4, <1>5, <1>6, <1>7, <1>8, <1>9, <1>10, <1>11, <1>12,
       <1>13, <1>14, <1>15, <1>16 DEF Next, Handle, Await

\* The inductive invariant of the handlers and the waiters.
THEOREM Invariant == Spec => []Inv
  BY InitInv, StepInv, PTL DEF Spec

\* Every variable of the flows and their handlers keeps its type.
THEOREM TypeCorrect == Spec => []TypeOK
  BY Invariant, PTL DEF Inv

-----------------------------------------------------------------------------
(***************************************************************************)
(* The refinement.  A verdict is read off the flow and its waiter alone.   *)
(***************************************************************************)
verdict == [f \in Flows |-> Verdict(f)]

LEMMA InitVerdict == Init => Promise!Init
  BY DEF Init, Promise!Init, Verdict, StateName

LEMMA SameVerdict ==
    ASSUME UNCHANGED <<stage, err, waiter>>
    PROVE  verdict' = verdict
  BY DEF verdict, Verdict, StateName

\* What changes the record of one flow changes at most its verdict.
LEMMA OneVerdict ==
    ASSUME TypeOK, NEW f \in Flows,
           \A g \in Flows : g # f =>
              stage'[g] = stage[g] /\ err'[g] = err[g] /\ waiter'[g] = waiter[g]
    PROVE  verdict' = [verdict EXCEPT ![f] = Verdict(f)']
  <1>1. \A g \in Flows : g # f => Verdict(g)' = Verdict(g)
    BY DEF Verdict, StateName
  <1>2. verdict' = [g \in Flows |-> Verdict(g)']
    BY DEF verdict
  <1> QED
    BY <1>1, <1>2 DEF verdict

LEMMA StepVerdict == Inv /\ [Next]_vars => [Promise!Next]_verdict
  <1> SUFFICES ASSUME Inv, [Next]_vars PROVE [Promise!Next]_verdict
    OBVIOUS
  <1> USE DEF Inv, TypeOK
  <1>1. ASSUME NEW c \in Calls, NEW f \in Flows, NEW l \in Locals, Start(c, f, l)
        PROVE  Promise!Begin(f)
    <2>1. stage' = [stage EXCEPT ![f] = "pending"] /\ UNCHANGED <<err, waiter>>
      BY <1>1 DEF Start
    <2>2. \A g \in Flows : stage[g] # "pending"
      BY <1>1 DEF Start, Pending, OnlyCurrent
    <2>3. stage[f] = "unborn"
      BY <1>1 DEF Start, Unborn
    <2>4. \A g \in Flows : verdict[g] # "open"
      BY <2>2 DEF verdict, Verdict, StateName
    <2>5. verdict[f] = "unborn" /\ Verdict(f)' = "open"
      BY <2>1, <2>3 DEF verdict, Verdict, StateName
    <2>6. verdict' = [verdict EXCEPT ![f] = "open"]
      BY <2>1, <2>5, OneVerdict
    <2> QED
      BY <2>4, <2>5, <2>6 DEF Promise!Begin, verdict
  <1>2. ASSUME NEW f \in Flows, stage[f] # "unborn",
               stage' = [stage EXCEPT ![f] = "closed"], UNCHANGED <<err, waiter>>
        PROVE  Promise!Close(f) \/ verdict' = verdict
    <2>1. verdict' = [verdict EXCEPT ![f] = Verdict(f)']
      BY <1>2, OneVerdict
    <2>2. CASE stage[f] = "pending"
      <3>1. waiter[f] = "waiting"
        BY <2>2 DEF WaiterInv
      <3>2. verdict[f] = "open" /\ Verdict(f)' = "closing"
        BY <1>2, <2>2, <3>1 DEF verdict, Verdict, StateName
      <3> QED
        BY <2>1, <3>2 DEF Promise!Close, verdict
    <2>3. CASE stage[f] = "closed"
      BY <1>2, <2>3, SameVerdict
    <2> QED
      BY <1>2, <2>2, <2>3
  <1>3. ASSUME NEW f \in Flows, Claim(f) PROVE Promise!Succeed(f)
    <2>1. /\ stage[f] = "closed" /\ waiter[f] = "waiting" /\ err[f] = "none"
          /\ stage' = [stage EXCEPT ![f] = "closed"] /\ UNCHANGED err
          /\ waiter' = [waiter EXCEPT ![f] = "claimed"]
      BY <1>3 DEF Claim, WaiterInv
    <2>2. verdict[f] = "closing" /\ Verdict(f)' = "success"
      BY <2>1 DEF verdict, Verdict, StateName
    <2>3. verdict' = [verdict EXCEPT ![f] = "success"]
      BY <2>1, <2>2, OneVerdict
    <2> QED
      BY <2>2, <2>3 DEF Promise!Succeed, verdict
  <1>4. ASSUME NEW f \in Flows, Canceled(f) \/ TimedOut(f) PROVE Promise!Fail(f)
    <2>1. PICK e \in {"canceled", "timeout"} :
             /\ stage[f] # "unborn" /\ waiter[f] = "waiting"
             /\ stage' = [stage EXCEPT ![f] = "closed"]
             /\ err' = [err EXCEPT ![f] = e]
             /\ waiter' = [waiter EXCEPT ![f] = "ended"]
      BY <1>4 DEF Canceled, TimedOut, Failed
    <2>2. verdict[f] \in {"open", "closing"} /\ Verdict(f)' = "failed"
      BY <2>1 DEF verdict, Verdict, StateName
    <2>3. verdict' = [verdict EXCEPT ![f] = "failed"]
      BY <2>1, <2>2, OneVerdict
    <2> QED
      BY <2>2, <2>3 DEF Promise!Fail, verdict
  <1>5. ASSUME NEW f \in Flows, AddByWaiter(f) PROVE verdict' = verdict
    <2>1. /\ stage[f] = "closed" /\ waiter[f] = "claimed"
          /\ UNCHANGED <<stage, err>> /\ waiter' = [waiter EXCEPT ![f] = "ended"]
      BY <1>5 DEF AddByWaiter, WaiterInv
    <2>2. Verdict(f)' = Verdict(f)
      BY <2>1 DEF Verdict, StateName
    <2>3. verdict' = [verdict EXCEPT ![f] = Verdict(f)]
      BY <2>1, <2>2, OneVerdict
    <2> QED
      BY <2>3 DEF verdict
  <1>6. ASSUME NEW c \in Calls, Settle(c) \/ CloseFlow(c)
        PROVE  Promise!Next \/ verdict' = verdict
    <2>1. /\ call[c].flow \in Flows /\ stage[call[c].flow] # "unborn"
          /\ stage' = [stage EXCEPT ![call[c].flow] = "closed"]
          /\ UNCHANGED <<err, waiter>>
      BY <1>6 DEF Settle, CloseFlow, CallInv, Working
    <2> QED
      BY <2>1, <1>2 DEF Promise!Next
  <1>7. ASSUME NEW c \in Calls,
               \/ StartAgain(c) \/ Check(c) \/ Send(c) \/ AddByCall(c) \/ Abort(c)
               \/ \E kind \in Kinds, cb \in Callback \cup {NoCallback} : Open(c, kind, cb)
               \/ \E kind \in Kinds : OpenNone(c, kind)
        PROVE  verdict' = verdict
    BY <1>7, SameVerdict
    DEF StartAgain, Check, Send, AddByCall, Abort, Open, OpenNone, flowVars
  <1>8. ASSUME NEW f \in Flows, Listen(f) PROVE verdict' = verdict
    BY <1>8, SameVerdict DEF Listen
  <1>9. CASE UNCHANGED vars
    BY <1>9, SameVerdict DEF vars
  <1> QED
    BY <1>1, <1>3, <1>4, <1>5, <1>6, <1>7, <1>8, <1>9
    DEF Next, Handle, Await, Carried, Promise!Next

(***************************************************************************)
(* Sign-ins run one at a time, and the verdict of each one stands: the     *)
(* flow, its handlers and its waiter implement SignIn.                     *)
(***************************************************************************)
THEOREM SignInImplemented == Spec => ImplementsSignIn
  <1>1. Init => Promise!Init
    BY InitVerdict
  <1>2. Inv /\ [Next]_vars => [Promise!Next]_verdict
    BY StepVerdict
  <1> QED
    BY <1>1, <1>2, Invariant, PTL DEF Spec, ImplementsSignIn, Promise!Spec, verdict

=============================================================================
