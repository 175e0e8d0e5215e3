------------------------------ MODULE Conversation ------------------------------
(***************************************************************************)
(* A conversation of an agent that is sent to the gateway again with every *)
(* turn, and what the upstreams are shown of it: openAIToCC (cc.go) for    *)
(* Command Code, chatRequestToResponses (zen_responses_request.go) for the *)
(* Responses models of zen.  The client may change the model between two   *)
(* turns.                                                                  *)
(*                                                                         *)
(* A text is a member of Words, or blank; the arguments of a call are      *)
(* acceptable or not, an image is inline, remote or without a URL.  Tools, *)
(* budgets and the name of the model are left out.                         *)
(***************************************************************************)
EXTENDS Naturals, Sequences, SequencesExt

CONSTANTS
    Ids, NoId,      \* ids of tool calls
    Names, NoName,  \* names of tools
    Words,          \* texts
    Messages,       \* the messages a client may add
    MaxMessages     \* bound: messages of the conversation

Instructing == {"system", "developer"}

Parts == Words \cup {"blank", "image", "remote", "nourl", "other"}

Call == [id : Ids \cup {NoId}, name : Names \cup {NoName}, valid : BOOLEAN]

Message ==
    [role : {"system", "developer", "user", "assistant", "tool"}, parts : Seq(Parts),
     reasoning : BOOLEAN, calls : Seq(Call), id : Ids \cup {NoId}, name : Names \cup {NoName}]

ASSUME ConversationAssumption ==
    /\ NoId \notin Ids /\ NoName \notin Names
    /\ Words \cap {"blank", "image", "remote", "nourl", "other"} = {}
    /\ Messages \subseteq Message
    /\ \A m \in Messages : m.calls # <<>> => m.role = "assistant"
    /\ MaxMessages \in Nat

VARIABLES
    history,  \* the messages of the last request
    cc,       \* what Command Code was shown last
    zen       \* what the Responses API was shown last

vars == <<history, cc, zen>>

Init == history = <<>> /\ cc = [system |-> <<>>, messages |-> <<>>] /\ zen = <<>>

-----------------------------------------------------------------------------
(***************************************************************************)
(* Command Code.                                                           *)
(***************************************************************************)
PlainText(m) ==
    FlattenSeq([i \in DOMAIN m.parts |-> IF m.parts[i] \in Words THEN <<m.parts[i]>> ELSE <<>>])

ExtractSystem(h) ==
    FlattenSeq([i \in DOMAIN h |-> IF h[i].role \in Instructing THEN PlainText(h[i]) ELSE <<>>])

RoleToCC(role) == IF role \in {"assistant", "tool"} THEN role ELSE "user"

Refused(m) ==
    \/ /\ m.role = "tool"
       /\ \/ m.id = NoId \/ m.name = NoName
          \/ ~ Range(m.parts) \subseteq Words \cup {"blank"}
    \/ /\ m.role # "tool"
       /\ \/ Range(m.parts) \cap {"remote", "nourl", "other"} # {}
          \/ \E c \in Range(m.calls) : c.id = NoId \/ c.name = NoName \/ ~c.valid

Part(type, text) == [type |-> type, text |-> text, id |-> NoId, name |-> NoName]

\* Images are shown as they are, empty texts not at all.
ShownPart(p) ==
    CASE p = "blank" -> <<>>
      [] p = "image" -> <<Part("image", <<>>)>>
      [] OTHER -> <<Part("text", <<p>>)>>

Shown(m) == FlattenSeq([i \in DOMAIN m.parts |-> ShownPart(m.parts[i])])

ContentToCC(m) ==
    IF m.role = "tool"
    THEN <<[type |-> "tool-result", text |-> PlainText(m), id |-> m.id, name |-> m.name]>>
    ELSE (IF m.reasoning /\ m.role = "assistant" THEN <<Part("reasoning", <<>>)>> ELSE <<>>)
         \o Shown(m)
         \o [i \in DOMAIN m.calls |-> [type |-> "tool-call", text |-> <<>>,
                                       id |-> m.calls[i].id, name |-> m.calls[i].name]]

Named(m, id) == {k \in DOMAIN m.calls : m.calls[k].id = id /\ m.calls[k].name # NoName}

\* A later call with the same id takes the name over.
Learned(names, m) ==
    [id \in Ids |-> IF Named(m, id) = {} THEN names[id] ELSE m.calls[Max(Named(m, id))].name]

Resolved(m, names) ==
    IF m.role = "tool" /\ m.name = NoName /\ m.id # NoId THEN [m EXCEPT !.name = names[m.id]]
                                                        ELSE m

NoNames == [i \in Ids |-> NoName]

Untranslated == [ok |-> TRUE, messages |-> <<>>, names |-> NoNames]

Translated(t, m) ==
    LET names == Learned(t.names, m)
        r == Resolved(m, names)
    IN  IF ~t.ok \/ m.role \in Instructing THEN t
        ELSE IF Refused(r) THEN [t EXCEPT !.ok = FALSE]
        ELSE [ok |-> TRUE, names |-> names,
              messages |-> Append(t.messages, [role |-> RoleToCC(m.role), content |-> ContentToCC(r)])]

\* Mutant: the names are collected before the messages are translated.
MessagesToCCAfterwards(h) ==
    FoldLeft(Translated, [Untranslated EXCEPT !.names = FoldLeft(Learned, NoNames, h)],
             [i \in DOMAIN h |-> Resolved(h[i], FoldLeft(Learned, NoNames, h))])

\* Mutant: the names of a turn are forgotten with the next message of the assistant.
MessagesToCCForgetting(h) ==
    FoldLeft(LAMBDA t, m : Translated(IF m.role = "assistant" THEN [t EXCEPT !.names = NoNames]
                                                             ELSE t, m),
             Untranslated, h)

\* Mutant: the results of one turn share a message.
MessagesToCCMerging(h) ==
    LET Merge(s, m) == IF s # <<>> /\ m.role = "tool" /\ Last(s).role = "tool"
                       THEN Append(Front(s), [m EXCEPT !.content = Last(s).content \o @])
                       ELSE Append(s, m)
        t == FoldLeft(Translated, Untranslated, h)
    IN  [t EXCEPT !.messages = FoldLeft(Merge, <<>>, @)]

MessagesToCC(h) ==
    LET done[i \in 0..Len(h)] == IF i = 0 THEN Untranslated ELSE Translated(done[i - 1], h[i])
    IN  done[Len(h)]

-----------------------------------------------------------------------------
(***************************************************************************)
(* Responses.  Every item is one of the input: a message, a call, a result.*)
(***************************************************************************)
Item(type, role, parts) ==
    [type |-> type, role |-> role, parts |-> parts, id |-> NoId, name |-> NoName]

CallItems(m) ==
    [i \in DOMAIN m.calls |-> [Item("function_call", "assistant", <<>>) EXCEPT
                                 !.id = m.calls[i].id, !.name = m.calls[i].name]]

\* null, no parts, or the empty string, which a blank text alone stands for.
Empty(m) == m.parts \in {<<>>, <<"blank">>}

\* Mutant: a message that calls tools is shown without its text.
ResponsesItemsSilent(m) ==
    IF m.role = "tool" THEN <<[Item("function_call_output", "tool", m.parts) EXCEPT !.id = m.id]>>
    ELSE IF m.role = "assistant"
         THEN (IF Empty(m) \/ m.calls # <<>> THEN <<>> ELSE <<Item("message", m.role, m.parts)>>)
              \o CallItems(m)
    ELSE <<Item("message", m.role, m.parts)>>

ResponsesItems(m) ==
    IF m.role = "tool" THEN <<[Item("function_call_output", "tool", m.parts) EXCEPT !.id = m.id]>>
    ELSE IF m.role = "assistant"
         THEN (IF Empty(m) THEN <<>> ELSE <<Item("message", m.role, m.parts)>>) \o CallItems(m)
    ELSE <<Item("message", m.role, m.parts)>>

ChatRequestToResponses(h) ==
    [ok |-> \A i \in DOMAIN h : Range(h[i].parts) \cap {"nourl", "other"} = {},
     input |-> FlattenSeq([i \in DOMAIN h |-> ResponsesItems(h[i])])]

-----------------------------------------------------------------------------
(***************************************************************************)
(* A turn: the client adds a message, its own, the answer it was given or  *)
(* the result of a tool, and sends the whole conversation.                 *)
(***************************************************************************)
Add(m) == Len(history) < MaxMessages /\ history' = Append(history, m)

AskCommandCode(m) ==
    /\ Add(m)
    /\ LET t == MessagesToCC(history')
       IN  \/ /\ t.ok
              /\ cc' = [system |-> ExtractSystem(history'), messages |-> t.messages]
           \/ ~t.ok /\ UNCHANGED cc
    /\ UNCHANGED zen

AskResponses(m) ==
    /\ Add(m)
    /\ LET t == ChatRequestToResponses(history')
       IN  \/ t.ok /\ zen' = t.input
           \/ ~t.ok /\ UNCHANGED zen
    /\ UNCHANGED cc

Next == \E m \in Messages : AskCommandCode(m) \/ AskResponses(m)

Spec == Init /\ [][Next]_vars

-----------------------------------------------------------------------------
(***************************************************************************)
(* Command Code is asked exactly when every call can be executed, every    *)
(* image is inline and every result is for a call that was made before it, *)
(* in whichever turn, or names its tool: an agent that sends back what it  *)
(* was given is never refused, and an orphaned result always is.           *)
(***************************************************************************)
Answers(h, i) ==
    \E j \in 1..(i - 1) : \E c \in Range(h[j].calls) : c.id = h[i].id /\ c.name # NoName

Sendable(h) ==
    \A i \in DOMAIN h :
        LET m == h[i]
        IN  \/ m.role \in Instructing
            \/ /\ m.role = "tool" /\ m.id # NoId
               /\ m.name # NoName \/ Answers(h, i)
               /\ Range(m.parts) \subseteq Words \cup {"blank"}
            \/ /\ m.role \in {"user", "assistant"}
               /\ Range(m.parts) \subseteq Words \cup {"blank", "image"}
               /\ \A c \in Range(m.calls) : c.valid /\ c.id # NoId /\ c.name # NoName

SentBackIsAccepted == MessagesToCC(history).ok <=> Sendable(history)

(***************************************************************************)
(* Command Code is shown each result under the name of the tool that       *)
(* produced it, which is that of the last call with its id before it:      *)
(* agents use an id again in a later turn, for another tool.               *)
(***************************************************************************)
\* The messages that are not put into the system prompt.
Spoken(h) == FlattenSeq([i \in DOMAIN h |-> IF h[i].role \in Instructing THEN <<>> ELSE <<h[i]>>])

CallsOf(message, id) ==
    {k \in DOMAIN message.content : message.content[k].type = "tool-call" /\ message.content[k].id = id}

\* The last call with an id in the messages before i is for the tool of that name.
CalledLast(messages, i, id, name) ==
    \E j \in 1..(i - 1) :
        /\ CallsOf(messages[j], id) # {}
        /\ \A l \in (j + 1)..(i - 1) : CallsOf(messages[l], id) = {}
        /\ messages[j].content[Max(CallsOf(messages[j], id))].name = name

ResultsNameTheirCalls ==
    \A i \in DOMAIN cc.messages :
        LET m == Spoken(history)[i]
            result == cc.messages[i].content[1]
        IN  m.role = "tool" /\ m.name = NoName => CalledLast(cc.messages, i, result.id, result.name)

(***************************************************************************)
(* Both upstreams are told the same conversation: the same texts of the    *)
(* same speakers, images, calls and results, in the same order, wherever   *)
(* the client goes on with it.                                             *)
(***************************************************************************)
ToldByCC(m) ==
    FlattenSeq([i \in DOMAIN m.content |->
                  LET p == m.content[i]
                  IN  IF p.type = "reasoning" THEN <<>> ELSE << <<m.role, p.type, p.id, p.text>> >>])

ToldCC(messages) == FlattenSeq([i \in DOMAIN messages |-> ToldByCC(messages[i])])

ToldPart(role, p) ==
    CASE p = "blank" -> <<>>
      [] p = "image" -> << <<role, "image", NoId, <<>> >> >>
      [] OTHER -> << <<role, "text", NoId, <<p>> >> >>

ToldByItem(x) ==
    CASE x.type = "function_call" -> << <<"assistant", "tool-call", x.id, <<>> >> >>
      [] x.type = "function_call_output" ->
            << <<"tool", "tool-result", x.id,
                 FlattenSeq([i \in DOMAIN x.parts |->
                               IF x.parts[i] = "blank" THEN <<>> ELSE <<x.parts[i]>>])>> >>
      [] x.type = "message" /\ x.role \notin Instructing ->
            FlattenSeq([i \in DOMAIN x.parts |-> ToldPart(x.role, x.parts[i])])
      [] OTHER -> <<>>

ToldResponses(input) == FlattenSeq([i \in DOMAIN input |-> ToldByItem(input[i])])

SameConversation ==
    LET c == MessagesToCC(history)
        r == ChatRequestToResponses(history)
    IN  /\ c.ok /\ ~r.ok => \E i \in DOMAIN history : history[i].role \in Instructing
        /\ c.ok /\ r.ok => ToldCC(c.messages) = ToldResponses(r.input)

(***************************************************************************)
(* What an upstream was shown is never told differently in a later turn,   *)
(* so that it finds its cached prefix again: a request only adds to the    *)
(* last one, whatever happened between them on the other lane.             *)
(***************************************************************************)
PastUntouched ==
    [][/\ IsPrefix(cc.system, cc'.system) /\ IsPrefix(cc.messages, cc'.messages)
       /\ IsPrefix(zen, zen')]_vars

=============================================================================
