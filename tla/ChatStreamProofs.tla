---------------------------- MODULE ChatStreamProofs ----------------------------
(***************************************************************************)
(* Proofs about ChatStream, for every alphabet of events and streams of    *)
(* any length: the state keeps its type, the chunks on the wire follow the *)
(* grammar, and the role is announced once; in the last sections, that the *)
(* answer says what the events did.                                        *)
(***************************************************************************)
EXTENDS ChatStream, SequenceTheorems, FiniteSetTheorems, TLAPS

-----------------------------------------------------------------------------
(***************************************************************************)
(* Sequences of chunks.                                                    *)
(***************************************************************************)
Below(c, d) ==
    \/ Order(c.kind) < Order(d.kind)
    \/ Order(c.kind) = Order(d.kind) /\ Order(c.kind) <= 2

Ordered(s) == \A i, j \in 1..Len(s) : i < j => Below(s[i], s[j])

\* What an index of a concatenation refers to.
LEMMA ConcatCases ==
    ASSUME NEW S, NEW s \in Seq(S), NEW t \in Seq(S)
    PROVE  /\ s \o t \in Seq(S)
           /\ Len(s \o t) = Len(s) + Len(t)
           /\ \A i \in 1..Len(s \o t) :
                 \/ i \in 1..Len(s) /\ (s \o t)[i] = s[i]
                 \/ /\ i - Len(s) \in 1..Len(t)
                    /\ i > Len(s)
                    /\ (s \o t)[i] = t[i - Len(s)]
           /\ \A i \in 1..Len(s) : i \in 1..Len(s \o t) /\ (s \o t)[i] = s[i]
           /\ \A i \in 1..Len(t) :
                 i + Len(s) \in 1..Len(s \o t) /\ (s \o t)[i + Len(s)] = t[i]
  BY ConcatProperties, LenProperties

\* Ordered sequences may be joined when all of the first comes before all of
\* the second.
LEMMA OrderedConcat ==
    ASSUME NEW S, NEW s \in Seq(S), NEW t \in Seq(S), Ordered(s), Ordered(t),
           \A i \in 1..Len(s), j \in 1..Len(t) : Below(s[i], t[j])
    PROVE  Ordered(s \o t)
<1> SUFFICES ASSUME NEW i \in 1..Len(s \o t), NEW j \in 1..Len(s \o t), i < j
             PROVE  Below((s \o t)[i], (s \o t)[j])
  BY DEF Ordered
<1>1. CASE i \in 1..Len(s) /\ (s \o t)[i] = s[i] /\ j \in 1..Len(s) /\ (s \o t)[j] = s[j]
  BY <1>1 DEF Ordered
<1>2. CASE /\ i \in 1..Len(s) /\ (s \o t)[i] = s[i]
           /\ j - Len(s) \in 1..Len(t) /\ (s \o t)[j] = t[j - Len(s)]
  BY <1>2
<1>3. CASE /\ i - Len(s) \in 1..Len(t) /\ (s \o t)[i] = t[i - Len(s)] /\ i > Len(s)
           /\ j - Len(s) \in 1..Len(t) /\ (s \o t)[j] = t[j - Len(s)]
  BY <1>3, LenProperties DEF Ordered
<1>4. i > Len(s) => ~(j \in 1..Len(s))
  BY LenProperties
<1> QED
  BY <1>1, <1>2, <1>3, <1>4, ConcatCases

LEMMA Ranks ==
    /\ \A k \in Delta : Order(k) = 1
    /\ Order("call") = 2
    /\ Order("finish") = 3 /\ Order("error") = 3 /\ Order("answer") = 3
    /\ Order("usage") = 4
    /\ Order("DONE") = 5
  BY DEF Order, Delta

LEMMA AppendCases ==
    ASSUME NEW S, NEW s \in Seq(S), NEW x \in S
    PROVE  /\ Append(s, x) \in Seq(S)
           /\ Len(Append(s, x)) = Len(s) + 1
           /\ \A i \in 1..Len(s) : Append(s, x)[i] = s[i]
           /\ Append(s, x)[Len(s) + 1] = x
           /\ \A i \in 1..Len(Append(s, x)) : i \in 1..Len(s) \/ i = Len(s) + 1
  BY AppendProperties, LenProperties

LEMMA Singletons ==
    ASSUME NEW S, NEW x \in S
    PROVE  <<x>> \in Seq(S) /\ Len(<<x>>) = 1 /\ <<x>>[1] = x
  OBVIOUS

-----------------------------------------------------------------------------
(***************************************************************************)
(* Types.                                                                  *)
(***************************************************************************)
LEMMA ContentChunks ==
    ASSUME NEW k \in Delta, NEW t \in Texts, NEW r \in BOOLEAN
    PROVE  /\ [kind |-> k, text |-> t, role |-> r] \in Chunk
           /\ [kind |-> k, text |-> t] \in [kind : Delta, text : Texts]
  BY DEF Chunk

LEMMA EndChunks ==
    /\ [kind |-> "error"] \in Chunk
    /\ [kind |-> "DONE"] \in Chunk
    /\ \A r \in Reasons \cup {"tool_calls", "length"} : [kind |-> "finish", reason |-> r] \in Chunk
    /\ \A u \in Usages \cup {NoUsage} : [kind |-> "usage", usage |-> u] \in Chunk
  BY DEF Chunk

LEMMA AnswerChunks ==
    ASSUME NEW t \in Seq([kind : Delta, text : Texts]), NEW c \in Seq(Call),
           NEW r \in Reasons \cup {"tool_calls", "length"}
    PROVE  [kind |-> "answer", text |-> t, calls |-> c, reason |-> r] \in Chunk
  BY DEF Chunk

LEMMA EventFields ==
    ASSUME NEW e \in Event
    PROVE  /\ e.type \in Delta => e.text \in Texts
           /\ e.type = "tool-call" => /\ e.id \in CallIDs \cup {NoID}
                                      /\ e.args \in Arguments \cup {BadArguments}
           /\ e.type \in {"tool-input-start", "tool-input-delta", "tool-input-end", "tool-error"}
                => e.id \in CallIDs \cup {NoID}
           /\ e.type \in {"finish-step", "finish"} => e.usage \in Usages \cup {NoUsage}
           /\ e.type = "finish" => e.reason \in Reasons \cup {Unknown}
  BY DEF Event, Delta

LEMMA NormalizerTypes ==
    ASSUME NEW n \in Normalizer, NEW e \in Event, ~Refused(n, e)
    PROVE  Consumed(n, e) \in Normalizer
<1>1. CASE e.type = "tool-call"
  <2>1. [id |-> e.id, args |-> e.args] \in Call
    BY <1>1, EventFields DEF Refused, Call
  <2>2. Deduplicated(n.kept, [id |-> e.id, args |-> e.args]) \in Seq(Call)
    <3>1. n.kept \in Seq(Call)
      BY DEF Normalizer
    <3> QED
      BY <2>1, <3>1, AppendProperties DEF Deduplicated
  <2>3. Consumed(n, e) = [n EXCEPT !.kept = Deduplicated(n.kept, [id |-> e.id, args |-> e.args])]
    BY <1>1 DEF Consumed
  <2> QED
    BY <2>2, <2>3 DEF Normalizer
<1>2. CASE e.type \in {"tool-input-start", "tool-input-delta"}
  BY <1>2, EventFields DEF Refused, Consumed, Normalizer
<1>3. CASE e.type \in {"tool-input-end", "tool-error"}
  BY <1>3, EventFields DEF Refused, Consumed, Normalizer
<1>4. CASE e.type = "finish-step"
  BY <1>4, EventFields DEF Consumed, Normalizer, WithUsage
<1>5. CASE e.type = "finish"
  BY <1>5, EventFields DEF Consumed, Normalizer, WithUsage
<1>6. CASE e.type \notin {"tool-call", "tool-input-start", "tool-input-delta",
                          "tool-input-end", "tool-error", "finish-step", "finish"}
  BY <1>6 DEF Consumed
<1> QED
  BY <1>1, <1>2, <1>3, <1>4, <1>5, <1>6

LEMMA CallChunkTypes ==
    ASSUME TypeOK
    PROVE  /\ CallChunks \in Seq(Chunk)
           /\ Len(CallChunks) = Len(norm.kept)
           /\ \A i \in 1..Len(CallChunks) :
                 CallChunks[i].kind = "call" /\ CallChunks[i].role = (firstText /\ i = 1)
<1>1. norm.kept \in Seq(Call) /\ Len(norm.kept) \in Nat
  BY LenProperties DEF TypeOK, Normalizer
<1>2. \A i \in 1..Len(norm.kept) :
         [kind |-> "call", call |-> norm.kept[i], role |-> firstText /\ i = 1] \in Chunk
  <2> SUFFICES ASSUME NEW i \in 1..Len(norm.kept)
               PROVE  [kind |-> "call", call |-> norm.kept[i], role |-> firstText /\ i = 1] \in Chunk
    OBVIOUS
  <2>1. norm.kept[i] \in Call
    BY <1>1, ElementOfSeq
  <2>2. (firstText /\ i = 1) \in BOOLEAN
    OBVIOUS
  <2> QED
    BY <2>1, <2>2 DEF Chunk
<1>3. CallChunks \in [1..Len(norm.kept) -> Chunk]
  BY <1>2 DEF CallChunks
<1>4. CallChunks \in Seq(Chunk)
  BY <1>1, <1>3, SeqDef
<1>5. Len(CallChunks) = Len(norm.kept)
  BY <1>1, <1>3, <1>4, LenProperties
<1> QED
  BY <1>4, <1>5 DEF CallChunks

LEMMA ReasonTypes ==
    ASSUME NEW r \in Reasons, NEW b \in BOOLEAN
    PROVE  resolveFinishReason(r, b) \in Reasons \cup {"tool_calls", "length"}
  BY DEF resolveFinishReason

-----------------------------------------------------------------------------
(***************************************************************************)
(* The inductive invariant.  The grammar alone does not say that a stream  *)
(* that is still open has sent nothing but content, nor that a stream that *)
(* is over cannot meet another finish, nor that the plain handler knows    *)
(* the reason of a turn that is finished.                                  *)
(***************************************************************************)
FirstMarks == \A i \in Kinds(Delta \cup {"call"}) : out[i].role = (i = 1)

OpenStream ==
    mode = "stream" /\ ~done =>
        /\ \A i \in 1..Len(out) : out[i].kind \in Delta
        /\ firstText <=> out = <<>>

OverMeansFinished == done => norm.finished \/ phase # "reading"

QuietUntilAnswer == mode = "plain" /\ ~closed => out = <<>>

ReasonKept == mode = "plain" /\ norm.finished => final \in Reasons

IInv ==
    /\ TypeOK
    /\ StreamGrammar
    /\ FirstMarks
    /\ OpenStream
    /\ OverMeansFinished
    /\ ReasonKept
    /\ QuietUntilAnswer

\* The part of the invariant that speaks of the wire.
Wire == StreamGrammar /\ FirstMarks /\ OpenStream /\ QuietUntilAnswer

LEMMA InitInvariant == Init => IInv
<1> SUFFICES ASSUME Init PROVE IInv
  OBVIOUS
<1>1. TypeOK
  <2>1. norm \in Normalizer
    BY DEF Init, Normalizer
  <2>2. recorded \in Usages \cup {NoUsage, -1}
    BY DEF Init
  <2>3. options \in BOOLEAN
    BY DEF Init
  <2>4. text \in Seq([kind : Delta, text : Texts]) /\ calls \in Seq(Call)
        /\ out \in Seq(Chunk) /\ seen \in Seq(Event)
    <3>1. \A S : <<>> \in Seq(S)
      BY EmptySeq
    <3> QED
      BY <3>1 DEF Init
  <2>5. /\ mode \in {"stream", "plain"}
        /\ phase \in {"reading", "eof", "DONE", "failed"}
        /\ firstText \in BOOLEAN /\ finishing \in BOOLEAN /\ done \in BOOLEAN
        /\ final \in Reasons \cup {"none"}
        /\ closed \in BOOLEAN
    BY DEF Init
  <2> QED
    BY <2>1, <2>2, <2>3, <2>4, <2>5 DEF TypeOK
<1>2. Wire
  BY DEF Init, Wire, StreamGrammar, FirstMarks, OpenStream, QuietUntilAnswer, Kinds
<1> QED
  BY <1>1, <1>2 DEF Init, IInv, Wire, OverMeansFinished, ReasonKept

\* Nothing on the wire changes when the variables it depends on do not.
LEMMA WireUnchanged ==
    ASSUME Wire, UNCHANGED <<mode, firstText, done, out, closed>>
    PROVE  Wire'
  BY DEF Wire, StreamGrammar, FirstMarks, OpenStream, QuietUntilAnswer, Kinds

\* One more fragment of content on an open stream.
LEMMA WireContent ==
    ASSUME TypeOK, Wire, mode = "stream", ~done, UNCHANGED <<mode, done, closed>>,
           NEW k \in Delta, NEW t \in Texts,
           out' = Append(out, [kind |-> k, text |-> t, role |-> firstText]),
           firstText' = FALSE
    PROVE  Wire' /\ out' \in Seq(Chunk)
<1> DEFINE c == [kind |-> k, text |-> t, role |-> firstText]
<1>1. out \in Seq(Chunk) /\ c \in Chunk /\ Len(out) \in Nat
  BY ContentChunks, LenProperties DEF TypeOK
<1>2. /\ out' \in Seq(Chunk)
      /\ Len(out') = Len(out) + 1
      /\ \A i \in 1..Len(out) : out'[i] = out[i]
      /\ out'[Len(out) + 1] = c
      /\ \A i \in 1..Len(out') : i \in 1..Len(out) \/ i = Len(out) + 1
  BY <1>1, AppendCases
<1>3. \A i \in 1..Len(out) : out[i].kind \in Delta
  BY DEF Wire, OpenStream
<1>4. \A i \in 1..Len(out') : out'[i].kind \in Delta
  BY <1>2, <1>3
<1>5. out = <<>> <=> Len(out) = 0
  BY <1>1, EmptySeq
<1>6. firstText <=> Len(out) = 0
  BY <1>5 DEF Wire, OpenStream
<1>7. FirstMarks'
  <2> SUFFICES ASSUME NEW i \in 1..Len(out') PROVE out'[i].role = (i = 1)
    BY DEF FirstMarks, Kinds
  <2>1. CASE i \in 1..Len(out)
    BY <2>1, <1>2, <1>3 DEF Wire, FirstMarks, Kinds
  <2>2. CASE i = Len(out) + 1
    <3>1. out'[i].role = firstText
      BY <2>2, <1>2
    <3>2. (i = 1) <=> firstText
      BY <2>2, <1>1, <1>6
    <3>3. firstText \in BOOLEAN
      BY DEF TypeOK
    <3> QED
      BY <3>1, <3>2, <3>3
  <2> QED
    BY <2>1, <2>2, <1>2
<1>8. StreamGrammar'
  <2>1. \A i, j \in 1..Len(out') :
           i < j => \/ Order(out'[i].kind) < Order(out'[j].kind)
                    \/ Order(out'[i].kind) = Order(out'[j].kind) /\ Order(out'[i].kind) <= 2
    <3>1. \A i \in 1..Len(out') : Order(out'[i].kind) = 1
      BY <1>4, Ranks
    <3> QED
      BY <3>1
  <2>2. Kinds({"error"})' = {} /\ Kinds({"DONE"})' = {} /\ Kinds({"call", "usage", "DONE"})' = {}
    BY <1>4 DEF Kinds, Delta
  <2>3. (mode = "stream" /\ closed => done)'
    BY DEF Wire, StreamGrammar
  <2> QED
    BY <2>1, <2>2, <2>3 DEF StreamGrammar
<1>9. OpenStream'
  <2>1. out' # <<>>
    BY <1>1, <1>2
  <2> QED
    BY <2>1, <1>4 DEF OpenStream
<1> QED
  BY <1>2, <1>7, <1>8, <1>9 DEF Wire, QuietUntilAnswer

\* The chunks of a committed stream, before its finish.
LEMMA CommitHead ==
    ASSUME TypeOK, Wire, mode = "stream", ~done
    PROVE  /\ out \o CallChunks \in Seq(Chunk)
           /\ Ordered(out \o CallChunks)
           /\ \A i \in 1..Len(out \o CallChunks) :
                 /\ (out \o CallChunks)[i].kind \in Delta \cup {"call"}
                 /\ (out \o CallChunks)[i].role = (i = 1)
<1> DEFINE H == out \o CallChunks
<1>1. out \in Seq(Chunk) /\ CallChunks \in Seq(Chunk)
  BY CallChunkTypes DEF TypeOK
<1>2. Len(out) \in Nat /\ Len(CallChunks) \in Nat
  BY <1>1, LenProperties
<1>3. \A i \in 1..Len(out) : out[i].kind \in Delta
  BY DEF Wire, OpenStream
<1>4. \A i \in 1..Len(CallChunks) :
         CallChunks[i].kind = "call" /\ CallChunks[i].role = (firstText /\ i = 1)
  BY CallChunkTypes
<1>5. firstText <=> Len(out) = 0
  BY <1>1, EmptySeq DEF Wire, OpenStream
<1>6. Ordered(out)
  <2>1. \A i \in 1..Len(out) : Order(out[i].kind) = 1
    BY <1>3, Ranks
  <2> QED
    BY <2>1 DEF Ordered, Below
<1>7. Ordered(CallChunks)
  <2>1. \A i \in 1..Len(CallChunks) : Order(CallChunks[i].kind) = 2
    BY <1>4, Ranks
  <2> QED
    BY <2>1 DEF Ordered, Below
<1>8. \A i \in 1..Len(out), j \in 1..Len(CallChunks) : Below(out[i], CallChunks[j])
  <2> TAKE i \in 1..Len(out), j \in 1..Len(CallChunks)
  <2>1. Order(out[i].kind) = 1 /\ Order(CallChunks[j].kind) = 2
    BY <1>3, <1>4, Ranks
  <2> QED
    BY <2>1 DEF Below
<1>9. H \in Seq(Chunk) /\ Ordered(H)
  BY <1>1, <1>6, <1>7, <1>8, ConcatCases, OrderedConcat
<1>10. ASSUME NEW i \in 1..Len(H)
       PROVE  H[i].kind \in Delta \cup {"call"} /\ H[i].role = (i = 1)
  <2>1. CASE i \in 1..Len(out) /\ H[i] = out[i]
    BY <2>1, <1>3 DEF Wire, FirstMarks, Kinds
  <2>2. CASE i - Len(out) \in 1..Len(CallChunks) /\ i > Len(out) /\ H[i] = CallChunks[i - Len(out)]
    <3>1. H[i].kind = "call" /\ H[i].role = (firstText /\ i - Len(out) = 1)
      BY <2>2, <1>4
    <3>2. i \in Nat
      BY <2>2, <1>2
    <3>3. (firstText /\ i - Len(out) = 1) <=> (i = 1)
      BY <2>2, <3>2, <1>2, <1>5
    <3>4. firstText \in BOOLEAN
      BY DEF TypeOK
    <3> QED
      BY <3>1, <3>3, <3>4
  <2> QED
    BY <2>1, <2>2, <1>1, ConcatCases
<1> QED
  BY <1>9, <1>10

\* A sequence with one more element of a higher rank.
LEMMA OrderedEnd ==
    ASSUME NEW s \in Seq(Chunk), Ordered(s), NEW c \in Chunk,
           \A i \in 1..Len(s) : Order(s[i].kind) < Order(c.kind)
    PROVE  /\ s \o <<c>> \in Seq(Chunk)
           /\ Ordered(s \o <<c>>)
           /\ Len(s \o <<c>>) = Len(s) + 1
           /\ \A i \in 1..Len(s) : i \in 1..Len(s \o <<c>>) /\ (s \o <<c>>)[i] = s[i]
           /\ (s \o <<c>>)[Len(s) + 1] = c
           /\ \A i \in 1..Len(s \o <<c>>) : i \in 1..Len(s) \/ i = Len(s) + 1
<1>1. <<c>> \in Seq(Chunk) /\ Len(<<c>>) = 1 /\ <<c>>[1] = c /\ Len(s) \in Nat
  BY Singletons, LenProperties
<1>2. Ordered(<<c>>)
  BY <1>1 DEF Ordered
<1>3. \A i \in 1..Len(s), j \in 1..Len(<<c>>) : Below(s[i], <<c>>[j])
  <2> TAKE i \in 1..Len(s), j \in 1..Len(<<c>>)
  <2>1. <<c>>[j] = c
    BY <1>1
  <2> QED
    BY <2>1 DEF Below
<1>4. Ordered(s \o <<c>>)
  BY <1>1, <1>2, <1>3, OrderedConcat
<1>5. s \o <<c>> = Append(s, c)
  BY <1>1, AppendIsConcat
<1> QED
  BY <1>4, <1>5, AppendCases, <1>1

ContentOrCall(c) == c.kind \in Delta \cup {"call"}

\* The head of a stream, the chunk that ends it, and its usage chunk, if any.
Closable(s, c, us) ==
    /\ s \in Seq(Chunk)
    /\ Ordered(s)
    /\ \A i \in 1..Len(s) : ContentOrCall(s[i]) /\ s[i].role = (i = 1)
    /\ c \in Chunk
    /\ c.kind \in {"finish", "error"}
    /\ c.kind = "error" => \A i \in 1..Len(s) : s[i].kind # "call"
    /\ \/ us = <<>>
       \/ /\ c.kind = "finish"
          /\ \E u \in Usages \cup {NoUsage} : us = <<[kind |-> "usage", usage |-> u]>>

Closed(s, c, us) == s \o <<c>> \o us \o <<[kind |-> "DONE"]>>

\* A stream that is closed behind its content and calls.
LEMMA ClosedTail ==
    ASSUME NEW s, NEW c, NEW us, Closable(s, c, us)
    PROVE  LET t == Closed(s, c, us)
           IN  /\ t \in Seq(Chunk)
               /\ Ordered(t)
               /\ \A i \in 1..Len(t) :
                     \/ i \in 1..Len(s) /\ t[i] = s[i]
                     \/ t[i].kind \in {c.kind, "DONE"}
                     \/ t[i].kind = "usage" /\ c.kind = "finish"
               /\ \E i \in 1..Len(t) : t[i].kind = c.kind
               /\ \E i \in 1..Len(t) : t[i].kind = "DONE"
<1> DEFINE t == Closed(s, c, us)
<1> USE DEF Closable
<1> PICK u \in Usages \cup {NoUsage} :
         us = <<>> \/ (us = <<[kind |-> "usage", usage |-> u]>> /\ c.kind = "finish")
  OBVIOUS
<1> DEFINE D == [kind |-> "DONE"]
           U == [kind |-> "usage", usage |-> u]
           a == s \o <<c>>
           b == a \o us
<1>1. /\ D \in Chunk /\ U \in Chunk /\ Len(s) \in Nat
      /\ D.kind = "DONE" /\ U.kind = "usage"
  BY EndChunks, LenProperties
<1>2. Order(c.kind) = 3 /\ Order("usage") = 4 /\ Order("DONE") = 5
  BY Ranks
<1>3. \A i \in 1..Len(s) : Order(s[i].kind) \in {1, 2}
  BY Ranks DEF ContentOrCall
<1>4. /\ a \in Seq(Chunk) /\ Ordered(a) /\ Len(a) = Len(s) + 1
      /\ \A i \in 1..Len(s) : a[i] = s[i]
      /\ a[Len(s) + 1] = c
      /\ \A i \in 1..Len(a) : i \in 1..Len(s) \/ i = Len(s) + 1
  <2>1. \A i \in 1..Len(s) : Order(s[i].kind) < Order(c.kind)
    BY <1>2, <1>3
  <2> QED
    BY <2>1, OrderedEnd
<1> HIDE DEF a, b, D, U
<1>5. \A i \in 1..Len(a) : Order(a[i].kind) \in {1, 2, 3}
  BY <1>4, <1>3, <1>2
<1>6. /\ b \in Seq(Chunk) /\ Ordered(b) /\ Len(b) \in Nat /\ Len(a) <= Len(b)
      /\ \A i \in 1..Len(a) : b[i] = a[i]
      /\ \A i \in 1..Len(b) : i \in 1..Len(a) \/ (b[i].kind = "usage" /\ c.kind = "finish")
      /\ \A i \in 1..Len(b) : Order(b[i].kind) \in {1, 2, 3, 4}
  <2>1. CASE us = <<>>
    <3>1. b = a
      BY <2>1, <1>4, ConcatEmptySeq DEF b
    <3> QED
      BY <3>1, <1>4, <1>5, <1>1
  <2>2. CASE us = <<U>> /\ c.kind = "finish"
    <3>1. \A i \in 1..Len(a) : Order(a[i].kind) < Order(U.kind)
      BY <1>5, <1>2, <1>1
    <3>2. /\ b \in Seq(Chunk) /\ Ordered(b) /\ Len(b) = Len(a) + 1
          /\ \A i \in 1..Len(a) : b[i] = a[i]
          /\ b[Len(a) + 1] = U
          /\ \A i \in 1..Len(b) : i \in 1..Len(a) \/ i = Len(a) + 1
      <4>1. b = a \o <<U>>
        BY <2>2 DEF b
      <4>2. a \in Seq(Chunk) /\ Ordered(a) /\ U \in Chunk
        BY <1>1, <1>4
      <4> QED
        BY <4>1, <4>2, <3>1, OrderedEnd
    <3>3. \A i \in 1..Len(b) : Order(b[i].kind) \in {1, 2, 3, 4}
      BY <3>2, <1>5, <1>2, <1>1
    <3> QED
      BY <3>2, <3>3, <2>2, <1>4, <1>1
  <2> QED
    BY <2>1, <2>2 DEF U
<1>7. /\ t \in Seq(Chunk) /\ Ordered(t) /\ Len(t) = Len(b) + 1
      /\ \A i \in 1..Len(b) : t[i] = b[i]
      /\ t[Len(b) + 1] = D
      /\ \A i \in 1..Len(t) : i \in 1..Len(b) \/ i = Len(b) + 1
  <2>1. \A i \in 1..Len(b) : Order(b[i].kind) < Order(D.kind)
    <3>1. Order(D.kind) = 5
      BY <1>2, <1>1
    <3>2. \A i \in 1..Len(b) : Order(b[i].kind) \in {1, 2, 3, 4}
      BY <1>6
    <3> QED
      BY <3>1, <3>2
  <2>2. t = b \o <<D>>
    BY DEF a, b, D, t, Closed
  <2>3. b \in Seq(Chunk) /\ Ordered(b) /\ D \in Chunk
    BY <1>1, <1>6
  <2>4. /\ b \o <<D>> \in Seq(Chunk) /\ Ordered(b \o <<D>>)
        /\ Len(b \o <<D>>) = Len(b) + 1
        /\ \A i \in 1..Len(b) : (b \o <<D>>)[i] = b[i]
        /\ (b \o <<D>>)[Len(b) + 1] = D
        /\ \A i \in 1..Len(b \o <<D>>) : i \in 1..Len(b) \/ i = Len(b) + 1
    BY <2>1, <2>3, OrderedEnd
  <2> QED
    BY <2>2, <2>4
<1> HIDE DEF t
<1>8. \A i \in 1..Len(t) :
         \/ i \in 1..Len(s) /\ t[i] = s[i]
         \/ t[i].kind \in {c.kind, "DONE"}
         \/ t[i].kind = "usage" /\ c.kind = "finish"
  <2> TAKE i \in 1..Len(t)
  <2>1. CASE i = Len(b) + 1
    BY <2>1, <1>7, <1>1
  <2>2. CASE i \in 1..Len(b)
    <3>1. t[i] = b[i]
      BY <2>2, <1>7
    <3>2. CASE i \in 1..Len(a)
      <4>1. t[i] = a[i]
        BY <3>1, <3>2, <1>6
      <4> QED
        BY <4>1, <3>2, <1>4
    <3>3. CASE b[i].kind = "usage" /\ c.kind = "finish"
      BY <3>1, <3>3
    <3> QED
      BY <3>2, <3>3, <2>2, <1>6
  <2> QED
    BY <2>1, <2>2, <1>7
<1>9. \E i \in 1..Len(t) : t[i].kind = c.kind
  <2>1. Len(s) + 1 \in 1..Len(t) /\ t[Len(s) + 1] = c
    BY <1>1, <1>4, <1>6, <1>7
  <2> QED
    BY <2>1
<1>10. \E i \in 1..Len(t) : t[i].kind = "DONE"
  <2>1. Len(b) + 1 \in 1..Len(t) /\ t[Len(b) + 1].kind = "DONE"
    BY <1>6, <1>7, <1>1
  <2> QED
    BY <2>1
<1> QED
  BY <1>7, <1>8, <1>9, <1>10 DEF t

\* A stream that is closed, by a commit or by a failure, is well-formed.
LEMMA WireClosed ==
    ASSUME NEW s, NEW c, NEW us, Closable(s, c, us), out' = Closed(s, c, us),
           mode' = "stream", done' = TRUE
    PROVE  Wire' /\ out' \in Seq(Chunk)
<1>1. /\ out' \in Seq(Chunk)
      /\ Ordered(out')
      /\ \A i \in 1..Len(out') :
            \/ i \in 1..Len(s) /\ out'[i] = s[i]
            \/ out'[i].kind \in {c.kind, "DONE"}
            \/ out'[i].kind = "usage" /\ c.kind = "finish"
      /\ \E i \in 1..Len(out') : out'[i].kind = c.kind
      /\ \E i \in 1..Len(out') : out'[i].kind = "DONE"
  BY ClosedTail
<1> USE DEF Closable
<1>2. FirstMarks'
  <2> SUFFICES ASSUME NEW i \in 1..Len(out'), out'[i].kind \in Delta \cup {"call"}
               PROVE  out'[i].role = (i = 1)
    BY DEF FirstMarks, Kinds
  <2>1. i \in 1..Len(s) /\ out'[i] = s[i]
    BY <1>1 DEF Delta
  <2> QED
    BY <2>1
<1>3. StreamGrammar'
  <2>1. \A i, j \in 1..Len(out') :
           i < j => \/ Order(out'[i].kind) < Order(out'[j].kind)
                    \/ Order(out'[i].kind) = Order(out'[j].kind) /\ Order(out'[i].kind) <= 2
    BY <1>1 DEF Ordered, Below
  <2>2. Kinds({"error"})' # {} => Kinds({"call", "usage"})' = {}
    <3> SUFFICES ASSUME Kinds({"error"})' # {}, NEW j \in 1..Len(out'),
                        out'[j].kind \in {"call", "usage"}
                 PROVE  FALSE
      BY DEF Kinds
    <3>1. PICK i \in 1..Len(out') : out'[i].kind = "error"
      BY DEF Kinds
    <3>2. c.kind = "error"
      BY <3>1, <1>1 DEF ContentOrCall, Delta
    <3> QED
      BY <3>2, <1>1 DEF ContentOrCall, Delta
  <2>3. Kinds({"DONE"})' # {} /\ Kinds({"finish", "error"})' # {}
    BY <1>1 DEF Kinds
  <2> QED
    BY <2>1, <2>2, <2>3 DEF StreamGrammar
<1> QED
  BY <1>1, <1>2, <1>3 DEF Wire, OpenStream, QuietUntilAnswer

\* The single response of the plain handler.
LEMMA WireAnswer ==
    ASSUME NEW c \in Chunk, c.kind \in {"error", "answer"}, out' = <<c>>,
           mode' = "plain", closed' = TRUE
    PROVE  Wire' /\ out' \in Seq(Chunk)
<1>1. out' \in Seq(Chunk) /\ Len(out') = 1 /\ out'[1] = c
  BY Singletons
<1>2. \A i \in 1..Len(out') : out'[i].kind \in {"error", "answer"}
  BY <1>1
<1>3. StreamGrammar'
  BY <1>1, <1>2 DEF StreamGrammar, Kinds
<1>4. FirstMarks'
  BY <1>2 DEF FirstMarks, Kinds, Delta
<1> QED
  BY <1>1, <1>3, <1>4 DEF Wire, OpenStream, QuietUntilAnswer

-----------------------------------------------------------------------------
(***************************************************************************)
(* Every step preserves the invariant.                                     *)
(***************************************************************************)
LEMMA ReceiveTypes ==
    ASSUME TypeOK, NEW e \in Event, Receive(e)
    PROVE  /\ seen' \in Seq(Event)
           /\ mode' \in {"stream", "plain"}
           /\ options' \in BOOLEAN
  BY AppendProperties DEF TypeOK, Receive

LEMMA RefuseStep ==
    ASSUME IInv, NEW e \in Event, Refuse(e)
    PROVE  IInv'
<1>1. TypeOK'
  BY ReceiveTypes DEF IInv, TypeOK, Refuse, handlerVars
<1>2. Wire'
  BY WireUnchanged DEF IInv, Wire, Refuse, Receive, handlerVars
<1> QED
  BY <1>1, <1>2 DEF IInv, Wire, OverMeansFinished, ReasonKept, Refuse, Receive, handlerVars

LEMMA ContentStep ==
    ASSUME IInv, NEW e \in Event, Content(e)
    PROVE  IInv'
<1>1. /\ e.type \in Delta /\ e.text \in Texts
      /\ seen' \in Seq(Event)
      /\ UNCHANGED <<mode, options, norm, phase, finishing, done, calls, final, recorded, closed>>
  BY ReceiveTypes, EventFields DEF IInv, Content, Receive
<1>2. CASE /\ mode = "stream" /\ ~done /\ firstText' = FALSE /\ UNCHANGED text
           /\ out' = Append(out, [kind |-> e.type, text |-> e.text, role |-> firstText])
  <2>1. Wire' /\ out' \in Seq(Chunk)
    BY <1>1, <1>2, WireContent DEF IInv, Wire
  <2> QED
    BY <1>1, <1>2, <2>1 DEF IInv, Wire, TypeOK, OverMeansFinished, ReasonKept
<1>3. CASE /\ mode = "plain" /\ UNCHANGED <<out, firstText>>
           /\ text' = Append(text, [kind |-> e.type, text |-> e.text])
  <2>1. text' \in Seq([kind : Delta, text : Texts])
    <3>1. [kind |-> e.type, text |-> e.text] \in [kind : Delta, text : Texts]
      BY <1>1
    <3>2. text \in Seq([kind : Delta, text : Texts])
      BY DEF IInv, TypeOK
    <3> QED
      BY <1>3, <3>1, <3>2, AppendProperties
  <2>2. Wire'
    BY <1>1, <1>3, WireUnchanged DEF IInv, Wire
  <2> QED
    BY <1>1, <1>3, <2>1, <2>2 DEF IInv, Wire, TypeOK, OverMeansFinished, ReasonKept
<1>4. CASE UNCHANGED <<out, firstText, text>>
  <2>1. Wire'
    BY <1>1, <1>4, WireUnchanged DEF IInv, Wire
  <2> QED
    BY <1>1, <1>4, <2>1 DEF IInv, Wire, TypeOK, OverMeansFinished, ReasonKept
<1> QED
  BY <1>2, <1>3, <1>4 DEF Content

LEMMA SilentStep ==
    ASSUME IInv, NEW e \in Event, Silent(e)
    PROVE  IInv'
<1>1. norm' \in Normalizer
  BY NormalizerTypes DEF IInv, TypeOK, Silent
<1>2. norm'.finished = norm.finished
  BY DEF Silent, Consumed, WithUsage, IInv, TypeOK, Normalizer
<1>3. TypeOK'
  BY <1>1, ReceiveTypes DEF IInv, TypeOK, Silent, handlerVars
<1>4. Wire'
  BY WireUnchanged DEF IInv, Wire, Silent, Receive, handlerVars
<1> QED
  BY <1>2, <1>3, <1>4 DEF IInv, Wire, OverMeansFinished, ReasonKept, Silent, Receive, handlerVars

LEMMA StopStep ==
    ASSUME IInv, NEW how \in {"eof", "DONE", "failed"}, Stop(how)
    PROVE  IInv'
<1>1. TypeOK'
  BY DEF IInv, TypeOK, Stop, handlerVars
<1>2. Wire'
  BY WireUnchanged DEF IInv, Wire, Stop, handlerVars
<1> QED
  BY <1>1, <1>2 DEF IInv, Wire, OverMeansFinished, ReasonKept, Stop, handlerVars

LEMMA CloseStreamStep ==
    ASSUME IInv, CloseStream
    PROVE  IInv'
<1>1. recorded' \in Usages \cup {NoUsage, -1}
  BY DEF IInv, TypeOK, Normalizer, CloseStream
<1>2. Wire' /\ out' \in Seq(Chunk)
  <2>1. CASE done
    <3>1. out' = out /\ mode' = "stream" /\ done' = TRUE /\ done = TRUE
      BY <2>1 DEF CloseStream, IInv, TypeOK
    <3>2. StreamGrammar'
      BY <3>1 DEF IInv, StreamGrammar, Kinds, CloseStream
    <3> QED
      BY <3>1, <3>2 DEF IInv, Wire, TypeOK, FirstMarks, OpenStream, QuietUntilAnswer, Kinds
  <2>2. CASE ~done
    <3> DEFINE E == [kind |-> "error"]
    <3>1. out \in Seq(Chunk) /\ E \in Chunk /\ [kind |-> "DONE"] \in Chunk
      BY EndChunks DEF IInv, TypeOK
    <3>2. \A i \in 1..Len(out) : out[i].kind \in Delta
      BY <2>2 DEF IInv, OpenStream, CloseStream
    <3>3. Closable(out, E, <<>>)
      <4>1. Ordered(out)
        BY DEF IInv, StreamGrammar, Ordered, Below
      <4> QED
        BY <3>1, <3>2, <4>1 DEF Closable, ContentOrCall, IInv, FirstMarks, Kinds, Delta
    <3>4. out' = Closed(out, E, <<>>)
      <4>1. out' = out \o <<E, [kind |-> "DONE"]>>
        BY <2>2 DEF CloseStream
      <4>2. <<E, [kind |-> "DONE"]>> = <<E>> \o <<[kind |-> "DONE"]>>
        OBVIOUS
      <4>3. out \o <<E>> \in Seq(Chunk) /\ <<E>> \in Seq(Chunk) /\ <<[kind |-> "DONE"]>> \in Seq(Chunk)
        BY <3>1, ConcatProperties
      <4> HIDE DEF E
      <4>4. (out \o <<E>>) \o <<>> = out \o <<E>>
        BY <4>3, ConcatEmptySeq
      <4>5. (out \o <<E>>) \o <<[kind |-> "DONE"]>> = out \o (<<E>> \o <<[kind |-> "DONE"]>>)
        BY <3>1, <4>3, ConcatAssociative
      <4> QED
        BY <4>1, <4>2, <4>4, <4>5 DEF Closed
    <3>5. mode' = "stream" /\ done' = TRUE
      BY DEF CloseStream
    <3> QED
      BY <3>3, <3>4, <3>5, WireClosed
  <2> QED
    BY <2>1, <2>2
<1>3. TypeOK'
  BY <1>1, <1>2 DEF IInv, TypeOK, CloseStream
<1> QED
  BY <1>2, <1>3 DEF IInv, Wire, OverMeansFinished, ReasonKept, CloseStream

LEMMA AnswerStep ==
    ASSUME IInv, Answer
    PROVE  IInv'
<1>1. recorded' \in Usages \cup {NoUsage, -1}
  BY DEF IInv, TypeOK, Normalizer, Answer
<1>2. mode' = "plain" /\ closed' = TRUE
  BY DEF Answer
<1>3. Wire' /\ out' \in Seq(Chunk)
  <2>1. CASE out' = <<[kind |-> "error"]>>
    BY <2>1, <1>2, EndChunks, WireAnswer
  <2>2. CASE out' = <<[kind |-> "answer", text |-> text, calls |-> calls,
                       reason |-> resolveFinishReason(final, calls # <<>>)]>>
             /\ final \in Reasons
    <3> DEFINE r == resolveFinishReason(final, calls # <<>>)
    <3>1. r \in Reasons \cup {"tool_calls", "length"}
      BY <2>2, ReasonTypes
    <3> HIDE DEF r
    <3>2. [kind |-> "answer", text |-> text, calls |-> calls, reason |-> r] \in Chunk
      BY <3>1, AnswerChunks DEF IInv, TypeOK
    <3>3. out' = <<[kind |-> "answer", text |-> text, calls |-> calls, reason |-> r]>>
      BY <2>2 DEF r
    <3> QED
      BY <3>2, <3>3, <1>2, WireAnswer
  <2> QED
    BY <2>1, <2>2 DEF Answer, IInv, ReasonKept
<1>4. TypeOK'
  BY <1>1, <1>3 DEF IInv, TypeOK, Answer
<1> QED
  BY <1>3, <1>4 DEF IInv, Wire, OverMeansFinished, ReasonKept, Answer

LEMMA FinishStep ==
    ASSUME IInv, NEW e \in Event, Finish(e)
    PROVE  IInv'
<1> DEFINE r == resolveFinishReason(e.reason, norm.kept # <<>>)
           F == [kind |-> "finish", reason |-> r]
<1>1. /\ e.type = "finish" /\ ~norm.finished /\ ~Refused(norm, e)
      /\ norm' = Consumed(norm, e)
      /\ calls' = norm.kept
      /\ UNCHANGED <<mode, options, text, recorded, closed>>
      /\ seen' \in Seq(Event)
      /\ phase = "reading"
  BY ReceiveTypes DEF IInv, Finish, Receive
<1>2. norm' \in Normalizer /\ norm.kept \in Seq(Call)
  BY <1>1, NormalizerTypes DEF IInv, TypeOK, Normalizer
<1>3. e.reason \in Reasons
  BY <1>1, EventFields DEF Refused
<1>4. norm'.finished
  BY <1>1 DEF Consumed, WithUsage, IInv, TypeOK, Normalizer
<1>5. r \in Reasons \cup {"tool_calls", "length"}
  BY <1>3, ReasonTypes
<1> HIDE DEF r
<1>6. CASE /\ mode = "stream" /\ finishing' = TRUE /\ phase' = "failed"
           /\ UNCHANGED <<out, done, firstText, final>>
  <2>1. Wire'
    BY <1>1, <1>6, WireUnchanged DEF IInv, Wire
  <2>2. TypeOK'
    BY <1>1, <1>2, <1>6 DEF IInv, TypeOK
  <2> QED
    BY <2>1, <2>2, <1>1, <1>6 DEF IInv, Wire, OverMeansFinished, ReasonKept
<1>7. CASE /\ mode = "stream" /\ finishing' = TRUE /\ done' = TRUE
           /\ out' = out \o CallChunks \o <<F>>
                         \o UsageChunk(norm'.usage) \o <<[kind |-> "DONE"]>>
           /\ firstText' = (firstText /\ norm.kept = <<>>)
           /\ UNCHANGED <<phase, final>>
  <2> DEFINE head == out \o CallChunks
             us == UsageChunk(norm'.usage)
  <2>1. ~done
    BY <1>1 DEF IInv, OverMeansFinished
  <2>2. /\ head \in Seq(Chunk)
        /\ Ordered(head)
        /\ \A i \in 1..Len(head) : head[i].kind \in Delta \cup {"call"} /\ head[i].role = (i = 1)
    BY <1>7, <2>1, CommitHead DEF IInv, Wire
  <2>3. F \in Chunk /\ F.kind = "finish"
    BY <1>5, EndChunks
  <2>4. us = <<>> \/ \E u \in Usages \cup {NoUsage} : us = <<[kind |-> "usage", usage |-> u]>>
    <3>1. norm'.usage \in Usages \cup {NoUsage}
      BY <1>2 DEF Normalizer
    <3> QED
      BY <3>1 DEF UsageChunk
  <2>5. out' = Closed(head, F, us)
    BY <1>7 DEF Closed
  <2> HIDE DEF head, us, F
  <2>6. Closable(head, F, us)
    BY <2>2, <2>3, <2>4 DEF Closable, ContentOrCall
  <2>7. mode' = "stream" /\ done' = TRUE
    BY <1>1, <1>7
  <2>8. Wire' /\ out' \in Seq(Chunk)
    BY <2>5, <2>6, <2>7, WireClosed
  <2>9. firstText' \in BOOLEAN
    BY <1>7
  <2>10. TypeOK'
    BY <1>1, <1>2, <1>7, <2>8, <2>9 DEF IInv, TypeOK
  <2> QED
    BY <2>8, <2>10, <1>1, <1>4, <1>7 DEF IInv, Wire, OverMeansFinished, ReasonKept
<1>8. CASE mode = "plain" /\ final' = e.reason /\ UNCHANGED <<phase, out, done, finishing, firstText>>
  <2>1. Wire'
    BY <1>1, <1>8, WireUnchanged DEF IInv, Wire
  <2>2. TypeOK'
    BY <1>1, <1>2, <1>3, <1>8 DEF IInv, TypeOK
  <2> QED
    BY <2>1, <2>2, <1>1, <1>3, <1>4, <1>8 DEF IInv, Wire, OverMeansFinished, ReasonKept
<1> QED
  BY <1>6, <1>7, <1>8 DEF Finish, r

LEMMA StepInvariant == IInv /\ [Next]_vars => IInv'
<1> SUFFICES ASSUME IInv, [Next]_vars PROVE IInv'
  OBVIOUS
<1>1. CASE UNCHANGED vars
  <2>1. TypeOK'
    BY <1>1 DEF IInv, TypeOK, vars
  <2>2. Wire'
    BY <1>1, WireUnchanged DEF IInv, Wire, vars
  <2> QED
    BY <1>1, <2>1, <2>2 DEF IInv, Wire, OverMeansFinished, ReasonKept, vars
<1>2. CASE Next
  BY <1>2, RefuseStep, ContentStep, SilentStep, FinishStep, StopStep, CloseStreamStep, AnswerStep
     DEF Next
<1> QED
  BY <1>1, <1>2

-----------------------------------------------------------------------------
(***************************************************************************)
(* The theorems.                                                           *)
(***************************************************************************)

\* The inductive invariant holds in every reachable state of both handlers.
THEOREM Invariant == Spec => []IInv
  BY InitInvariant, StepInvariant, PTL DEF Spec

\* The state of the normalizer and of both handlers keeps its type; in
\* particular only well-formed calls get into it.
THEOREM TypeCorrect == Spec => []TypeOK
<1>1. IInv => TypeOK
  BY DEF IInv
<1> QED
  BY <1>1, Invariant, PTL

\* At any moment the chunks a client has been sent follow the grammar: nothing
\* is written after [DONE], no call without a finish, none in a failed stream.
THEOREM WireFormat == Spec => []StreamGrammar
<1>1. IInv => StreamGrammar
  BY DEF IInv
<1> QED
  BY <1>1, Invariant, PTL

\* The role is announced exactly once, in the first delta.
THEOREM RoleAnnouncedOnce == Spec => []RoleOnce
<1>1. IInv => RoleOnce
  <2> SUFFICES ASSUME IInv, NEW i \in Kinds(Delta \cup {"call"})
               PROVE  out[i].role <=> \A j \in Kinds(Delta \cup {"call"}) : i <= j
    BY DEF RoleOnce
  <2>1. Len(out) \in Nat /\ out \in Seq(Chunk)
    BY LenProperties DEF IInv, TypeOK
  <2>2. i \in 1..Len(out) /\ out[i].kind \in Delta \cup {"call"}
    BY DEF Kinds
  <2>3. out[i].role = (i = 1)
    BY DEF IInv, FirstMarks
  <2>4. 1 \in Kinds(Delta \cup {"call"})
    <3>1. CASE i = 1
      BY <3>1
    <3>2. CASE i > 1
      <4>1. 1 \in 1..Len(out)
        BY <2>1, <2>2
      <4>2. Order(out[i].kind) \in {1, 2}
        BY <2>2, Ranks
      <4>3. \/ Order(out[1].kind) < Order(out[i].kind)
            \/ Order(out[1].kind) = Order(out[i].kind)
        BY <3>2, <4>1, <2>2 DEF IInv, StreamGrammar
      <4>4. out[1].kind \in Delta \cup {"call", "finish", "error", "answer", "usage", "DONE"}
        <5>1. out[1] \in Chunk
          BY <2>1, <4>1, ElementOfSeq
        <5> QED
          BY <5>1 DEF Chunk
      <4>5. out[1].kind \in Delta \cup {"call"}
        BY <4>2, <4>3, <4>4, Ranks
      <4> QED
        BY <4>1, <4>5 DEF Kinds
    <3> QED
      BY <3>1, <3>2, <2>1, <2>2
  <2>5. (\A j \in Kinds(Delta \cup {"call"}) : i <= j) <=> i = 1
    BY <2>1, <2>2, <2>4 DEF Kinds
  <2> QED
    BY <2>3, <2>5
<1> QED
  BY <1>1, Invariant, PTL

-----------------------------------------------------------------------------
(***************************************************************************)
(* What the answer to a chat says, for every alphabet of events and        *)
(* streams of any length: it carries the complete calls of the turn, all   *)
(* its fragments and a reason that fits them; the usage charged is the     *)
(* last one reported before the finish; and both handlers implement        *)
(* ChatTurn.                                                               *)
(*                                                                         *)
(* Each property compares what was sent with the events that were seen, so *)
(* the invariant follows both: the last report and the calls kept, up to   *)
(* the finish; the calls released and the finish that released them, after *)
(* it; and how the chunks on the wire divide into content, calls and end.  *)
(***************************************************************************)
-----------------------------------------------------------------------------
(***************************************************************************)
(* The inductive invariant.                                                *)
(***************************************************************************)
InOpenTurn == Seen({"finish"}) = {}

\* The usage the normalizer holds is the one that was reported last.
Reporting(e) ==
    /\ e.type \in {"finish-step", "finish"}
    /\ e.usage # NoUsage
    /\ e.type = "finish" => e.reason # Unknown

Reports == {j \in Seen({"finish-step", "finish"}) \cap InTurn : Reporting(seen[j])}

LastReport(u) ==
    \/ Reports = {} /\ u = NoUsage
    \/ \E j \in Reports : u = seen[j].usage /\ \A k \in Reports : k <= j

UsageFollows ==
    /\ LastReport(norm.usage)
    /\ norm.finished => ~InOpenTurn
    /\ phase # "failed" /\ ~norm.finished => InOpenTurn

\* What was recorded, once the handler has returned.
Recorded ==
    /\ closed => phase # "reading"
    /\ recorded = IF closed /\ (mode = "plain" => Succeeded) THEN norm.usage ELSE -1

\* A sequence of calls lists the first announcements of the turn in order.
CallOf(e) == [id |-> e.id, args |-> e.args]

Lists(s) ==
    /\ Len(s) = Cardinality(FirstCalls)
    /\ \A j \in FirstCalls : s[Rank(j, FirstCalls)] = CallOf(seen[j])
    /\ \A i \in 1..Len(s) : \E j \in FirstCalls : s[i] = CallOf(seen[j])
    /\ \A i, j \in 1..Len(s) : s[i].id = s[j].id => i = j

CallsFollow ==
    /\ norm.finished => Lists(calls)
    /\ phase = "reading" /\ ~norm.finished =>
          /\ Lists(norm.kept)
          /\ \A j \in Seen({"tool-call"}) :
                \E i \in 1..Len(norm.kept) : norm.kept[i].id = seen[j].id

\* A finish that claims calls which never came.
Hollow(reason) == reason = "tool_calls" /\ calls = <<>>

\* Event f is the finish of the turn, and was accepted.
EndsTurn(f) ==
    /\ f \in Seen({"finish"})
    /\ \A k \in Seen({"finish"}) : f <= k
    /\ seen[f].reason \in Reasons
    /\ mode = "plain" => final = seen[f].reason

\* The chunks of a stream, d of which are content.
OpenOrFailed(d) ==
    /\ Kinds(Delta) = 1..d
    /\ Kinds({"call"}) = {} /\ Kinds({"finish", "answer"}) = {}
    /\ (Kinds({"error"}) # {}) <=> closed
    /\ \A f \in Seen({"finish"}) : norm.finished /\ EndsTurn(f) => Hollow(seen[f].reason)
    /\ norm.finished => phase = "failed"

Committed(d) ==
    /\ Kinds(Delta) = 1..d
    /\ norm.finished /\ done
    /\ Kinds({"call"}) = (d + 1)..(d + Len(calls))
    /\ \A i \in 1..Len(calls) : out[d + i].call = calls[i]
    /\ Kinds({"finish", "answer"}) = {d + Len(calls) + 1}
    /\ Kinds({"error", "answer"}) = {}
    /\ \E f \in Seen({"finish"}) :
          /\ EndsTurn(f)
          /\ ~Hollow(seen[f].reason)
          /\ out[d + Len(calls) + 1].reason =
                resolveFinishReason(seen[f].reason, calls # <<>>)

Refusal == norm.finished => Hollow(final)

Shape ==
    /\ norm.finished => \E f \in Seen({"finish"}) : EndsTurn(f)
    /\ mode = "stream" => \E d \in 0..Len(out) : OpenOrFailed(d) \/ Committed(d)
    /\ mode = "plain" /\ closed =>
          \/ /\ out = <<[kind |-> "error"]>>
             /\ phase = "failed" \/ Refusal
          \/ /\ out = <<[kind |-> "answer", text |-> text, calls |-> calls,
                         reason |-> resolveFinishReason(final, calls # <<>>)]>>
             /\ phase # "failed" /\ norm.finished /\ ~Hollow(final)

\* As long as nothing follows the finish, no fragment is missing.
FragmentOf(e) == [kind |-> e.type, text |-> e.text]

Shows(s) ==
    /\ Len(s) = Cardinality(Fragments)
    /\ \A j \in Fragments : s[Rank(j, Fragments)] = FragmentOf(seen[j])

ContentFollows ==
    Seen({"finish"}) \subseteq {Len(seen)} =>
        /\ mode = "plain" => Shows(text)
        /\ mode = "stream" => Shows(SentContent)

AnswerInv ==
    /\ IInv
    /\ UsageFollows
    /\ Recorded
    /\ CallsFollow
    /\ Shape
    /\ ContentFollows

-----------------------------------------------------------------------------
(***************************************************************************)
(* Ranks and sequences.                                                    *)
(***************************************************************************)
LEMMA RankRange ==
    ASSUME NEW S \in SUBSET Int, IsFiniteSet(S), NEW j \in S
    PROVE  Rank(j, S) \in 1..Cardinality(S)
<1> DEFINE below == {k \in S : k <= j}
<1>1. IsFiniteSet(below) /\ Cardinality(below) <= Cardinality(S)
  BY FS_Subset
<1>2. Cardinality(below) # 0
  <2>1. j \in below
    OBVIOUS
  <2> QED
    BY <2>1, <1>1, FS_EmptySet
<1>3. Cardinality(below) \in Nat /\ Cardinality(S) \in Nat
  BY <1>1, FS_CardinalityType
<1> QED
  BY <1>1, <1>2, <1>3 DEF Rank

\* A new last element leaves the ranks of the others alone.
LEMMA RankGrows ==
    ASSUME NEW n \in Nat, NEW S \in SUBSET (1..n)
    PROVE  /\ Cardinality(S) \in Nat
           /\ Cardinality(S \cup {n + 1}) = Cardinality(S) + 1
           /\ Rank(n + 1, S \cup {n + 1}) = Cardinality(S) + 1
           /\ \A j \in S : /\ Rank(j, S \cup {n + 1}) = Rank(j, S)
                           /\ Rank(j, S) \in 1..Cardinality(S)
<1> DEFINE x == n + 1
<1>1. IsFiniteSet(S)
  <2>1. IsFiniteSet(1..n)
    BY FS_Interval
  <2> QED
    BY <2>1, FS_Subset
<1>2. x \notin S
  OBVIOUS
<1>3. Cardinality(S \cup {x}) = Cardinality(S) + 1
  BY <1>1, <1>2, FS_AddElement
<1>4. {k \in S \cup {x} : k <= x} = S \cup {x}
  <2>1. \A k \in S \cup {x} : k <= x
    OBVIOUS
  <2> QED
    BY <2>1
<1>5. ASSUME NEW j \in S PROVE {k \in S \cup {x} : k <= j} = {k \in S : k <= j}
  OBVIOUS
<1>6. \A j \in S : Rank(j, S) \in 1..Cardinality(S)
  BY <1>1, RankRange
<1>7. Cardinality(S) \in Nat
  BY <1>1, FS_CardinalityType
<1> QED
  BY <1>3, <1>4, <1>5, <1>6, <1>7 DEF Rank

\* The chunks of a kind that was not sent.
LEMMA SentNothing ==
    ASSUME NEW kinds, Kinds(kinds) = {}
    PROVE  Sent(kinds) = <<>> /\ Len(Sent(kinds)) = 0
<1>1. Cardinality(Kinds(kinds)) = 0
  BY FS_EmptySet
<1>2. DOMAIN Sent(kinds) = 1..0 /\ Sent(kinds) = [n \in 1..0 |-> out[Nth(n, Kinds(kinds))]]
  BY <1>1 DEF Sent
<1> QED
  BY <1>2

\* The chunks of one kind when they are contiguous.
LEMMA Places ==
    ASSUME NEW kinds, NEW a \in Nat, NEW n \in Nat, Kinds(kinds) = (a + 1)..(a + n)
    PROVE  Cardinality(Kinds(kinds)) = n /\ \A i \in 1..n : Nth(i, Kinds(kinds)) = a + i
<1> DEFINE K == (a + 1)..(a + n)
<1>1. \A m \in Nat : Cardinality((a + 1)..(a + m)) = m
  <2> TAKE m \in Nat
  <2>1. a + 1 \in Int /\ a + m \in Int
    OBVIOUS
  <2>2. Cardinality((a + 1)..(a + m)) =
          IF a + 1 > a + m THEN 0 ELSE a + m - (a + 1) + 1
    BY <2>1, FS_Interval
  <2> QED
    BY <2>2
<1>2. ASSUME NEW i \in K PROVE Rank(i, K) = i - a
  <2>1. {k \in K : k <= i} = (a + 1)..(a + (i - a))
    OBVIOUS
  <2>2. i - a \in Nat
    OBVIOUS
  <2> QED
    BY <2>1, <2>2, <1>1 DEF Rank
<1> HIDE DEF K
<1>3. Kinds(kinds) = K
  BY DEF K
<1>4. Cardinality(Kinds(kinds)) = n
  BY <1>1, <1>3 DEF K
<1>5. ASSUME NEW i \in 1..n
      PROVE  Nth(i, Kinds(kinds)) = a + i
  <2>1. a + i \in Kinds(kinds) /\ Rank(a + i, Kinds(kinds)) = i
    <3>1. a + i \in K
      BY DEF K
    <3> QED
      BY <3>1, <1>2, <1>3
  <2>2. \A k \in Kinds(kinds) : Rank(k, Kinds(kinds)) = i => k = a + i
    <3> TAKE k \in Kinds(kinds)
    <3>1. Rank(k, Kinds(kinds)) = k - a /\ k \in Int
      BY <1>2, <1>3 DEF K
    <3> QED
      BY <3>1
  <2> QED
    BY <2>1, <2>2 DEF Nth
<1> QED
  BY <1>4, <1>5

LEMMA SentInterval ==
    ASSUME NEW kinds, NEW a \in Nat, NEW n \in Nat, Kinds(kinds) = (a + 1)..(a + n)
    PROVE  Cardinality(Kinds(kinds)) = n /\ Sent(kinds) = [i \in 1..n |-> out[a + i]]
<1>1. Cardinality(Kinds(kinds)) = n /\ \A i \in 1..n : Nth(i, Kinds(kinds)) = a + i
  BY Places
<1> QED
  BY <1>1 DEF Sent

\* A chunk that is the only one of its kind.
LEMMA SentOne ==
    ASSUME NEW kinds, NEW a \in Nat, Kinds(kinds) = {a + 1}
    PROVE  Sent(kinds)[1] = out[a + 1]
<1>1. 1 \in Nat /\ Kinds(kinds) = (a + 1)..(a + 1)
  OBVIOUS
<1>2. Cardinality(Kinds(kinds)) = 1 /\ \A i \in 1..1 : Nth(i, Kinds(kinds)) = a + i
  BY <1>1, Places
<1> QED
  BY <1>2 DEF Sent

-----------------------------------------------------------------------------
(***************************************************************************)
(* One more event.                                                         *)
(***************************************************************************)
LEMMA Growth ==
    ASSUME TypeOK, NEW e \in Event, seen' = Append(seen, e)
    PROVE  /\ Len(seen) \in Nat /\ Len(seen') = Len(seen) + 1
           /\ \A j \in 1..Len(seen) : seen'[j] = seen[j] /\ seen[j] \in Event
           /\ seen'[Len(seen) + 1] = e
           /\ \A T : /\ Seen(T) \subseteq 1..Len(seen)
                     /\ Seen(T)' = Seen(T) \cup (IF e.type \in T THEN {Len(seen) + 1} ELSE {})
<1>1. /\ seen \in Seq(Event) /\ Len(seen) \in Nat
      /\ seen' \in Seq(Event) /\ Len(seen') = Len(seen) + 1
      /\ \A j \in 1..Len(seen) : seen'[j] = seen[j]
      /\ seen'[Len(seen) + 1] = e
      /\ \A j \in 1..Len(seen') : j \in 1..Len(seen) \/ j = Len(seen) + 1
  BY AppendCases, LenProperties DEF TypeOK
<1>2. \A j \in 1..Len(seen) : seen[j] \in Event
  BY <1>1, ElementOfSeq
<1>3. ASSUME NEW T
      PROVE  Seen(T)' = Seen(T) \cup (IF e.type \in T THEN {Len(seen) + 1} ELSE {})
  BY <1>1 DEF Seen
<1> QED
  BY <1>1, <1>2, <1>3 DEF Seen

\* The turn takes in every event up to its finish, and nothing after it.
LEMMA TurnGrows ==
    ASSUME TypeOK, NEW e \in Event, seen' = Append(seen, e)
    PROVE  /\ InTurn' = IF InOpenTurn THEN 1..(Len(seen) + 1) ELSE InTurn
           /\ InOpenTurn => InTurn = 1..Len(seen)
           /\ InTurn \subseteq 1..Len(seen)
           /\ InOpenTurn' <=> InOpenTurn /\ e.type # "finish"
<1> DEFINE L == Len(seen) + 1
           S == Seen({"finish"})
<1>1. /\ Len(seen) \in Nat /\ Len(seen') = L
      /\ S \subseteq 1..Len(seen)
      /\ S' = S \cup (IF e.type = "finish" THEN {L} ELSE {})
  BY Growth
<1>2. InTurn' = {j \in 1..L : \A k \in S' : j <= k}
  BY <1>1 DEF InTurn
<1>3. InTurn = {j \in 1..Len(seen) : \A k \in S : j <= k}
  BY DEF InTurn
<1>4. InOpenTurn <=> S = {}
  BY DEF InOpenTurn
<1>5. InOpenTurn' <=> S' = {}
  BY DEF InOpenTurn
<1> HIDE DEF S
<1>6. InOpenTurn => InTurn = 1..Len(seen)
  BY <1>3, <1>4
<1>7. InTurn' = IF InOpenTurn THEN 1..L ELSE InTurn
  <2>1. CASE InOpenTurn
    <3>1. \A j \in 1..L : \A k \in S' : j <= k
      BY <2>1, <1>1, <1>4
    <3> QED
      BY <2>1, <3>1, <1>2
  <2>2. CASE ~InOpenTurn
    <3>1. PICK k \in S : TRUE
      BY <2>2, <1>4
    <3>2. k \in 1..Len(seen) /\ k \in S'
      BY <1>1
    <3>3. \A j \in 1..L : (\A i \in S' : j <= i) <=> j \in 1..Len(seen) /\ \A i \in S : j <= i
      BY <1>1, <3>1, <3>2
    <3> QED
      BY <2>2, <3>3, <1>1, <1>2, <1>3
  <2> QED
    BY <2>1, <2>2
<1>8. InOpenTurn' <=> InOpenTurn /\ e.type # "finish"
  BY <1>1, <1>4, <1>5
<1>9. InTurn \subseteq 1..Len(seen)
  BY <1>3
<1> QED
  BY <1>6, <1>7, <1>8, <1>9

\* A report counts when the turn is open.
LEMMA ReportsGrow ==
    ASSUME TypeOK, NEW e \in Event, seen' = Append(seen, e)
    PROVE  Reports' = Reports \cup (IF InOpenTurn /\ Reporting(e) THEN {Len(seen) + 1} ELSE {})
<1> DEFINE L == Len(seen) + 1
           T == {"finish-step", "finish"}
<1>1. /\ Len(seen) \in Nat
      /\ \A j \in 1..Len(seen) : seen'[j] = seen[j]
      /\ seen'[L] = e
      /\ Seen(T) \subseteq 1..Len(seen)
      /\ Seen(T)' = Seen(T) \cup (IF e.type \in T THEN {L} ELSE {})
  BY Growth
<1>2. /\ InTurn' = IF InOpenTurn THEN 1..L ELSE InTurn
      /\ InOpenTurn => InTurn = 1..Len(seen)
      /\ InTurn \subseteq 1..Len(seen)
  BY TurnGrows
<1>3. Reports' = {j \in Seen(T)' \cap InTurn' : Reporting(seen'[j])}
  BY DEF Reports, Reporting
<1>4. Reports = {j \in Seen(T) \cap InTurn : Reporting(seen[j])}
  BY DEF Reports
<1>5. Reporting(e) => e.type \in T
  BY DEF Reporting
<1> HIDE DEF T
<1> QED
  BY <1>1, <1>2, <1>3, <1>4, <1>5

-----------------------------------------------------------------------------
(***************************************************************************)
(* The usage that is charged.                                              *)
(***************************************************************************)

\* A report that counts becomes the last one.
LEMMA LastReportGrows ==
    ASSUME TypeOK, NEW e \in Event, seen' = Append(seen, e), NEW u, LastReport(u),
           NEW v, v = IF InOpenTurn /\ Reporting(e) THEN e.usage ELSE u
    PROVE  \/ Reports' = {} /\ v = NoUsage
           \/ \E j \in Reports' : v = seen'[j].usage /\ \A k \in Reports' : k <= j
<1> DEFINE L == Len(seen) + 1
<1>1. /\ Len(seen) \in Nat /\ seen'[L] = e
      /\ \A j \in 1..Len(seen) : seen'[j] = seen[j]
  BY Growth
<1>2. Reports \subseteq 1..Len(seen)
  BY TurnGrows DEF Reports
<1>3. Reports' = Reports \cup (IF InOpenTurn /\ Reporting(e) THEN {L} ELSE {})
  BY ReportsGrow
<1>4. CASE InOpenTurn /\ Reporting(e)
  <2>1. Reports' = Reports \cup {L} /\ v = seen'[L].usage
    BY <1>1, <1>3, <1>4
  <2>2. \A k \in Reports' : k <= L
    BY <1>1, <1>2, <2>1
  <2> QED
    BY <2>1, <2>2
<1>5. CASE ~(InOpenTurn /\ Reporting(e))
  <2>1. Reports' = Reports /\ v = u
    BY <1>3, <1>5
  <2>2. \A j \in Reports : seen'[j] = seen[j]
    BY <1>1, <1>2
  <2> QED
    BY <2>1, <2>2 DEF LastReport
<1> QED
  BY <1>4, <1>5

\* The normalizer takes over exactly the reports that count.
LEMMA UsageConsumed ==
    ASSUME TypeOK, NEW e \in Event, ~Refused(norm, e), norm.finished <=> ~InOpenTurn
    PROVE  Consumed(norm, e).usage = IF InOpenTurn /\ Reporting(e) THEN e.usage ELSE norm.usage
<1>1. norm \in Normalizer
  BY DEF TypeOK
<1>2. CASE e.type \in {"finish-step", "finish"}
  BY <1>1, <1>2 DEF Consumed, WithUsage, Reporting, Refused, Normalizer
<1>3. CASE e.type \notin {"finish-step", "finish"}
  BY <1>1, <1>3 DEF Consumed, Reporting, Normalizer
<1> QED
  BY <1>2, <1>3

LEMMA UsageReceive ==
    ASSUME TypeOK, UsageFollows, NEW e \in Event, Receive(e),
           norm'.usage = IF InOpenTurn /\ Reporting(e) THEN e.usage ELSE norm.usage,
           norm'.finished => norm.finished \/ e.type = "finish",
           phase' # "failed" /\ ~norm'.finished => ~norm.finished /\ e.type # "finish"
    PROVE  UsageFollows'
<1>1. seen' = Append(seen, e) /\ phase = "reading"
  BY DEF Receive
<1> PICK u, v : u = norm.usage /\ v = norm'.usage
  OBVIOUS
<1>2. LastReport(u) /\ v = IF InOpenTurn /\ Reporting(e) THEN e.usage ELSE u
  BY DEF UsageFollows
<1>3. \/ Reports' = {} /\ v = NoUsage
      \/ \E j \in Reports' : v = seen'[j].usage /\ \A k \in Reports' : k <= j
  BY <1>1, <1>2, LastReportGrows
<1>7. \/ Reports' = {} /\ norm'.usage = NoUsage
      \/ \E j \in Reports' : norm'.usage = seen'[j].usage /\ \A k \in Reports' : k <= j
  BY <1>3
<1>4. InOpenTurn' <=> InOpenTurn /\ e.type # "finish"
  BY <1>1, TurnGrows
<1>5. norm'.finished => ~InOpenTurn'
  BY <1>4 DEF UsageFollows
<1>6. phase' # "failed" /\ ~norm'.finished => InOpenTurn'
  BY <1>1, <1>4 DEF UsageFollows
<1> QED
  BY <1>7, <1>5, <1>6 DEF UsageFollows, LastReport

LEMMA UsageStep ==
    ASSUME TypeOK, UsageFollows, Next
    PROVE  UsageFollows'
<1> norm \in Normalizer
  BY DEF TypeOK
<1>1. ASSUME NEW e \in Event, Refuse(e) PROVE UsageFollows'
  <2>1. Receive(e) /\ norm' = norm /\ phase' = "failed"
    BY <1>1 DEF Refuse
  <2>2. ~(InOpenTurn /\ Reporting(e))
    <3>1. InOpenTurn => ~norm.finished
      BY DEF UsageFollows
    <3>2. Refused(norm, e)
      BY <1>1 DEF Refuse
    <3> QED
      BY <3>1, <3>2 DEF Refused, Reporting
  <2> QED
    BY <2>1, <2>2, UsageReceive
<1>2. ASSUME NEW e \in Event, Content(e) PROVE UsageFollows'
  <2>1. Receive(e) /\ norm' = norm /\ e.type \in Delta
    BY <1>2 DEF Content
  <2>2. ~Reporting(e) /\ e.type # "finish"
    BY <2>1 DEF Reporting, Delta
  <2> QED
    BY <2>1, <2>2, UsageReceive
<1>3. ASSUME NEW e \in Event, Silent(e) PROVE UsageFollows'
  <2>1. /\ Receive(e) /\ ~Refused(norm, e) /\ norm' = Consumed(norm, e)
        /\ e.type = "finish" => norm.finished
        /\ phase = "reading"
    BY <1>3 DEF Silent, Receive
  <2>2. norm.finished <=> ~InOpenTurn
    BY <2>1 DEF UsageFollows
  <2>3. norm'.finished = norm.finished
    BY <2>1 DEF Consumed, WithUsage, Normalizer
  <2> QED
    BY <2>1, <2>2, <2>3, UsageConsumed, UsageReceive
<1>4. ASSUME NEW e \in Event, Finish(e) PROVE UsageFollows'
  <2>1. /\ Receive(e) /\ ~Refused(norm, e) /\ norm' = Consumed(norm, e)
        /\ e.type = "finish" /\ ~norm.finished
        /\ phase = "reading"
    BY <1>4 DEF Finish, Receive
  <2>2. norm.finished <=> ~InOpenTurn
    BY <2>1 DEF UsageFollows
  <2>3. norm'.finished
    BY <2>1 DEF Consumed, WithUsage, Normalizer
  <2> QED
    BY <2>1, <2>2, <2>3, UsageConsumed, UsageReceive
<1>5. ASSUME UNCHANGED <<norm, seen>>, phase' # "failed" => phase # "failed"
      PROVE  UsageFollows'
  BY <1>5 DEF UsageFollows, LastReport, Reports, Reporting, InOpenTurn, InTurn, Seen
<1>6. ASSUME NEW how \in {"eof", "DONE", "failed"}, Stop(how) PROVE UsageFollows'
  <2>1. phase = "reading" /\ UNCHANGED <<norm, seen>>
    BY <1>6 DEF Stop
  <2> QED
    BY <2>1, <1>5
<1>7. CASE CloseStream
  BY <1>5, <1>7 DEF CloseStream
<1>8. CASE Answer
  BY <1>5, <1>8 DEF Answer
<1> QED
  BY <1>1, <1>2, <1>3, <1>4, <1>6, <1>7, <1>8 DEF Next

\* The usage is recorded as the handler returns, in the stream and for an
\* answer.
LEMMA RecordedStep ==
    ASSUME IInv, Recorded, Next
    PROVE  Recorded'
<1>1. ASSUME phase = "reading", UNCHANGED <<recorded, closed>> PROVE Recorded'
  BY <1>1 DEF Recorded
<1>2. CASE \E e \in Event : Refuse(e) \/ Content(e) \/ Silent(e) \/ Finish(e)
  BY <1>1, <1>2 DEF Refuse, Content, Silent, Finish, Receive, handlerVars
<1>3. CASE \E how \in {"eof", "DONE", "failed"} : Stop(how)
  BY <1>1, <1>3 DEF Stop, handlerVars
<1>4. CASE CloseStream
  BY <1>4 DEF CloseStream, Recorded
<1>5. CASE Answer
  <2>1. mode' = "plain" /\ closed' = TRUE /\ phase' # "reading" /\ norm' = norm /\ recorded = -1
    BY <1>5 DEF Answer, Recorded
  <2>2. CASE out' = <<[kind |-> "error"]>> /\ recorded' = recorded
    <3>1. ~Succeeded'
      <4>1. Len(out') = 1 /\ out'[1].kind = "error"
        BY <2>2
      <4> QED
        BY <4>1 DEF Succeeded, Kinds
    <3> QED
      BY <2>1, <2>2, <3>1 DEF Recorded
  <2>3. CASE /\ out' = <<[kind |-> "answer", text |-> text, calls |-> calls,
                          reason |-> resolveFinishReason(final, calls # <<>>)]>>
             /\ recorded' = norm.usage
    <3>1. Succeeded'
      <4>1. Len(out') = 1 /\ out'[1].kind = "answer"
        BY <2>3
      <4> QED
        BY <4>1 DEF Succeeded, Kinds
    <3> QED
      BY <2>1, <2>3, <3>1 DEF Recorded
  <2> QED
    BY <1>5, <2>2, <2>3 DEF Answer
<1> QED
  BY <1>2, <1>3, <1>4, <1>5 DEF Next

-----------------------------------------------------------------------------
(***************************************************************************)
(* The calls of the turn.                                                  *)
(***************************************************************************)
Announces(e) ==
    InOpenTurn /\ e.type = "tool-call" /\ \A j \in Seen({"tool-call"}) : seen[j].id # e.id

LEMMA FirstCallsGrow ==
    ASSUME TypeOK, NEW e \in Event, seen' = Append(seen, e)
    PROVE  /\ FirstCalls \subseteq 1..Len(seen)
           /\ IsFiniteSet(FirstCalls)
           /\ FirstCalls' = FirstCalls \cup (IF Announces(e) THEN {Len(seen) + 1} ELSE {})
<1> DEFINE L == Len(seen) + 1
           T == {"tool-call"}
           S == Seen(T)
           First(j) == \A k \in S : seen[k].id = seen[j].id => j <= k
<1>1. /\ Len(seen) \in Nat /\ seen'[L] = e
      /\ \A j \in 1..Len(seen) : seen'[j] = seen[j]
      /\ S \subseteq 1..Len(seen)
      /\ S' = S \cup (IF e.type \in T THEN {L} ELSE {})
  BY Growth
<1>2. /\ InTurn' = IF InOpenTurn THEN 1..L ELSE InTurn
      /\ InOpenTurn => InTurn = 1..Len(seen)
      /\ InTurn \subseteq 1..Len(seen)
  BY TurnGrows
<1>3. FirstCalls = {j \in S \cap InTurn : First(j)}
  BY DEF FirstCalls
<1>4. FirstCalls' = {j \in S' \cap InTurn' : \A k \in S' : seen'[k].id = seen'[j].id => j <= k}
  BY DEF FirstCalls
<1>5. ASSUME NEW j \in S
      PROVE  (\A k \in S' : seen'[k].id = seen'[j].id => j <= k) <=> First(j)
  <2>1. \A k \in S' : k \in S \/ k = L
    BY <1>1
  <2>2. j \in S' /\ j <= L /\ seen'[j] = seen[j]
    BY <1>1
  <2>3. \A k \in S : k \in S' /\ seen'[k] = seen[k]
    BY <1>1
  <2> HIDE DEF S, L
  <2> QED
    BY <2>1, <2>2, <2>3
<1>6. ASSUME e.type \in T
      PROVE  (\A k \in S' : seen'[k].id = seen'[L].id => L <= k) <=> \A k \in S : seen[k].id # e.id
  <2>1. \A k \in S : k \in S' /\ seen'[k] = seen[k] /\ ~(L <= k)
    BY <1>1
  <2>2. \A k \in S' : k \in S \/ k = L
    BY <1>1
  <2> HIDE DEF S
  <2> QED
    BY <2>1, <2>2, <1>1
<1>7. FirstCalls \subseteq 1..Len(seen)
  BY <1>1, <1>3
<1>8. IsFiniteSet(FirstCalls)
  <2>1. IsFiniteSet(1..Len(seen))
    BY <1>1, FS_Interval
  <2> QED
    BY <2>1, <1>7, FS_Subset
<1>9. FirstCalls' = FirstCalls \cup (IF Announces(e) THEN {L} ELSE {})
  <2> HIDE DEF S, First
  <2>1. \A j : j \in S' \cap InTurn' <=> \/ j \in S \cap InTurn
                                         \/ j = L /\ e.type \in T /\ InOpenTurn
    BY <1>1, <1>2
  <2>2. Announces(e) <=> InOpenTurn /\ e.type \in T /\ \A k \in S : seen[k].id # e.id
    BY DEF Announces, S
  <2>3. \A j : j \in FirstCalls' <=> \/ j \in S \cap InTurn /\ First(j)
                                     \/ j = L /\ Announces(e)
    <3> TAKE j
    <3>1. CASE j \in S \cap InTurn
      <4>1. j # L
        BY <3>1, <1>1
      <4> QED
        BY <3>1, <4>1, <2>1, <1>4, <1>5
    <3>2. CASE j = L /\ e.type \in T /\ InOpenTurn
      <4>1. j \notin S
        BY <3>2, <1>1
      <4> QED
        BY <3>2, <4>1, <2>1, <2>2, <1>4, <1>6
    <3>3. CASE j \notin S' \cap InTurn'
      BY <3>3, <2>1, <2>2, <1>4
    <3> QED
      BY <3>1, <3>2, <3>3, <2>1
  <2> QED
    BY <2>3, <1>3
<1> QED
  BY <1>7, <1>8, <1>9

\* A list stays right as long as no call is announced.
LEMMA ListsStay ==
    ASSUME TypeOK, NEW e \in Event, seen' = Append(seen, e), ~Announces(e),
           NEW s, Lists(s)
    PROVE  Lists(s)'
<1>1. FirstCalls' = FirstCalls /\ FirstCalls \subseteq 1..Len(seen)
  BY FirstCallsGrow
<1>2. \A j \in FirstCalls : seen'[j] = seen[j]
  BY <1>1, Growth
<1> QED
  BY <1>1, <1>2 DEF Lists

\* A call that is announced first goes to the end of the list.
LEMMA ListsGrow ==
    ASSUME TypeOK, NEW e \in Event, seen' = Append(seen, e), Announces(e),
           NEW s \in Seq(Call), Lists(s),
           \A i \in 1..Len(s) : s[i].id # e.id,
           NEW call \in Call, call = [id |-> e.id, args |-> e.args]
    PROVE  Lists(Append(s, call))'
<1> DEFINE L == Len(seen) + 1
           t == Append(s, call)
<1>1. /\ Len(seen) \in Nat /\ seen'[L] = e
      /\ \A j \in 1..Len(seen) : seen'[j] = seen[j]
  BY Growth
<1>2. /\ FirstCalls' = FirstCalls \cup {L} /\ FirstCalls \subseteq 1..Len(seen)
      /\ IsFiniteSet(FirstCalls)
  BY FirstCallsGrow
<1>3. CallOf(seen'[L]) = call /\ \A j \in FirstCalls : seen'[j] = seen[j]
  BY <1>1, <1>2 DEF CallOf
<1>5. Len(s) = Cardinality(FirstCalls)
  BY DEF Lists
<1>7. /\ Len(s) \in Nat /\ Len(t) = Len(s) + 1 /\ t[Len(s) + 1] = call
      /\ \A i \in 1..Len(s) : t[i] = s[i]
      /\ \A i \in 1..Len(t) : i \in 1..Len(s) \/ i = Len(s) + 1
  BY AppendCases, LenProperties
<1> HIDE DEF t, L
<1>6. /\ Len(t) = Cardinality(FirstCalls')
      /\ t[Rank(L, FirstCalls')] = call
      /\ \A j \in FirstCalls : t[Rank(j, FirstCalls')] = s[Rank(j, FirstCalls)]
  <2> DEFINE S == FirstCalls
             n == Len(seen)
  <2>1. n \in Nat /\ S \in SUBSET (1..n)
    BY <1>1, <1>2
  <2>2. FirstCalls' = S \cup {n + 1} /\ L = n + 1
    BY <1>2 DEF L
  <2> HIDE DEF S, n
  <2>3. /\ Cardinality(S \cup {n + 1}) = Cardinality(S) + 1
        /\ Rank(n + 1, S \cup {n + 1}) = Cardinality(S) + 1
        /\ \A j \in S : /\ Rank(j, S \cup {n + 1}) = Rank(j, S)
                        /\ Rank(j, S) \in 1..Cardinality(S)
    BY <2>1, RankGrows
  <2>4. Len(s) = Cardinality(S)
    BY <1>5 DEF S
  <2>5. /\ Cardinality(FirstCalls') = Len(s) + 1
        /\ Rank(L, FirstCalls') = Len(s) + 1
        /\ \A j \in S : Rank(j, FirstCalls') = Rank(j, S) /\ Rank(j, S) \in 1..Len(s)
    BY <2>2, <2>3, <2>4
  <2> QED
    BY <2>5, <1>7 DEF S
<1>8. \A j \in FirstCalls' : t[Rank(j, FirstCalls')] = CallOf(seen'[j])
  BY <1>2, <1>3, <1>6 DEF Lists
<1>9. \A i \in 1..Len(t) : \E j \in FirstCalls' : t[i] = CallOf(seen'[j])
  <2> TAKE i \in 1..Len(t)
  <2>1. CASE i \in 1..Len(s)
    <3>1. PICK j \in FirstCalls : s[i] = CallOf(seen[j])
      BY <2>1 DEF Lists
    <3> QED
      BY <3>1, <2>1, <1>2, <1>3, <1>7
  <2>2. CASE i = Len(s) + 1
    BY <2>2, <1>2, <1>3, <1>7
  <2> QED
    BY <2>1, <2>2, <1>7
<1>10. \A i, j \in 1..Len(t) : t[i].id = t[j].id => i = j
  <2>1. call.id = e.id
    OBVIOUS
  <2> QED
    BY <2>1, <1>7 DEF Lists
<1> QED
  BY <1>6, <1>8, <1>9, <1>10 DEF Lists, t

\* Every call seen in the open turn is kept under its id.
LEMMA CallConsumed ==
    ASSUME TypeOK, CallsFollow, InOpenTurn, phase = "reading", ~norm.finished,
           NEW e \in Event, seen' = Append(seen, e), ~Refused(norm, e), e.type = "tool-call",
           NEW kept, kept = Deduplicated(norm.kept, CallOf(e))
    PROVE  /\ Lists(kept)'
           /\ \A j \in Seen({"tool-call"})' : \E i \in 1..Len(kept) : kept[i].id = seen'[j].id
<1> DEFINE s == norm.kept
           T == {"tool-call"}
           L == Len(seen) + 1
<1>1. /\ Len(seen) \in Nat /\ seen'[L] = e
      /\ \A j \in 1..Len(seen) : seen'[j] = seen[j]
      /\ Seen(T) \subseteq 1..Len(seen)
      /\ Seen(T)' = Seen(T) \cup {L}
  BY Growth
<1>2. s \in Seq(Call) /\ CallOf(e) \in Call /\ Len(s) \in Nat
  BY EventFields, LenProperties DEF TypeOK, Normalizer, Refused, Call, CallOf
<1>3. Lists(s) /\ \A j \in Seen(T) : \E i \in 1..Len(s) : s[i].id = seen[j].id
  BY DEF CallsFollow
<1>4. CallOf(e).id = e.id
  BY DEF CallOf
<1> HIDE DEF s, L
<1>5. CASE \E i \in 1..Len(s) : s[i].id = e.id
  <2>1. PICK i \in 1..Len(s) : s[i].id = e.id
    BY <1>5
  <2>2. kept = s
    BY <2>1, <1>4 DEF Deduplicated, s
  <2>3. ~Announces(e)
    <3>1. PICK j \in FirstCalls : s[i] = CallOf(seen[j])
      BY <2>1, <1>3 DEF Lists
    <3>2. j \in Seen(T) /\ seen[j].id = e.id
      BY <3>1, <2>1 DEF FirstCalls, CallOf
    <3> QED
      BY <3>2 DEF Announces
  <2>4. Lists(kept)'
    BY <2>2, <2>3, <1>3, ListsStay
  <2>5. \A j \in Seen(T)' : \E k \in 1..Len(kept) : kept[k].id = seen'[j].id
    BY <2>1, <2>2, <1>1, <1>3
  <2> QED
    BY <2>4, <2>5
<1>6. CASE \A i \in 1..Len(s) : s[i].id # e.id
  <2>1. kept = Append(s, CallOf(e))
    BY <1>4, <1>6 DEF Deduplicated, s
  <2>2. Announces(e)
    BY <1>3, <1>6 DEF Announces
  <2>3. Lists(kept)'
    <3> PICK r, c : r = s /\ c = CallOf(e)
      OBVIOUS
    <3>1. /\ r \in Seq(Call) /\ Lists(r) /\ (\A i \in 1..Len(r) : r[i].id # e.id)
          /\ c \in Call /\ c = [id |-> e.id, args |-> e.args]
      BY <1>2, <1>3, <1>6 DEF CallOf
    <3>2. Lists(Append(r, c))'
      BY <3>1, <2>2, ListsGrow
    <3>3. kept = Append(r, c)
      BY <2>1
    <3> QED
      BY <3>2, <3>3
  <2>4. /\ Len(kept) = Len(s) + 1 /\ kept[Len(s) + 1] = CallOf(e)
        /\ \A i \in 1..Len(s) : kept[i] = s[i]
    BY <2>1, <1>2, AppendCases
  <2>5. \A j \in Seen(T)' : \E k \in 1..Len(kept) : kept[k].id = seen'[j].id
    <3> TAKE j \in Seen(T)'
    <3>1. CASE j \in Seen(T)
      <4>1. PICK i \in 1..Len(s) : s[i].id = seen[j].id
        BY <3>1, <1>3
      <4> QED
        BY <4>1, <3>1, <2>4, <1>1, <1>2
    <3>2. CASE j = L
      BY <3>2, <2>4, <1>1, <1>2, <1>4
    <3> QED
      BY <3>1, <3>2, <1>1
  <2> QED
    BY <2>3, <2>5
<1> QED
  BY <1>5, <1>6

LEMMA CallsStep ==
    ASSUME TypeOK, UsageFollows, CallsFollow, Next
    PROVE  CallsFollow'
<1> DEFINE T == {"tool-call"}
<1>1. norm \in Normalizer
  BY DEF TypeOK
\* Events that announce nothing, whatever list is looked at.
<1>2. ASSUME NEW e \in Event, Receive(e), e.type = "tool-call" => norm.finished, NEW s, Lists(s)
      PROVE  Lists(s)'
  <2>1. ~Announces(e)
    BY <1>2 DEF Announces, UsageFollows
  <2> QED
    BY <2>1, <1>2, ListsStay DEF Receive
<1>3. ASSUME NEW e \in Event, Receive(e), e.type # "tool-call", ~norm.finished
      PROVE  \A j \in Seen(T)' : \E i \in 1..Len(norm.kept) : norm.kept[i].id = seen'[j].id
  <2>1. /\ Seen(T)' = Seen(T) /\ Seen(T) \subseteq 1..Len(seen)
        /\ \A j \in 1..Len(seen) : seen'[j] = seen[j]
    <3>1. seen' = Append(seen, e)
      BY <1>3 DEF Receive
    <3>2. /\ \A j \in 1..Len(seen) : seen'[j] = seen[j]
          /\ Seen(T) \subseteq 1..Len(seen)
          /\ Seen(T)' = Seen(T) \cup (IF e.type \in T THEN {Len(seen) + 1} ELSE {})
      BY <3>1, Growth
    <3> QED
      BY <3>2, <1>3
  <2> QED
    BY <2>1, <1>3 DEF CallsFollow, Receive
<1>4. ASSUME NEW e \in Event, Refuse(e) PROVE CallsFollow'
  <2>1. Receive(e) /\ phase' = "failed" /\ UNCHANGED <<norm, calls>>
    BY <1>4 DEF Refuse, handlerVars
  <2>2. norm.finished => Lists(calls)'
    <3> PICK s : s = calls
      OBVIOUS
    <3>1. ASSUME norm.finished PROVE Lists(s)'
      BY <3>1, <1>2, <2>1 DEF CallsFollow
    <3> QED
      BY <3>1, <2>1 DEF Lists
  <2> QED
    BY <2>1, <2>2 DEF CallsFollow
<1>5. ASSUME NEW e \in Event, Receive(e), e.type # "tool-call", e.type # "finish",
             norm'.finished = norm.finished, norm'.kept = norm.kept, calls' = calls,
             phase' = phase
      PROVE  CallsFollow'
  <2>1. norm.finished => Lists(calls)'
    <3> PICK s : s = calls
      OBVIOUS
    <3>1. ASSUME norm.finished PROVE Lists(s)'
      BY <3>1, <1>2, <1>5 DEF CallsFollow
    <3> QED
      BY <3>1, <1>5 DEF Lists
  <2>2. ~norm.finished => Lists(norm.kept)'
    <3> PICK s : s = norm.kept
      OBVIOUS
    <3>1. ASSUME ~norm.finished PROVE Lists(s)'
      BY <3>1, <1>2, <1>5 DEF CallsFollow, Receive
    <3> QED
      BY <3>1, <1>5 DEF Lists
  <2> QED
    BY <2>1, <2>2, <1>3, <1>5 DEF CallsFollow
<1>6. ASSUME NEW e \in Event, Content(e) PROVE CallsFollow'
  <2>1. Receive(e) /\ e.type \in Delta /\ UNCHANGED <<norm, calls, phase>>
    BY <1>6 DEF Content
  <2>2. e.type # "tool-call" /\ e.type # "finish"
    BY <2>1 DEF Delta
  <2> QED
    BY <2>1, <2>2, <1>5
<1>7. ASSUME NEW e \in Event, Silent(e) PROVE CallsFollow'
  <2>1. /\ Receive(e) /\ ~Refused(norm, e) /\ norm' = Consumed(norm, e)
        /\ e.type = "finish" => norm.finished
        /\ phase = "reading" /\ UNCHANGED <<calls, phase>>
    BY <1>7 DEF Silent, Receive, handlerVars
  <2>2. norm'.finished = norm.finished
    BY <2>1, <1>1 DEF Consumed, WithUsage, Normalizer
  <2>3. CASE norm.finished
    <3> PICK s : s = calls
      OBVIOUS
    <3>1. Lists(s)'
      BY <2>1, <2>3, <1>2 DEF CallsFollow
    <3>2. Lists(calls)'
      BY <3>1, <2>1 DEF Lists
    <3> QED
      BY <3>2, <2>2, <2>3 DEF CallsFollow
  <2>4. CASE ~norm.finished /\ e.type = "tool-call"
    <3>1. norm'.kept = Deduplicated(norm.kept, CallOf(e))
      BY <2>1, <2>4, <1>1 DEF Consumed, Normalizer, CallOf
    <3> PICK kept : kept = norm'.kept
      OBVIOUS
    <3>2. InOpenTurn
      BY <2>1, <2>4 DEF UsageFollows
    <3>3. /\ Lists(kept)'
          /\ \A j \in Seen(T)' : \E i \in 1..Len(kept) : kept[i].id = seen'[j].id
      <4>1. seen' = Append(seen, e) /\ kept = Deduplicated(norm.kept, CallOf(e))
        BY <3>1, <2>1 DEF Receive
      <4> QED
        BY <4>1, <3>2, <2>1, <2>4, CallConsumed
    <3>4. Lists(norm.kept)'
      BY <3>3 DEF Lists
    <3> QED
      BY <3>3, <3>4, <2>2, <2>4 DEF CallsFollow
  <2>5. CASE ~norm.finished /\ e.type # "tool-call"
    <3>1. norm'.kept = norm.kept /\ e.type # "finish"
      BY <2>1, <2>5, <1>1 DEF Consumed, WithUsage, Normalizer
    <3> QED
      BY <3>1, <2>1, <2>2, <2>5, <1>5
  <2> QED
    BY <2>3, <2>4, <2>5
<1>8. ASSUME NEW e \in Event, Finish(e) PROVE CallsFollow'
  <2>1. /\ Receive(e) /\ e.type = "finish" /\ ~norm.finished /\ norm' = Consumed(norm, e)
        /\ calls' = norm.kept /\ phase = "reading"
    BY <1>8 DEF Finish, Receive
  <2>2. norm'.finished
    BY <2>1, <1>1 DEF Consumed, WithUsage, Normalizer
  <2> PICK s : s = norm.kept
    OBVIOUS
  <2>3. Lists(s)'
    BY <2>1, <1>2 DEF CallsFollow
  <2>4. Lists(calls)'
    BY <2>1, <2>3 DEF Lists
  <2> QED
    BY <2>2, <2>4 DEF CallsFollow
<1>9. ASSUME UNCHANGED <<norm, calls, seen>>, phase' = "reading" => phase = "reading"
      PROVE  CallsFollow'
  <2>1. FirstCalls' = FirstCalls /\ Seen(T)' = Seen(T)
    BY <1>9 DEF FirstCalls, InTurn, Seen
  <2>2. ASSUME NEW s PROVE Lists(s)' <=> Lists(s)
    BY <2>1, <1>9 DEF Lists
  <2> PICK s, k : s = calls /\ k = norm.kept
    OBVIOUS
  <2>3. Lists(calls) <=> Lists(s)
    BY DEF Lists
  <2>4. Lists(calls)' <=> Lists(s)'
    BY <1>9 DEF Lists
  <2>5. Lists(norm.kept) <=> Lists(k)
    BY DEF Lists
  <2>6. Lists(norm.kept)' <=> Lists(k)'
    BY <1>9 DEF Lists
  <2> QED
    BY <2>1, <2>2, <2>3, <2>4, <2>5, <2>6, <1>9 DEF CallsFollow
<1>10. ASSUME NEW how \in {"eof", "DONE", "failed"}, Stop(how) PROVE CallsFollow'
  BY <1>9, <1>10 DEF Stop, handlerVars
<1>11. CASE CloseStream
  BY <1>9, <1>11 DEF CloseStream
<1>12. CASE Answer
  BY <1>9, <1>12 DEF Answer
<1> QED
  BY <1>4, <1>6, <1>7, <1>8, <1>10, <1>11, <1>12 DEF Next

-----------------------------------------------------------------------------
(***************************************************************************)
(* The shape of the stream, and the finish it answers to.                  *)
(***************************************************************************)

\* Where the parts of a closed stream are.
LEMMA ClosedPlaces ==
    ASSUME NEW s, NEW c, NEW us, Closable(s, c, us), NEW t, t = Closed(s, c, us),
           NEW n \in Nat, n = Len(s)
    PROVE  /\ Len(t) \in Nat /\ n + 1 <= Len(t)
           /\ \A i \in 1..n : t[i] = s[i]
           /\ t[n + 1] = c
           /\ \A i \in 1..Len(t) : i > n + 1 => t[i].kind \in {"usage", "DONE"}
<1> DEFINE D == [kind |-> "DONE"]
           a == s \o <<c>>
           b == a \o us
<1> USE DEF Closable
<1>1. /\ s \in Seq(Chunk) /\ c \in Chunk /\ D \in Chunk /\ D.kind = "DONE"
      /\ Len(s) \in Nat
  BY EndChunks, LenProperties
<1>2. /\ us \in Seq(Chunk) /\ Len(us) \in Nat
      /\ \A i \in 1..Len(us) : us[i].kind = "usage"
  <2>1. CASE us = <<>>
    BY <2>1
  <2>2. CASE \E u \in Usages \cup {NoUsage} : us = <<[kind |-> "usage", usage |-> u]>>
    <3>1. PICK u \in Usages \cup {NoUsage} : us = <<[kind |-> "usage", usage |-> u]>>
      BY <2>2
    <3> DEFINE U == [kind |-> "usage", usage |-> u]
    <3>2. U \in Chunk /\ U.kind = "usage"
      BY EndChunks
    <3> HIDE DEF U
    <3>3. us = <<U>>
      BY <3>1 DEF U
    <3> QED
      BY <3>2, <3>3
  <2> QED
    BY <2>1, <2>2
<1> HIDE DEF D, Closable
<1>3. /\ a \in Seq(Chunk) /\ Len(a) = Len(s) + 1 /\ a[Len(s) + 1] = c
      /\ \A i \in 1..Len(s) : a[i] = s[i]
  BY <1>1, AppendIsConcat, AppendCases
<1> HIDE DEF a
<1>4. /\ b \in Seq(Chunk) /\ Len(b) = Len(a) + Len(us)
      /\ \A i \in 1..Len(a) : b[i] = a[i]
      /\ \A i \in 1..Len(b) : i > Len(a) => b[i].kind = "usage"
  <2>1. /\ b \in Seq(Chunk) /\ Len(b) = Len(a) + Len(us)
        /\ \A i \in 1..Len(b) :
              \/ i \in 1..Len(a) /\ b[i] = a[i]
              \/ i - Len(a) \in 1..Len(us) /\ i > Len(a) /\ b[i] = us[i - Len(a)]
        /\ \A i \in 1..Len(a) : b[i] = a[i]
    <3>1. a \in Seq(Chunk) /\ us \in Seq(Chunk)
      BY <1>2, <1>3
    <3>2. b \in Seq(Chunk)
      BY <3>1, ConcatCases
    <3>3. Len(b) = Len(a) + Len(us)
      BY <3>1, ConcatCases
    <3>4. \A i \in 1..Len(b) :
              \/ i \in 1..Len(a) /\ b[i] = a[i]
              \/ i - Len(a) \in 1..Len(us) /\ i > Len(a) /\ b[i] = us[i - Len(a)]
      BY <3>1, ConcatCases
    <3>5. \A i \in 1..Len(a) : b[i] = a[i]
      BY <3>1, ConcatCases
    <3> QED
      BY <3>2, <3>3, <3>4, <3>5
  <2> HIDE DEF b
  <2>2. ASSUME NEW i \in 1..Len(b), i > Len(a) PROVE b[i].kind = "usage"
    <3>1. ~(i \in 1..Len(a))
      BY <2>2, <1>1, <1>3
    <3>2. i - Len(a) \in 1..Len(us) /\ b[i] = us[i - Len(a)]
      BY <2>1, <3>1
    <3>3. PICK k \in 1..Len(us) : b[i] = us[k]
      BY <3>2
    <3> QED
      BY <3>3, <1>2
  <2> QED
    BY <2>1, <2>2
<1> HIDE DEF b
<1>5. /\ t \in Seq(Chunk) /\ Len(t) = Len(b) + 1 /\ t[Len(b) + 1] = D
      /\ \A i \in 1..Len(b) : t[i] = b[i]
  <2>1. t = b \o <<D>>
    BY DEF Closed, a, b, D
  <2> QED
    BY <2>1, <1>1, <1>4, AppendIsConcat, AppendCases
<1>6. ASSUME NEW i \in 1..Len(t), i > Len(s) + 1 PROVE t[i].kind \in {"usage", "DONE"}
  <2>1. CASE i = Len(b) + 1
    BY <2>1, <1>1, <1>5
  <2>2. CASE i \in 1..Len(b)
    BY <2>2, <1>3, <1>4, <1>5, <1>6
  <2>3. Len(b) \in Nat
    BY <1>1, <1>2, <1>3, <1>4
  <2> QED
    BY <2>1, <2>2, <2>3, <1>5
<1>7. \A i \in 1..Len(s) : t[i] = s[i]
  BY <1>1, <1>2, <1>3, <1>4, <1>5
<1>8. t[Len(s) + 1] = c /\ Len(s) + 1 <= Len(t) /\ Len(t) \in Nat
  BY <1>1, <1>2, <1>3, <1>4, <1>5
<1> QED
  BY <1>1, <1>6, <1>7, <1>8

\* A finish stays the finish of the turn, whatever follows.
LEMMA EndsTurnStays ==
    ASSUME TypeOK, NEW e \in Event, seen' = Append(seen, e), UNCHANGED <<mode, final>>,
           NEW f, EndsTurn(f)
    PROVE  f \in Seen({"finish"})' /\ EndsTurn(f)' /\ seen'[f] = seen[f]
<1> DEFINE T == {"finish"}
<1>1. /\ Len(seen) \in Nat
      /\ \A j \in 1..Len(seen) : seen'[j] = seen[j]
      /\ Seen(T) \subseteq 1..Len(seen)
      /\ Seen(T)' = Seen(T) \cup (IF e.type \in T THEN {Len(seen) + 1} ELSE {})
  BY Growth
<1>2. f \in Seen(T) /\ f \in 1..Len(seen) /\ \A k \in Seen(T) : f <= k
  BY <1>1 DEF EndsTurn
<1>3. f \in Seen(T)' /\ \A k \in Seen(T)' : f <= k
  BY <1>1, <1>2
<1> QED
  BY <1>1, <1>2, <1>3 DEF EndsTurn

\* The first finish, once it is accepted.
LEMMA EndsTurnNew ==
    ASSUME TypeOK, NEW e \in Event, seen' = Append(seen, e), InOpenTurn,
           e.type = "finish", e.reason \in Reasons, mode' = "plain" => final' = e.reason,
           NEW f, f = Len(seen) + 1
    PROVE  Seen({"finish"})' = {f} /\ EndsTurn(f)' /\ seen'[f] = e
<1> DEFINE T == {"finish"}
           L == Len(seen) + 1
<1>1. Len(seen) \in Nat /\ seen'[L] = e
      /\ Seen(T)' = Seen(T) \cup (IF e.type \in T THEN {Len(seen) + 1} ELSE {})
  BY Growth
<1>2. Seen(T)' = {L}
  BY <1>1 DEF InOpenTurn
<1>3. f \in Int /\ f \in Seen(T)' /\ \A k \in Seen(T)' : f <= k
  BY <1>1, <1>2
<1>4. EndsTurn(f)'
  BY <1>1, <1>3 DEF EndsTurn
<1> QED
  BY <1>1, <1>2, <1>4

\* A stream that is open has sent content only.
LEMMA OpenShape ==
    ASSUME TypeOK, Recorded, Shape, OpenStream, mode = "stream", ~done, ~closed
    PROVE  /\ OpenOrFailed(Len(out))
           /\ Len(out) \in Nat
           /\ \A i \in 1..Len(out) : out[i].kind \in Delta
           /\ norm.finished => phase = "failed"
<1>1. PICK d \in 0..Len(out) : OpenOrFailed(d) \/ Committed(d)
  BY DEF Shape
<1>2. OpenOrFailed(d)
  BY <1>1 DEF Committed
<1>3. Len(out) \in Nat /\ \A i \in 1..Len(out) : out[i].kind \in Delta
  BY LenProperties DEF TypeOK, OpenStream
<1>4. Kinds(Delta) = 1..Len(out)
  BY <1>3 DEF Kinds
<1> QED
  BY <1>2, <1>3, <1>4 DEF OpenOrFailed

\* An event that changes nothing but the normalizer and the buffers.
LEMMA ShapeQuiet ==
    ASSUME TypeOK, Recorded, Shape, NEW e \in Event, Receive(e),
           UNCHANGED <<mode, out, done, closed, calls, final>>,
           norm'.finished = norm.finished
    PROVE  Shape'
<1>1. seen' = Append(seen, e) /\ phase = "reading" /\ ~closed
  BY DEF Receive, Recorded
<1>2. \A K : Kinds(K)' = Kinds(K)
  BY DEF Kinds
<1>3. ASSUME NEW f, EndsTurn(f)
      PROVE  f \in Seen({"finish"})' /\ EndsTurn(f)' /\ seen'[f] = seen[f]
  BY <1>1, <1>3, EndsTurnStays
<1>4. norm'.finished => \E f \in Seen({"finish"})' : EndsTurn(f)'
  BY <1>3 DEF Shape
<1>5. mode' = "stream" => \E d \in 0..Len(out') : OpenOrFailed(d)' \/ Committed(d)'
  <2> SUFFICES ASSUME mode = "stream"
               PROVE  \E d \in 0..Len(out) : OpenOrFailed(d)' \/ Committed(d)'
    OBVIOUS
  <2>1. PICK d \in 0..Len(out) : OpenOrFailed(d) \/ Committed(d)
    BY DEF Shape
  <2>2. CASE OpenOrFailed(d)
    <3>1. ~norm.finished
      BY <2>2, <1>1 DEF OpenOrFailed
    <3>2. OpenOrFailed(d)'
      BY <2>2, <3>1, <1>2 DEF OpenOrFailed
    <3> QED
      BY <3>2
  <2>3. CASE Committed(d)
    <3>1. PICK f \in Seen({"finish"}) :
             /\ EndsTurn(f)
             /\ ~Hollow(seen[f].reason)
             /\ out[d + Len(calls) + 1].reason =
                   resolveFinishReason(seen[f].reason, calls # <<>>)
      BY <2>3 DEF Committed
    <3>2. f \in Seen({"finish"})' /\ EndsTurn(f)' /\ seen'[f] = seen[f]
      BY <3>1, <1>3
    <3>3. /\ ~Hollow(seen[f].reason)'
          /\ out'[d + Len(calls') + 1].reason =
                resolveFinishReason(seen'[f].reason, calls' # <<>>)
      BY <3>1, <3>2 DEF Hollow
    <3>4. Committed(d)'
      BY <2>3, <3>2, <3>3, <1>2 DEF Committed
    <3> QED
      BY <3>4
  <2> QED
    BY <2>1, <2>2, <2>3
<1>6. ~(mode' = "plain" /\ closed')
  BY <1>1
<1> QED
  BY <1>4, <1>5, <1>6 DEF Shape

\* One more fragment on an open stream.
LEMMA ShapeContent ==
    ASSUME TypeOK, Recorded, Shape, OpenStream, NEW e \in Event, Receive(e), e.type \in Delta,
           mode = "stream", ~done,
           out' = Append(out, [kind |-> e.type, text |-> e.text, role |-> firstText]),
           UNCHANGED <<norm, done, calls, final, closed>>
    PROVE  Shape'
<1> DEFINE c == [kind |-> e.type, text |-> e.text, role |-> firstText]
<1>1. phase = "reading" /\ ~closed /\ mode' = mode
  BY DEF Receive, Recorded
<1>2. /\ OpenOrFailed(Len(out)) /\ Len(out) \in Nat
      /\ \A i \in 1..Len(out) : out[i].kind \in Delta
      /\ ~norm.finished
  BY <1>1, OpenShape
<1>3. out \in Seq(Chunk) /\ c \in Chunk
  BY ContentChunks, EventFields DEF TypeOK
<1>4. /\ Len(out') = Len(out) + 1
      /\ \A i \in 1..Len(out') : out'[i].kind \in Delta
  <2>1. /\ Len(out') = Len(out) + 1
        /\ \A i \in 1..Len(out) : out'[i] = out[i]
        /\ out'[Len(out) + 1] = c
        /\ \A i \in 1..Len(out') : i \in 1..Len(out) \/ i = Len(out) + 1
    BY <1>3, AppendCases
  <2> QED
    BY <2>1, <1>2
<1> PICK d : d = Len(out')
  OBVIOUS
<1>5. d \in 0..Len(out') /\ d = Len(out') /\ d \in Nat
  BY <1>2, <1>4
<1>6. OpenOrFailed(d)'
  <2>1. Kinds(Delta)' = 1..d
    BY <1>4, <1>5 DEF Kinds
  <2>2. Kinds({"call"})' = {} /\ Kinds({"finish", "answer"})' = {} /\ Kinds({"error"})' = {}
    BY <1>4 DEF Kinds, Delta
  <2> QED
    BY <2>1, <2>2, <1>1, <1>2 DEF OpenOrFailed
<1> QED
  BY <1>1, <1>2, <1>5, <1>6 DEF Shape

\* A finish that breaks the stream before anything of it is written.
LEMMA ShapeHollow ==
    ASSUME TypeOK, Recorded, Shape, OpenStream, OverMeansFinished, InOpenTurn,
           NEW e \in Event, Receive(e), e.type = "finish", e.reason = "tool_calls",
           "tool_calls" \in Reasons, ~norm.finished, mode = "stream",
           calls' = <<>>, phase' = "failed", UNCHANGED <<out, done, final, closed>>
    PROVE  Shape'
<1>1. phase = "reading" /\ ~closed /\ ~done /\ mode' = mode /\ seen' = Append(seen, e)
  BY DEF Receive, Recorded, OverMeansFinished
<1>2. OpenOrFailed(Len(out)) /\ Len(out) \in Nat
  BY <1>1, OpenShape
<1> PICK d, f : d = Len(out) /\ f = Len(seen) + 1
  OBVIOUS
<1>3. Seen({"finish"})' = {f} /\ EndsTurn(f)' /\ seen'[f] = e
  BY <1>1, EndsTurnNew
<1>4. Hollow(seen[f].reason)'
  BY <1>3 DEF Hollow
<1>5. OpenOrFailed(d)'
  <2>1. \A K : Kinds(K)' = Kinds(K)
    BY DEF Kinds
  <2>2. OpenOrFailed(d)
    BY <1>2 DEF OpenOrFailed
  <2> QED
    BY <2>1, <2>2, <1>3, <1>4 DEF OpenOrFailed
<1> QED
  BY <1>1, <1>2, <1>3, <1>5 DEF Shape

\* A stream that is committed: content, the calls released, and the reason.
Opening == out \o CallChunks

Ending(reason) == [kind |-> "finish", reason |-> reason]

LEMMA OpeningPlaces ==
    ASSUME TypeOK
    PROVE  /\ Len(Opening) = Len(out) + Len(CallChunks)
           /\ \A i \in 1..Len(out) : i \in 1..Len(Opening) /\ Opening[i] = out[i]
           /\ \A i \in 1..Len(CallChunks) :
                 i + Len(out) \in 1..Len(Opening) /\ Opening[i + Len(out)] = CallChunks[i]
<1> PICK s, t : s = out /\ t = CallChunks
  OBVIOUS
<1>1. s \in Seq(Chunk) /\ t \in Seq(Chunk)
  BY CallChunkTypes DEF TypeOK
<1>2. /\ Len(s \o t) = Len(s) + Len(t)
      /\ \A i \in 1..Len(s) : i \in 1..Len(s \o t) /\ (s \o t)[i] = s[i]
      /\ \A i \in 1..Len(t) : i + Len(s) \in 1..Len(s \o t) /\ (s \o t)[i + Len(s)] = t[i]
  BY <1>1, ConcatCases
<1>3. Opening = s \o t
  BY DEF Opening
<1> QED
  BY <1>2, <1>3

\* The calls follow d chunks of content; after them comes the end.
Called(s, d, cs) ==
    \A i \in 1..Len(cs) : s[d + i].kind = "call" /\ s[d + i].call = cs[i]

Parted(s, d, m) ==
    \A i \in 1..Len(s) :
        \/ i \in 1..d
        \/ i \in (d + 1)..(d + m) /\ s[i].kind = "call"
        \/ i = d + m + 1
        \/ i > d + m + 1 /\ s[i].kind \in {"usage", "DONE"}

LEMMA CommitPlaces ==
    ASSUME IInv, mode = "stream", ~done, norm' \in Normalizer,
           NEW q \in Reasons, NEW r, r = resolveFinishReason(q, norm.kept # <<>>),
           out' = Closed(Opening, Ending(r), UsageChunk(norm'.usage)),
           NEW d \in Nat, d = Len(out), NEW m \in Nat, m = Len(norm.kept)
    PROVE  /\ d + m + 1 \in 1..Len(out') /\ Len(out') \in Nat
           /\ \A i \in 1..d : out'[i] = out[i] /\ out'[i].kind \in Delta
           /\ Called(out', d, norm.kept)
           /\ out'[d + m + 1] = Ending(r)
           /\ Parted(out', d, m)
<1> DEFINE H == Opening
           F == Ending(r)
           us == UsageChunk(norm'.usage)
           kept == norm.kept
<1>1. TypeOK /\ Wire
  BY DEF IInv, Wire
<1>2. /\ Len(out) \in Nat /\ out \in Seq(Chunk)
      /\ \A i \in 1..Len(out) : out[i].kind \in Delta
  BY LenProperties DEF IInv, TypeOK, OpenStream
<1>3. /\ CallChunks \in Seq(Chunk) /\ Len(CallChunks) = Len(kept) /\ Len(kept) \in Nat
      /\ \A i \in 1..Len(kept) : CallChunks[i].kind = "call" /\ CallChunks[i].call = kept[i]
  BY <1>1, CallChunkTypes, LenProperties DEF CallChunks
<1>4. Closable(H, F, us)
  <2>1. r \in Reasons \cup {"tool_calls", "length"}
    BY ReasonTypes
  <2>2. F \in Chunk /\ F.kind = "finish"
    BY <2>1, EndChunks DEF Ending
  <2>3. us = <<>> \/ \E u \in Usages \cup {NoUsage} : us = <<[kind |-> "usage", usage |-> u]>>
    <3>1. norm'.usage \in Usages \cup {NoUsage}
      BY DEF Normalizer
    <3> QED
      BY <3>1 DEF UsageChunk
  <2>4. /\ H \in Seq(Chunk) /\ Ordered(H)
        /\ \A i \in 1..Len(H) : H[i].kind \in Delta \cup {"call"} /\ H[i].role = (i = 1)
    BY <1>1, CommitHead DEF Opening
  <2> HIDE DEF H, F, us
  <2> QED
    BY <2>2, <2>3, <2>4 DEF Closable, ContentOrCall
<1>5. /\ Len(H) = Len(out) + Len(kept)
      /\ \A i \in 1..Len(out) : i \in 1..Len(H) /\ H[i] = out[i]
      /\ \A i \in 1..Len(kept) : i + Len(out) \in 1..Len(H) /\ H[i + Len(out)] = CallChunks[i]
  <2>1. /\ Len(H) = Len(out) + Len(CallChunks)
        /\ \A i \in 1..Len(out) : i \in 1..Len(H) /\ H[i] = out[i]
        /\ \A i \in 1..Len(CallChunks) :
              i + Len(out) \in 1..Len(H) /\ H[i + Len(out)] = CallChunks[i]
    BY <1>1, OpeningPlaces
  <2> QED
    BY <2>1, <1>3
<1> HIDE DEF H, F, us
<1>6. /\ Len(out') \in Nat /\ Len(H) + 1 <= Len(out')
      /\ \A i \in 1..Len(H) : out'[i] = H[i]
      /\ out'[Len(H) + 1] = F
      /\ \A i \in 1..Len(out') : i > Len(H) + 1 => out'[i].kind \in {"usage", "DONE"}
  <2> PICK s, c, u, t, n : s = H /\ c = F /\ u = us /\ t = out' /\ n = Len(H)
    OBVIOUS
  <2>1. Closable(s, c, u) /\ t = Closed(s, c, u) /\ n \in Nat /\ n = Len(s)
    BY <1>2, <1>3, <1>4, <1>5 DEF H, F, us
  <2>2. /\ Len(t) \in Nat /\ n + 1 <= Len(t)
        /\ \A i \in 1..n : t[i] = s[i]
        /\ t[n + 1] = c
        /\ \A i \in 1..Len(t) : i > n + 1 => t[i].kind \in {"usage", "DONE"}
    BY <2>1, ClosedPlaces
  <2> QED
    BY <2>2
<1>7. d \in Nat /\ m \in Nat /\ Len(H) = d + m /\ d + m + 1 \in 1..Len(out')
  BY <1>2, <1>3, <1>5, <1>6
<1>8. \A i \in 1..d : out'[i] = out[i] /\ out'[i].kind \in Delta
  BY <1>2, <1>5, <1>6
<1>9. \A i \in 1..m : out'[d + i].kind = "call" /\ out'[d + i].call = kept[i]
  <2> TAKE i \in 1..m
  <2>1. i + Len(out) \in 1..Len(H) /\ H[i + Len(out)] = CallChunks[i]
    BY <1>5
  <2>2. i + Len(out) = d + i
    BY <1>7
  <2>3. out'[d + i] = CallChunks[i]
    BY <2>1, <2>2, <1>6
  <2> QED
    BY <2>3, <1>3
<1>10. out'[d + m + 1] = F
  BY <1>6, <1>7
<1>11. \A i \in (d + 1)..(d + m) : out'[i].kind = "call"
  <2> TAKE i \in (d + 1)..(d + m)
  <2>1. PICK k \in 1..m : i = d + k
    <3>1. i - d \in 1..m /\ i = d + (i - d)
      BY <1>7
    <3> QED
      BY <3>1
  <2> QED
    BY <2>1, <1>9
<1>12. ASSUME NEW i \in 1..Len(out')
       PROVE  \/ i \in 1..d
              \/ i \in (d + 1)..(d + m) /\ out'[i].kind = "call"
              \/ i = d + m + 1
              \/ i > d + m + 1 /\ out'[i].kind \in {"usage", "DONE"}
  <2>1. i \in Int /\ i >= 1 /\ d \in Nat /\ m \in Nat
    BY <1>6, <1>7
  <2>2. i > d + m + 1 => out'[i].kind \in {"usage", "DONE"}
    BY <1>6, <1>7
  <2>3. i \in 1..d \/ i \in (d + 1)..(d + m) \/ i = d + m + 1 \/ i > d + m + 1
    BY <2>1
  <2> QED
    BY <2>2, <2>3, <1>11
<1> QED
  BY <1>6, <1>7, <1>8, <1>9, <1>10, <1>12 DEF F, Called, Parted

LEMMA ShapeCommit ==
    ASSUME IInv, Recorded, Shape, InOpenTurn, NEW e \in Event, Receive(e),
           e.type = "finish", e.reason \in Reasons, ~norm.finished,
           norm' \in Normalizer, norm'.finished, mode = "stream",
           calls' = norm.kept, ~(e.reason = "tool_calls" /\ norm.kept = <<>>),
           NEW r, r = resolveFinishReason(e.reason, norm.kept # <<>>),
           out' = Closed(Opening, Ending(r), UsageChunk(norm'.usage)),
           done' = TRUE, UNCHANGED <<final, closed>>
    PROVE  Shape'
<1> DEFINE kept == norm.kept
<1>1. /\ phase = "reading" /\ ~closed /\ ~done /\ mode' = mode /\ seen' = Append(seen, e)
      /\ TypeOK
  BY DEF Receive, Recorded, IInv, OverMeansFinished
<1> PICK d, m, f : d = Len(out) /\ m = Len(kept) /\ f = Len(seen) + 1
  OBVIOUS
<1>7. Ending(r).kind = "finish" /\ Ending(r).reason = r
  BY DEF Ending
<1>8. /\ d \in Nat /\ m \in Nat /\ d + m + 1 \in 1..Len(out') /\ Len(out') \in Nat
      /\ \A i \in 1..d : out'[i].kind \in Delta
      /\ \A i \in 1..m : out'[d + i].kind = "call" /\ out'[d + i].call = kept[i]
      /\ out'[d + m + 1] = Ending(r)
      /\ \A i \in 1..Len(out') :
            \/ i \in 1..d
            \/ i \in (d + 1)..(d + m) /\ out'[i].kind = "call"
            \/ i = d + m + 1
            \/ i > d + m + 1 /\ out'[i].kind \in {"usage", "DONE"}
  <2> PICK q : q = e.reason
    OBVIOUS
  <2>1. q \in Reasons /\ r = resolveFinishReason(q, norm.kept # <<>>)
    OBVIOUS
  <2>2. d \in Nat /\ d = Len(out) /\ m \in Nat /\ m = Len(norm.kept)
    BY LenProperties DEF IInv, TypeOK, Normalizer
  <2> HIDE DEF kept
  <2>3. /\ d + m + 1 \in 1..Len(out') /\ Len(out') \in Nat
        /\ \A i \in 1..d : out'[i] = out[i] /\ out'[i].kind \in Delta
        /\ Called(out', d, norm.kept)
        /\ out'[d + m + 1] = Ending(r)
        /\ Parted(out', d, m)
    BY <1>1, <2>1, <2>2, CommitPlaces
  <2> QED
    BY <2>2, <2>3 DEF kept, Called, Parted
<1>9. d \in 0..Len(out')
  BY <1>8
<1>10. \A i \in 1..d : out'[i].kind \in Delta
  BY <1>8
<1>11. \A i \in 1..m : out'[d + i].kind = "call" /\ out'[d + i].call = kept[i]
  BY <1>8
<1>12. out'[d + m + 1] = Ending(r)
  BY <1>8
<1>13. \A i \in 1..Len(out') : i > d + m + 1 => out'[i].kind \in {"usage", "DONE"}
  BY <1>8
<1>14. \A i \in (d + 1)..(d + m) : out'[i].kind = "call"
  BY <1>8
<1>15. \A i \in 1..Len(out') : \/ i \in 1..d
                               \/ i \in (d + 1)..(d + m)
                               \/ i = d + m + 1
                               \/ i > d + m + 1
  BY <1>8
<1>16. /\ 1..d \subseteq 1..Len(out') /\ (d + 1)..(d + m) \subseteq 1..Len(out')
       /\ d + m + 1 \in 1..Len(out')
  BY <1>8
<1>17. Kinds(Delta)' = 1..d
  BY <1>7, <1>10, <1>12, <1>13, <1>14, <1>15, <1>16 DEF Kinds, Delta
<1>18. Kinds({"call"})' = (d + 1)..(d + m)
  BY <1>7, <1>10, <1>12, <1>13, <1>14, <1>15, <1>16 DEF Kinds, Delta
<1>19. Kinds({"finish", "answer"})' = {d + m + 1} /\ Kinds({"error", "answer"})' = {}
  <2>1. Kinds({"finish", "answer"})' = {d + m + 1}
    <3>1. ASSUME NEW i \in 1..Len(out'), i # d + m + 1
          PROVE  out'[i].kind \notin {"finish", "answer"}
      BY <3>1, <1>10, <1>13, <1>14, <1>15 DEF Delta
    <3>2. d + m + 1 \in 1..Len(out') /\ out'[d + m + 1].kind = "finish"
      BY <1>7, <1>12, <1>16
    <3> QED
      BY <3>1, <3>2 DEF Kinds
  <2>2. \A i \in 1..Len(out') : out'[i].kind \notin {"error", "answer"}
    BY <1>7, <1>10, <1>12, <1>13, <1>14, <1>15 DEF Delta
  <2> QED
    BY <2>1, <2>2 DEF Kinds
<1>20. Seen({"finish"})' = {f} /\ EndsTurn(f)' /\ seen'[f] = e
  BY <1>1, EndsTurnNew
<1>21. /\ f \in Seen({"finish"})' /\ EndsTurn(f)' /\ ~Hollow(seen[f].reason)'
       /\ out'[d + Len(calls') + 1].reason = resolveFinishReason(seen'[f].reason, calls' # <<>>)
  BY <1>7, <1>12, <1>20 DEF Hollow
<1>22. Committed(d)'
  <2>1. Len(calls') = m /\ calls' = kept
    OBVIOUS
  <2>2. \A i \in 1..Len(calls') : out'[d + i].call = calls'[i]
    <3> HIDE DEF kept
    <3> QED
      BY <1>11, <2>1
  <2>3. norm'.finished /\ done'
    OBVIOUS
  <2> HIDE DEF kept
  <2> QED
    BY <1>17, <1>18, <1>19, <1>21, <2>1, <2>2, <2>3 DEF Committed
<1> QED
  BY <1>1, <1>9, <1>21, <1>22 DEF Shape

\* A stream that is failed: nothing but content came before.
LEMMA ShapeClose ==
    ASSUME IInv, Recorded, Shape, CloseStream
    PROVE  Shape'
<1>1. /\ mode = "stream" /\ ~closed /\ closed' = TRUE
      /\ UNCHANGED <<mode, norm, phase, calls, final, seen>>
      /\ Seen({"finish"})' = Seen({"finish"})
  BY DEF CloseStream, Seen
<1>2. \A f : EndsTurn(f)' <=> EndsTurn(f)
  BY <1>1 DEF EndsTurn
<1>3. PICK d \in 0..Len(out) : OpenOrFailed(d) \/ Committed(d)
  BY <1>1 DEF Shape
<1>4. CASE done
  <2>1. out' = out /\ done' = TRUE /\ \A K : Kinds(K)' = Kinds(K)
    BY <1>4 DEF CloseStream, Kinds
  <2>2. CASE OpenOrFailed(d)
    <3>1. Kinds({"DONE"}) # {}
      BY <1>1, <1>4 DEF IInv, StreamGrammar
    <3>2. Kinds({"call", "usage", "DONE"}) # {}
      BY <3>1 DEF Kinds
    <3>3. Kinds({"finish", "error"}) # {}
      BY <3>2 DEF IInv, StreamGrammar
    <3>4. Kinds({"error"}) # {}
      BY <2>2, <3>3 DEF OpenOrFailed, Kinds
    <3> QED
      BY <2>2, <3>4, <1>1 DEF OpenOrFailed
  <2>3. CASE Committed(d)
    <3>1. Committed(d)'
      BY <2>1, <2>3, <1>1, <1>2 DEF Committed, Hollow
    <3> QED
      BY <3>1, <2>1, <1>1, <1>2 DEF Shape
  <2> QED
    BY <2>2, <2>3, <1>3
<1>5. CASE ~done
  <2> DEFINE E == [kind |-> "error"]
             D == [kind |-> "DONE"]
  <2>1. /\ OpenOrFailed(Len(out)) /\ Len(out) \in Nat
        /\ \A i \in 1..Len(out) : out[i].kind \in Delta
    BY <1>1, <1>5, OpenShape DEF IInv
  <2>2. /\ Len(out') = Len(out) + 2
        /\ \A i \in 1..Len(out) : out'[i] = out[i]
        /\ out'[Len(out) + 1] = E /\ out'[Len(out) + 2] = D
    <3>1. out \in Seq(Chunk) /\ <<E, D>> \in Seq(Chunk)
      BY EndChunks DEF IInv, TypeOK
    <3>2. out' = out \o <<E, D>>
      BY <1>5 DEF CloseStream
    <3> QED
      BY <2>1, <3>1, <3>2
  <2>3. E.kind = "error" /\ D.kind = "DONE"
    OBVIOUS
  <2> HIDE DEF E, D
  <2> PICK n : n = Len(out)
    OBVIOUS
  <2>4. /\ n \in Nat /\ Len(out') = n + 2
        /\ \A i \in 1..n : i \in 1..Len(out') /\ out'[i].kind \in Delta
        /\ n + 1 \in 1..Len(out') /\ out'[n + 1].kind = "error"
        /\ out'[n + 2].kind = "DONE"
        /\ \A i \in 1..Len(out') : i \in 1..n \/ i = n + 1 \/ i = n + 2
        /\ n \in 0..Len(out')
    BY <2>1, <2>2, <2>3
  <2>5. Kinds(Delta)' = 1..n
    BY <2>4 DEF Kinds, Delta
  <2>6. Kinds({"call"})' = {} /\ Kinds({"finish", "answer"})' = {} /\ Kinds({"error"})' # {}
    BY <2>4 DEF Kinds, Delta
  <2>7. OpenOrFailed(n)'
    BY <2>1, <2>5, <2>6, <1>1, <1>2 DEF OpenOrFailed, Hollow
  <2> QED
    BY <2>4, <2>7, <1>1, <1>2 DEF Shape
<1> QED
  BY <1>4, <1>5

LEMMA ShapeStep ==
    ASSUME IInv, UsageFollows, Recorded, Shape, Next
    PROVE  Shape'
<1>1. TypeOK /\ OpenStream /\ OverMeansFinished /\ norm \in Normalizer
  BY DEF IInv, TypeOK
<1>2. ASSUME NEW e \in Event, Refuse(e) PROVE Shape'
  BY <1>1, <1>2, ShapeQuiet DEF Refuse, Receive, handlerVars
<1>3. ASSUME NEW e \in Event, Content(e) PROVE Shape'
  <2>1. Receive(e) /\ e.type \in Delta /\ UNCHANGED <<mode, norm, done, calls, final, closed>>
    BY <1>3 DEF Content, Receive
  <2>2. CASE out' = out
    BY <2>1, <2>2, <1>1, ShapeQuiet
  <2>3. CASE /\ mode = "stream" /\ ~done
             /\ out' = Append(out, [kind |-> e.type, text |-> e.text, role |-> firstText])
    BY <2>1, <2>3, <1>1, ShapeContent
  <2> QED
    BY <1>3, <2>2, <2>3 DEF Content
<1>4. ASSUME NEW e \in Event, Silent(e) PROVE Shape'
  <2>1. norm'.finished = norm.finished
    BY <1>1, <1>4 DEF Silent, Consumed, WithUsage, Normalizer
  <2> QED
    BY <2>1, <1>1, <1>4, ShapeQuiet DEF Silent, Receive, handlerVars
<1>5. ASSUME NEW e \in Event, Finish(e) PROVE Shape'
  <2>1. /\ Receive(e) /\ e.type = "finish" /\ ~norm.finished /\ ~Refused(norm, e)
        /\ norm' = Consumed(norm, e) /\ calls' = norm.kept
        /\ phase = "reading" /\ UNCHANGED <<mode, closed>>
    BY <1>5 DEF Finish, Receive
  <2>2. norm' \in Normalizer /\ norm'.finished
    BY <2>1, <1>1, NormalizerTypes DEF Consumed, WithUsage, Normalizer
  <2>3. e.reason \in Reasons /\ InOpenTurn
    BY <2>1, EventFields DEF Refused, UsageFollows
  <2>4. CASE /\ mode = "stream" /\ e.reason = "tool_calls" /\ norm.kept = <<>>
             /\ phase' = "failed" /\ UNCHANGED <<out, done, final>>
    BY <2>1, <2>2, <2>3, <2>4, <1>1, ShapeHollow
  <2>5. CASE /\ mode = "stream" /\ ~(e.reason = "tool_calls" /\ norm.kept = <<>>)
             /\ out' = out \o CallChunks
                       \o <<[kind |-> "finish",
                             reason |-> resolveFinishReason(e.reason, norm.kept # <<>>)]>>
                       \o UsageChunk(norm'.usage) \o <<[kind |-> "DONE"]>>
             /\ done' = TRUE /\ UNCHANGED final
    <3> PICK r : r = resolveFinishReason(e.reason, norm.kept # <<>>)
      OBVIOUS
    <3>1. out' = Closed(Opening, Ending(r), UsageChunk(norm'.usage))
      BY <2>5 DEF Closed, Opening, Ending
    <3>2. UNCHANGED <<final, closed>> /\ done' = TRUE
      BY <2>1, <2>5
    <3> QED
      BY <3>1, <3>2, <2>1, <2>2, <2>3, <2>5, ShapeCommit
  <2>6. CASE mode = "plain" /\ final' = e.reason
    <3> PICK f : f = Len(seen) + 1
      OBVIOUS
    <3>1. Seen({"finish"})' = {f} /\ EndsTurn(f)'
      BY <2>1, <2>3, <2>6, <1>1, EndsTurnNew DEF Receive
    <3>2. ~closed' /\ mode' = "plain"
      BY <2>1, <2>6 DEF Recorded
    <3> QED
      BY <3>1, <3>2 DEF Shape
  <2> QED
    BY <1>5, <2>4, <2>5, <2>6 DEF Finish
<1>6. ASSUME NEW how \in {"eof", "DONE", "failed"}, Stop(how) PROVE Shape'
  <2>1. /\ phase = "reading" /\ ~closed
        /\ UNCHANGED <<mode, norm, out, calls, final, done, closed, seen>>
    BY <1>6 DEF Stop, handlerVars, Recorded
  <2>2. \A f : EndsTurn(f)' <=> EndsTurn(f)
    BY <2>1 DEF EndsTurn, Seen
  <2>3. (\A K : Kinds(K)' = Kinds(K)) /\ Seen({"finish"})' = Seen({"finish"})
    BY <2>1 DEF Kinds, Seen
  <2>4. ASSUME NEW d, OpenOrFailed(d) PROVE OpenOrFailed(d)'
    <3>1. ~norm.finished
      BY <2>1, <2>4 DEF OpenOrFailed
    <3> QED
      BY <3>1, <2>1, <2>3, <2>4 DEF OpenOrFailed
  <2>5. ASSUME NEW d, Committed(d) PROVE Committed(d)'
    BY <2>1, <2>2, <2>3, <2>5 DEF Committed, Hollow
  <2> QED
    BY <2>1, <2>2, <2>3, <2>4, <2>5 DEF Shape
<1>7. CASE Answer
  <2>1. /\ mode' = "plain" /\ closed' = TRUE
        /\ UNCHANGED <<mode, norm, phase, text, calls, final, seen>>
    BY <1>7 DEF Answer
  <2>2. norm'.finished => \E f \in Seen({"finish"})' : EndsTurn(f)'
    BY <2>1 DEF Shape, EndsTurn, Seen
  <2>3. \/ /\ out' = <<[kind |-> "error"]>>
           /\ phase' = "failed" \/ Refusal'
        \/ /\ out' = <<[kind |-> "answer", text |-> text', calls |-> calls',
                        reason |-> resolveFinishReason(final', calls' # <<>>)]>>
           /\ phase' # "failed" /\ norm'.finished /\ ~Hollow(final)'
    BY <1>7, <2>1 DEF Answer, Refusal, Hollow
  <2> QED
    BY <2>1, <2>2, <2>3 DEF Shape
<1> QED
  BY <1>2, <1>3, <1>4, <1>5, <1>6, <1>7, ShapeClose DEF Next

-----------------------------------------------------------------------------
(***************************************************************************)
(* The content.                                                            *)
(***************************************************************************)
LEMMA FragmentsGrow ==
    ASSUME TypeOK, NEW e \in Event, seen' = Append(seen, e)
    PROVE  /\ Fragments \subseteq 1..Len(seen)
           /\ Fragments' = Fragments \cup
                 (IF e.type \in Delta /\ e.text # "" THEN {Len(seen) + 1} ELSE {})
<1> DEFINE L == Len(seen) + 1
<1>1. /\ Len(seen) \in Nat /\ seen'[L] = e
      /\ \A j \in 1..Len(seen) : seen'[j] = seen[j]
      /\ Seen(Delta) \subseteq 1..Len(seen)
      /\ Seen(Delta)' = Seen(Delta) \cup (IF e.type \in Delta THEN {L} ELSE {})
  BY Growth
<1>2. Fragments' = {j \in Seen(Delta)' : seen'[j].text # ""}
  BY DEF Fragments
<1> QED
  BY <1>1, <1>2 DEF Fragments

LEMMA ShowsStay ==
    ASSUME TypeOK, NEW e \in Event, seen' = Append(seen, e),
           ~(e.type \in Delta /\ e.text # ""), NEW s, Shows(s)
    PROVE  Shows(s)'
<1>1. Fragments' = Fragments /\ Fragments \subseteq 1..Len(seen)
  BY FragmentsGrow
<1>2. \A j \in Fragments : seen'[j] = seen[j]
  BY <1>1, Growth
<1> QED
  BY <1>1, <1>2 DEF Shows

LEMMA ShowsGrow ==
    ASSUME TypeOK, NEW e \in Event, seen' = Append(seen, e),
           e.type \in Delta, e.text # "",
           NEW s, NEW t, NEW l \in Nat, l = Len(s), Shows(s),
           Len(t) = l + 1, t[l + 1] = FragmentOf(e), \A i \in 1..l : t[i] = s[i]
    PROVE  Shows(t)'
<1> DEFINE S == Fragments
           n == Len(seen)
<1>1. n \in Nat /\ S \in SUBSET (1..n) /\ Fragments' = S \cup {n + 1}
  BY FragmentsGrow, Growth
<1>2. seen'[n + 1] = e /\ \A j \in S : seen'[j] = seen[j]
  BY <1>1, Growth
<1>3. l = Cardinality(S) /\ \A j \in S : s[Rank(j, S)] = FragmentOf(seen[j])
  BY DEF Shows
<1> HIDE DEF S, n
<1>4. /\ Cardinality(S \cup {n + 1}) = Cardinality(S) + 1
      /\ Rank(n + 1, S \cup {n + 1}) = Cardinality(S) + 1
      /\ \A j \in S : /\ Rank(j, S \cup {n + 1}) = Rank(j, S)
                      /\ Rank(j, S) \in 1..Cardinality(S)
  BY <1>1, RankGrows
<1>5. Len(t) = Cardinality(Fragments')
  BY <1>1, <1>3, <1>4
<1>6. \A j \in Fragments' : t[Rank(j, Fragments')] = FragmentOf(seen'[j])
  <2> TAKE j \in Fragments'
  <2>1. CASE j \in S
    <3>1. Rank(j, Fragments') = Rank(j, S) /\ Rank(j, S) \in 1..l
      BY <2>1, <1>1, <1>3, <1>4
    <3>2. t[Rank(j, S)] = s[Rank(j, S)]
      BY <3>1
    <3> QED
      BY <3>1, <3>2, <2>1, <1>2, <1>3
  <2>2. CASE j = n + 1
    BY <2>2, <1>1, <1>2, <1>3, <1>4
  <2> QED
    BY <2>1, <2>2, <1>1
<1> QED
  BY <1>5, <1>6 DEF Shows

\* The content of a stream is what comes first on the wire.
ContentFirst ==
    \E d \in Nat :
        /\ Kinds(Delta) = 1..d
        /\ Kinds({"answer"}) = {}
        /\ SentContent = [i \in 1..d |-> [kind |-> out[i].kind, text |-> out[i].text]]

LEMMA StreamContent == TypeOK /\ Shape /\ mode = "stream" => ContentFirst
<1> SUFFICES ASSUME TypeOK, Shape, mode = "stream" PROVE ContentFirst
  OBVIOUS
<1>1. PICK d \in 0..Len(out) : OpenOrFailed(d) \/ Committed(d)
  BY DEF Shape
<1>2. d \in Nat /\ Kinds(Delta) = 1..d
  BY <1>1, LenProperties DEF TypeOK, OpenOrFailed, Committed
<1>3. Kinds({"answer"}) = {}
  BY <1>1 DEF OpenOrFailed, Committed, Kinds
<1>4. Cardinality(Kinds(Delta)) = d /\ Sent(Delta) = [i \in 1..d |-> out[i]]
  <2>1. Kinds(Delta) = (0 + 1)..(0 + d)
    BY <1>2
  <2>2. Cardinality(Kinds(Delta)) = d /\ Sent(Delta) = [i \in 1..d |-> out[0 + i]]
    BY <1>2, <2>1, SentInterval
  <2>3. \A i \in 1..d : out[0 + i] = out[i]
    BY <1>2
  <2> QED
    BY <2>2, <2>3
<1>5. Len(Sent(Delta)) = d
  BY <1>2, <1>4
<1>6. SentContent = [i \in 1..d |-> [kind |-> out[i].kind, text |-> out[i].text]]
  BY <1>3, <1>4, <1>5 DEF SentContent
<1> QED
  BY <1>2, <1>3, <1>6 DEF ContentFirst

\* Chunks that are not content leave it alone.
LEMMA SameContent ==
    ASSUME TypeOK, TypeOK', Shape, Shape', mode = "stream", mode' = "stream",
           \A i \in 1..Len(out) : i \in 1..Len(out') /\ out'[i] = out[i],
           \A i \in 1..Len(out') : i \in 1..Len(out) \/ out'[i].kind \notin Delta
    PROVE  SentContent' = SentContent
<1>1. PICK d \in Nat :
         /\ Kinds(Delta) = 1..d
         /\ SentContent = [i \in 1..d |-> [kind |-> out[i].kind, text |-> out[i].text]]
  BY StreamContent DEF ContentFirst
<1>2. (TypeOK /\ Shape /\ mode = "stream" => ContentFirst)'
  BY StreamContent, PTL
<1>3. PICK c \in Nat :
         /\ Kinds(Delta)' = 1..c
         /\ SentContent' = [i \in 1..c |-> [kind |-> out'[i].kind, text |-> out'[i].text]]
  BY <1>2 DEF ContentFirst
<1>4. Kinds(Delta)' = Kinds(Delta)
  BY DEF Kinds
<1>5. c = d
  <2>1. \A i \in Int : i \in 1..c <=> i \in 1..d
    BY <1>1, <1>3, <1>4
  <2>2. c \in 1..c \/ c = 0
    OBVIOUS
  <2>3. d \in 1..d \/ d = 0
    OBVIOUS
  <2> QED
    BY <2>1, <2>2, <2>3
<1>6. \A i \in 1..d : out'[i] = out[i]
  BY <1>1 DEF Kinds
<1> QED
  BY <1>1, <1>3, <1>5, <1>6

\* Neither end of a stream touches its content.
LEMMA FinishContent ==
    ASSUME IInv, IInv', UsageFollows, Recorded, Shape, Shape',
           NEW e \in Event, Finish(e), mode = "stream"
    PROVE  SentContent' = SentContent
<1>1. TypeOK /\ TypeOK' /\ mode' = "stream" /\ norm \in Normalizer
  BY DEF IInv, TypeOK, Finish, Receive
<1>2. CASE out' = out
  BY <1>1, <1>2, SameContent
<1>3. CASE out' = out \o CallChunks
                  \o <<[kind |-> "finish",
                        reason |-> resolveFinishReason(e.reason, norm.kept # <<>>)]>>
                  \o UsageChunk(norm'.usage) \o <<[kind |-> "DONE"]>>
  <2> PICK q, r, d, m : /\ q = e.reason /\ r = resolveFinishReason(q, norm.kept # <<>>)
                        /\ d = Len(out) /\ m = Len(norm.kept)
    OBVIOUS
  <2>1. out' = Closed(Opening, Ending(r), UsageChunk(norm'.usage))
    BY <1>3 DEF Closed, Opening, Ending
  <2>2. /\ ~done /\ q \in Reasons /\ norm' \in Normalizer
        /\ d \in Nat /\ m \in Nat
    <3>1. ~done
      BY DEF Finish, Receive, IInv, OverMeansFinished
    <3>2. q \in Reasons
      BY EventFields DEF Finish, Refused
    <3>3. norm' \in Normalizer
      BY DEF IInv, TypeOK
    <3>4. d \in Nat /\ m \in Nat
      BY <1>1, LenProperties DEF TypeOK, Normalizer
    <3> QED
      BY <3>1, <3>2, <3>3, <3>4
  <2> HIDE <1>3
  <2>3. /\ d + m + 1 \in 1..Len(out') /\ Len(out') \in Nat
        /\ \A i \in 1..d : out'[i] = out[i] /\ out'[i].kind \in Delta
        /\ out'[d + m + 1] = Ending(r)
        /\ Parted(out', d, m)
    BY <2>1, <2>2, CommitPlaces
  <2>4. \A i \in 1..Len(out) : i \in 1..Len(out') /\ out'[i] = out[i]
    BY <2>2, <2>3
  <2>5. \A i \in 1..Len(out') : i \in 1..Len(out) \/ out'[i].kind \notin Delta
    <3>1. Ending(r).kind \notin Delta
      BY DEF Ending, Delta
    <3> QED
      BY <2>2, <2>3, <3>1 DEF Parted, Delta
  <2> QED
    BY <2>4, <2>5, <1>1, SameContent
<1> QED
  BY <1>2, <1>3 DEF Finish

LEMMA CloseContent ==
    ASSUME IInv, IInv', Shape, Shape', CloseStream
    PROVE  SentContent' = SentContent
<1>1. TypeOK /\ TypeOK' /\ mode = "stream" /\ mode' = "stream"
  BY DEF IInv, CloseStream
<1>2. CASE out' = out
  BY <1>1, <1>2, SameContent
<1>3. CASE out' = out \o <<[kind |-> "error"], [kind |-> "DONE"]>>
  <2> DEFINE E == [kind |-> "error"]
             D == [kind |-> "DONE"]
  <2>1. out \in Seq(Chunk) /\ <<E, D>> \in Seq(Chunk) /\ Len(out) \in Nat
    BY EndChunks, LenProperties DEF IInv, TypeOK
  <2>2. E.kind \notin Delta /\ D.kind \notin Delta
    BY DEF Delta
  <2>3. out' = out \o <<E, D>>
    BY <1>3
  <2> HIDE DEF E, D
  <2>4. /\ Len(out') = Len(out) + 2
        /\ \A i \in 1..Len(out) : out'[i] = out[i]
        /\ out'[Len(out) + 1] = E /\ out'[Len(out) + 2] = D
    BY <2>1, <2>3
  <2>5. \A i \in 1..Len(out') : i \in 1..Len(out) \/ i = Len(out) + 1 \/ i = Len(out) + 2
    BY <2>1, <2>4
  <2>6. \A i \in 1..Len(out) : i \in 1..Len(out') /\ out'[i] = out[i]
    BY <2>1, <2>4
  <2>7. \A i \in 1..Len(out') : i \in 1..Len(out) \/ out'[i].kind \notin Delta
    BY <2>2, <2>4, <2>5
  <2> QED
    BY <2>6, <2>7, <1>1, SameContent
<1> QED
  BY <1>2, <1>3 DEF CloseStream

\* One more fragment on the stream.
LEMMA StreamGrows ==
    ASSUME IInv, IInv', Recorded, Shape, Shape', NEW e \in Event, Receive(e), e.type \in Delta,
           mode = "stream", ~done,
           out' = Append(out, [kind |-> e.type, text |-> e.text, role |-> firstText])
    PROVE  \E l \in Nat : /\ l = Len(SentContent) /\ DOMAIN SentContent = 1..l
                          /\ Len(SentContent') = l + 1
                          /\ SentContent'[l + 1] = FragmentOf(e)
                          /\ \A i \in 1..l : SentContent'[i] = SentContent[i]
<1> DEFINE c == [kind |-> e.type, text |-> e.text, role |-> firstText]
<1>1. TypeOK /\ TypeOK' /\ mode' = "stream"
  BY DEF IInv, Receive
<1>2. /\ Len(out) \in Nat /\ \A i \in 1..Len(out) : out[i].kind \in Delta
  BY LenProperties DEF IInv, TypeOK, OpenStream
<1>3. out \in Seq(Chunk) /\ c \in Chunk
  BY ContentChunks, EventFields DEF IInv, TypeOK
<1>4. c.kind = e.type /\ c.text = e.text
  OBVIOUS
<1> HIDE DEF c
<1>5. /\ Len(out') = Len(out) + 1
      /\ \A i \in 1..Len(out) : out'[i] = out[i]
      /\ out'[Len(out) + 1] = c
      /\ \A i \in 1..Len(out') : i \in 1..Len(out) \/ i = Len(out) + 1
  BY <1>3, AppendCases DEF c
<1>6. PICK d \in Nat :
         /\ Kinds(Delta) = 1..d
         /\ SentContent = [i \in 1..d |-> [kind |-> out[i].kind, text |-> out[i].text]]
  BY <1>1, StreamContent DEF ContentFirst
<1>7. (TypeOK /\ Shape /\ mode = "stream" => ContentFirst)'
  BY StreamContent, PTL
<1>8. PICK k \in Nat :
         /\ Kinds(Delta)' = 1..k
         /\ SentContent' = [i \in 1..k |-> [kind |-> out'[i].kind, text |-> out'[i].text]]
  BY <1>1, <1>7 DEF ContentFirst
<1>9. d = Len(out)
  <2>1. Kinds(Delta) = 1..Len(out)
    BY <1>2 DEF Kinds
  <2>2. \A i \in Int : i \in 1..d <=> i \in 1..Len(out)
    BY <1>6, <2>1
  <2>3. (d \in 1..d \/ d = 0) /\ (Len(out) \in 1..Len(out) \/ Len(out) = 0)
    BY <1>2
  <2> QED
    BY <2>2, <2>3, <1>2
<1>10. k = d + 1
  <2>1. Kinds(Delta)' = 1..(d + 1)
    BY <1>2, <1>4, <1>5, <1>9 DEF Kinds
  <2>2. \A i \in Int : i \in 1..k <=> i \in 1..(d + 1)
    BY <1>8, <2>1
  <2>3. (k \in 1..k \/ k = 0) /\ d + 1 \in 1..(d + 1)
    OBVIOUS
  <2> QED
    BY <2>2, <2>3
<1>11. Len(SentContent) = d /\ DOMAIN SentContent = 1..d /\ Len(SentContent') = d + 1
  BY <1>6, <1>8, <1>10
<1>12. SentContent'[d + 1] = FragmentOf(e)
  <2>1. out'[d + 1] = c
    BY <1>5, <1>9
  <2>2. SentContent'[d + 1] = [kind |-> out'[d + 1].kind, text |-> out'[d + 1].text]
    <3>1. PICK x \in 1..k : x = d + 1
      BY <1>10
    <3>2. SentContent'[x] = [kind |-> out'[x].kind, text |-> out'[x].text]
      BY <1>8
    <3> QED
      BY <3>1, <3>2
  <2> QED
    BY <2>1, <2>2, <1>4 DEF FragmentOf
<1>13. \A i \in 1..d : SentContent'[i] = SentContent[i]
  <2> TAKE i \in 1..d
  <2>1. out'[i] = out[i] /\ i \in 1..k
    BY <1>5, <1>9, <1>10
  <2>2. /\ SentContent[i] = [kind |-> out[i].kind, text |-> out[i].text]
        /\ SentContent'[i] = [kind |-> out'[i].kind, text |-> out'[i].text]
    BY <2>1, <1>6, <1>8
  <2> QED
    BY <2>1, <2>2
<1> QED
  BY <1>11, <1>12, <1>13

LEMMA ContentFollowsStep ==
    ASSUME IInv, IInv', UsageFollows, Recorded, Shape, Shape', ContentFollows, Next
    PROVE  ContentFollows'
<1>1. TypeOK /\ TypeOK' /\ norm \in Normalizer
  BY DEF IInv, TypeOK
\* Nothing follows a finish: the event is the first after which there may be one.
<1>2. ASSUME NEW e \in Event, Receive(e), ~(Seen({"finish"})' \subseteq {Len(seen')})
      PROVE  ContentFollows'
  BY <1>2 DEF ContentFollows
<1>3. ASSUME NEW e \in Event, Receive(e), Seen({"finish"})' \subseteq {Len(seen')}
      PROVE  /\ ~done
             /\ mode = "plain" => Shows(text)
             /\ mode = "stream" => Shows(SentContent)
  <2>1. Seen({"finish"}) = {}
    <3>1. /\ Len(seen) \in Nat /\ Len(seen') = Len(seen) + 1
          /\ Seen({"finish"}) \subseteq 1..Len(seen)
          /\ Seen({"finish"})' = Seen({"finish"}) \cup
                                    (IF e.type \in {"finish"} THEN {Len(seen) + 1} ELSE {})
      <4>1. seen' = Append(seen, e)
        BY <1>3 DEF Receive
      <4> QED
        BY <4>1, <1>1, Growth
    <3>2. \A j \in Seen({"finish"}) : j \in {Len(seen')} /\ j \in 1..Len(seen)
      BY <3>1, <1>3
    <3> QED
      BY <3>1, <3>2
  <2>2. ~norm.finished /\ phase = "reading"
    BY <2>1, <1>3 DEF UsageFollows, InOpenTurn, Receive
  <2>3. ~done
    BY <2>2 DEF IInv, OverMeansFinished
  <2> QED
    BY <2>1, <2>3 DEF ContentFollows
\* An event that carries no fragment.
<1>4. ASSUME NEW e \in Event, Receive(e), ~(e.type \in Delta /\ e.text # ""), text' = text,
             mode = "stream" => SentContent' = SentContent
      PROVE  ContentFollows'
  <2> SUFFICES ASSUME Seen({"finish"})' \subseteq {Len(seen')} PROVE ContentFollows'
    BY <1>2, <1>4
  <2>1. seen' = Append(seen, e) /\ mode' = mode
    BY <1>4 DEF Receive
  <2> PICK s, t : s = text /\ t = SentContent
    OBVIOUS
  <2>2. (mode = "plain" => Shows(s)) /\ (mode = "stream" => Shows(t))
    BY <1>3, <1>4
  <2>3. (mode = "plain" => Shows(s)') /\ (mode = "stream" => Shows(t)')
    BY <2>1, <2>2, <1>1, <1>4, ShowsStay
  <2>4. mode = "plain" => Shows(text)'
    BY <2>3, <1>4 DEF Shows
  <2>5. mode = "stream" => Shows(SentContent)'
    BY <2>3, <1>4 DEF Shows
  <2> QED
    BY <2>1, <2>4, <2>5 DEF ContentFollows
<1>5. ASSUME UNCHANGED out PROVE SentContent' = SentContent
  BY <1>5 DEF SentContent, Sent, Kinds
<1>6. ASSUME NEW e \in Event, Refuse(e) PROVE ContentFollows'
  <2>1. Receive(e) /\ UNCHANGED <<out, text>>
    BY <1>6 DEF Refuse, handlerVars
  <2>2. SentContent' = SentContent
    BY <2>1, <1>5
  <2>3. CASE ~(e.type \in Delta /\ e.text # "")
    BY <2>1, <2>2, <2>3, <1>4
  <2>4. CASE e.type \in Delta
    BY <2>4, <1>6 DEF Refuse, Refused, Delta
  <2> QED
    BY <2>3, <2>4
<1>7. ASSUME NEW e \in Event, Silent(e) PROVE ContentFollows'
  <2>1. Receive(e) /\ UNCHANGED <<out, text>> /\ e.type \notin Delta
    BY <1>7 DEF Silent, handlerVars
  <2>2. SentContent' = SentContent
    BY <2>1, <1>5
  <2> QED
    BY <2>1, <2>2, <1>4
<1>8. ASSUME NEW e \in Event, Finish(e) PROVE ContentFollows'
  <2>1. Receive(e) /\ text' = text /\ e.type \notin Delta
    BY <1>8 DEF Finish, Delta
  <2>2. mode = "stream" => SentContent' = SentContent
    BY <1>8, FinishContent
  <2> QED
    BY <2>1, <2>2, <1>4
<1>9. ASSUME NEW e \in Event, Content(e) PROVE ContentFollows'
  <2>1. Receive(e) /\ e.type \in Delta /\ seen' = Append(seen, e) /\ mode' = mode
    BY <1>9 DEF Content, Receive
  <2>2. CASE Seen({"finish"})' \subseteq {Len(seen')} /\ e.text # ""
    <3>1. /\ ~done
          /\ mode = "plain" => Shows(text)
          /\ mode = "stream" => Shows(SentContent)
      BY <2>1, <2>2, <1>3
    <3>2. CASE /\ mode = "stream"
               /\ out' = Append(out, [kind |-> e.type, text |-> e.text, role |-> firstText])
      <4>1. PICK l \in Nat : /\ l = Len(SentContent)
                             /\ Len(SentContent') = l + 1
                             /\ SentContent'[l + 1] = FragmentOf(e)
                             /\ \A i \in 1..l : SentContent'[i] = SentContent[i]
        BY <2>1, <3>1, <3>2, StreamGrows
      <4> PICK s, t : s = SentContent /\ t = SentContent'
        OBVIOUS
      <4>2. /\ l = Len(s) /\ Shows(s) /\ Len(t) = l + 1 /\ t[l + 1] = FragmentOf(e)
            /\ \A i \in 1..l : t[i] = s[i]
        BY <4>1, <3>1, <3>2
      <4>3. Shows(t)'
        BY <4>2, <2>1, <2>2, <1>1, ShowsGrow
      <4>4. Shows(SentContent)'
        BY <4>3 DEF Shows
      <4> QED
        BY <4>4, <3>2, <2>1 DEF ContentFollows
    <3>3. CASE mode = "plain" /\ text' = Append(text, [kind |-> e.type, text |-> e.text])
      <4> PICK s, t, l : s = text /\ t = text' /\ l = Len(s)
        OBVIOUS
      <4>1. text \in Seq([kind : Delta, text : Texts]) /\ FragmentOf(e) \in [kind : Delta, text : Texts]
        BY <2>1, <1>1, EventFields DEF TypeOK, FragmentOf
      <4>2. text' = Append(text, FragmentOf(e))
        BY <3>3 DEF FragmentOf
      <4>3. /\ l \in Nat /\ l = Len(s) /\ Shows(s)
            /\ Len(t) = l + 1 /\ t[l + 1] = FragmentOf(e)
            /\ \A i \in 1..l : t[i] = s[i]
        <5>1. l \in Nat
          BY <4>1, LenProperties
        <5>2. /\ Len(t) = l + 1 /\ t[l + 1] = FragmentOf(e)
              /\ \A i \in 1..l : t[i] = s[i]
          BY <4>1, <4>2, AppendCases
        <5>3. Shows(s)
          BY <3>1, <3>3
        <5> QED
          BY <5>1, <5>2, <5>3
      <4>4. Shows(t)'
        BY <4>3, <2>1, <2>2, <1>1, ShowsGrow
      <4>5. Shows(text)'
        BY <4>4 DEF Shows
      <4> QED
        BY <4>5, <3>3, <2>1 DEF ContentFollows
    <3> QED
      BY <3>1, <3>2, <3>3, <2>2, <1>9 DEF Content
  <2>3. CASE e.text = ""
    <3>1. out' = out /\ text' = text
      BY <2>3, <1>9 DEF Content
    <3>2. SentContent' = SentContent
      BY <3>1, <1>5
    <3> QED
      BY <3>1, <3>2, <2>1, <2>3, <1>4
  <2> QED
    BY <2>1, <2>2, <2>3, <1>2
<1>10. ASSUME UNCHANGED <<seen, mode, text>>, mode = "stream" => SentContent' = SentContent
       PROVE  ContentFollows'
  <2>1. Fragments' = Fragments /\ Seen({"finish"})' = Seen({"finish"}) /\ seen' = seen
    BY <1>10 DEF Fragments, Seen
  <2>2. Shows(text)' <=> Shows(text)
    BY <2>1, <1>10 DEF Shows
  <2>3. mode = "stream" => (Shows(SentContent)' <=> Shows(SentContent))
    BY <2>1, <1>10 DEF Shows
  <2> QED
    BY <2>1, <2>2, <2>3, <1>10 DEF ContentFollows
<1>11. ASSUME NEW how \in {"eof", "DONE", "failed"}, Stop(how) PROVE ContentFollows'
  <2>1. UNCHANGED <<seen, mode, text, out>>
    BY <1>11 DEF Stop, handlerVars
  <2> QED
    BY <2>1, <1>5, <1>10
<1>12. CASE CloseStream
  <2>1. UNCHANGED <<seen, mode, text>>
    BY <1>12 DEF CloseStream
  <2> QED
    BY <2>1, <1>10, <1>12, CloseContent
<1>13. CASE Answer
  <2>1. UNCHANGED <<seen, mode, text>> /\ mode = "plain"
    BY <1>13 DEF Answer
  <2> QED
    BY <2>1, <1>10
<1> QED
  BY <1>6, <1>7, <1>8, <1>9, <1>11, <1>12, <1>13 DEF Next

-----------------------------------------------------------------------------
(***************************************************************************)
(* The invariant holds.                                                    *)
(***************************************************************************)
LEMMA InitAnswer == Init => AnswerInv
<1> SUFFICES ASSUME Init PROVE AnswerInv
  OBVIOUS
<1>1. IInv
  BY InitInvariant
<1>2. Len(seen) = 0 /\ Len(out) = 0 /\ seen = <<>> /\ out = <<>>
  BY DEF Init
<1>3. (\A T : Seen(T) = {}) /\ (\A K : Kinds(K) = {})
  BY <1>2 DEF Seen, Kinds
<1>4. UsageFollows
  BY <1>3 DEF Init, UsageFollows, LastReport, Reports, InOpenTurn
<1>5. Recorded
  BY DEF Init, Recorded
<1>6. FirstCalls = {} /\ Fragments = {}
  BY <1>3 DEF FirstCalls, Fragments
<1>7. Cardinality({}) = 0
  BY FS_EmptySet
<1>8. CallsFollow
  BY <1>3, <1>6, <1>7 DEF Init, CallsFollow, Lists
<1>9. Shape
  <2>1. OpenOrFailed(0)
    BY <1>3 DEF Init, OpenOrFailed
  <2> QED
    BY <2>1, <1>2 DEF Init, Shape
<1>10. ContentFollows
  <2>1. Sent(Delta) = <<>> /\ Len(Sent(Delta)) = 0
    BY <1>3, SentNothing
  <2>2. Len(SentContent) = 0
    BY <2>1, <1>3 DEF SentContent
  <2> QED
    BY <2>2, <1>6, <1>7 DEF Init, ContentFollows, Shows
<1> QED
  BY <1>1, <1>4, <1>5, <1>8, <1>9, <1>10 DEF AnswerInv

LEMMA StepAnswer == AnswerInv /\ [Next]_vars => AnswerInv'
<1> SUFFICES ASSUME AnswerInv, [Next]_vars PROVE AnswerInv'
  OBVIOUS
<1>1. IInv'
  BY StepInvariant DEF AnswerInv
<1>2. CASE Next
  <2>1. IInv /\ TypeOK /\ UsageFollows /\ Recorded /\ CallsFollow /\ Shape /\ ContentFollows
    BY DEF AnswerInv, IInv
  <2>2. UsageFollows' /\ CallsFollow'
    BY <2>1, <1>2, UsageStep, CallsStep
  <2>3. Recorded' /\ Shape'
    BY <2>1, <1>2, RecordedStep, ShapeStep
  <2>4. ContentFollows'
    BY <2>1, <2>3, <1>1, <1>2, ContentFollowsStep
  <2> QED
    BY <1>1, <2>2, <2>3, <2>4 DEF AnswerInv
<1>3. CASE UNCHANGED vars
  <2> USE <1>3 DEF vars
  <2>1. (\A T : Seen(T)' = Seen(T)) /\ (\A K : Kinds(K)' = Kinds(K)) /\ InTurn' = InTurn
    BY DEF Seen, Kinds, InTurn
  <2>2. Reports' = Reports /\ FirstCalls' = FirstCalls /\ Fragments' = Fragments
    BY <2>1 DEF Reports, Reporting, FirstCalls, Fragments
  <2>3. UsageFollows'
    BY <2>1, <2>2 DEF AnswerInv, UsageFollows, LastReport, InOpenTurn
  <2>4. Recorded'
    BY <2>1 DEF AnswerInv, Recorded, Succeeded
  <2>5. Lists(calls)' = Lists(calls) /\ Lists(norm.kept)' = Lists(norm.kept)
    BY <2>2 DEF Lists
  <2>6. CallsFollow'
    BY <2>1, <2>5 DEF AnswerInv, CallsFollow
  <2>7. \A f : EndsTurn(f)' = EndsTurn(f)
    BY <2>1 DEF EndsTurn
  <2>8. \A d : OpenOrFailed(d)' = OpenOrFailed(d) /\ Committed(d)' = Committed(d)
    BY <2>1, <2>7 DEF OpenOrFailed, Committed, Hollow
  <2>9. Shape'
    BY <2>1, <2>7, <2>8 DEF AnswerInv, Shape, Refusal, Hollow
  <2>10. SentContent' = SentContent
    BY DEF SentContent, Sent, Kinds
  <2>11. Shows(text)' = Shows(text) /\ Shows(SentContent)' = Shows(SentContent)
    BY <2>2, <2>10 DEF Shows
  <2>12. ContentFollows'
    BY <2>1, <2>11 DEF AnswerInv, ContentFollows
  <2> QED
    BY <1>1, <2>3, <2>4, <2>6, <2>9, <2>12 DEF AnswerInv
<1> QED
  BY <1>2, <1>3

\* The invariant holds in every reachable state of both handlers.
THEOREM AnswerInvariant == Spec => []AnswerInv
  BY InitAnswer, StepAnswer, PTL DEF Spec

-----------------------------------------------------------------------------
(***************************************************************************)
(* The answer, withheld or given.                                          *)
(***************************************************************************)
Withheld ==
    /\ ~Succeeded
    /\ SentCalls = <<>>
    /\ Kinds({"error"}) # {} <=> closed
    /\ mode = "plain" => SentContent = <<>>
    /\ closed /\ phase # "failed" =>
          \A f \in Seen({"finish"}) : norm.finished /\ EndsTurn(f) => Hollow(seen[f].reason)

Given ==
    /\ Succeeded
    /\ SentCalls = calls
    /\ Kinds({"error"}) = {}
    /\ norm.finished
    /\ mode = "plain" => closed /\ SentContent = text
    /\ mode = "stream" => done
    /\ \E f \in Seen({"finish"}) :
          /\ EndsTurn(f)
          /\ ~Hollow(seen[f].reason)
          /\ SentReason = resolveFinishReason(seen[f].reason, calls # <<>>)

LEMMA OpenIsWithheld ==
    ASSUME mode = "stream", NEW d, OpenOrFailed(d)
    PROVE  Withheld
<1>1. Kinds({"answer"}) = {}
  BY DEF OpenOrFailed, Kinds
<1>2. SentCalls = <<>>
  <2>1. Kinds({"call"}) = {}
    BY DEF OpenOrFailed
  <2>2. Len(Sent({"call"})) = 0
    BY <2>1, SentNothing
  <2> QED
    BY <1>1, <2>2 DEF SentCalls
<1> QED
  BY <1>2 DEF Withheld, OpenOrFailed, Succeeded

LEMMA CommittedIsGiven ==
    ASSUME TypeOK, mode = "stream", NEW d \in Nat, Committed(d)
    PROVE  Given
<1> PICK n, c : n = Len(calls) /\ c = calls
  OBVIOUS
<1>1. n \in Nat /\ c \in Seq(Call) /\ n = Len(c)
  BY LenProperties DEF TypeOK
<1>2. Kinds({"answer"}) = {} /\ Kinds({"error"}) = {}
  BY DEF Committed, Kinds
<1>3. SentCalls = calls
  <2>1. Kinds({"call"}) = (d + 1)..(d + n)
    BY DEF Committed
  <2>2. Sent({"call"}) = [i \in 1..n |-> out[d + i]]
    BY <2>1, <1>1, SentInterval
  <2>3. \A i \in 1..n : out[d + i].call = c[i]
    BY DEF Committed
  <2>4. Len(Sent({"call"})) = n
    BY <2>2, <1>1
  <2>5. SentCalls = [i \in 1..n |-> Sent({"call"})[i].call]
    BY <2>4, <1>2 DEF SentCalls
  <2>6. \A i \in 1..n : SentCalls[i] = c[i]
    <3> TAKE i \in 1..n
    <3>1. Sent({"call"})[i] = out[d + i]
      BY <2>2
    <3> QED
      BY <3>1, <2>3, <2>5
  <2>7. SentCalls = [i \in 1..n |-> c[i]]
    BY <2>5, <2>6
  <2>8. c = [i \in 1..n |-> c[i]]
    BY <1>1
  <2> QED
    BY <2>7, <2>8
<1>4. Succeeded /\ SentReason = out[d + n + 1].reason
  <2> PICK a : a = d + n
    OBVIOUS
  <2>1. Kinds({"finish", "answer"}) = {a + 1} /\ a \in Nat
    BY <1>1 DEF Committed
  <2>2. Sent({"finish", "answer"})[1] = out[a + 1]
    BY <2>1, SentOne
  <2> QED
    BY <2>1, <2>2 DEF Succeeded, SentReason
<1>5. \E f \in Seen({"finish"}) :
         /\ EndsTurn(f)
         /\ ~Hollow(seen[f].reason)
         /\ SentReason = resolveFinishReason(seen[f].reason, calls # <<>>)
  BY <1>4 DEF Committed
<1> QED
  BY <1>2, <1>3, <1>4, <1>5 DEF Given, Committed

\* The plain handler before it answers, and when it fails.
LEMMA PlainWithheld ==
    ASSUME mode = "plain",
           \/ out = <<>> /\ ~closed
           \/ out = <<[kind |-> "error"]>> /\ closed,
           closed => phase = "failed" \/ Refusal
    PROVE  Withheld
<1>1. /\ Kinds({"answer"}) = {} /\ Kinds({"call"}) = {} /\ Kinds({"finish", "answer"}) = {}
      /\ Kinds(Delta) = {} /\ (Kinds({"error"}) # {} <=> closed)
  <2>1. CASE out = <<>> /\ ~closed
    BY <2>1 DEF Kinds
  <2>2. CASE out = <<[kind |-> "error"]>> /\ closed
    <3>1. Len(out) = 1 /\ out[1].kind = "error"
      BY <2>2
    <3> QED
      BY <2>2, <3>1 DEF Kinds, Delta
  <2> QED
    BY <2>1, <2>2
<1>2. SentCalls = <<>> /\ SentContent = <<>>
  <2>1. Len(Sent({"call"})) = 0 /\ Len(Sent(Delta)) = 0
    BY <1>1, SentNothing
  <2> QED
    BY <2>1, <1>1 DEF SentCalls, SentContent
<1>3. closed /\ phase # "failed" =>
         \A f \in Seen({"finish"}) : norm.finished /\ EndsTurn(f) => Hollow(seen[f].reason)
  BY DEF Refusal, EndsTurn
<1> QED
  BY <1>1, <1>2, <1>3 DEF Withheld, Succeeded

LEMMA PlainGiven ==
    ASSUME Shape, mode = "plain", closed, norm.finished, ~Hollow(final),
           out = <<[kind |-> "answer", text |-> text, calls |-> calls,
                    reason |-> resolveFinishReason(final, calls # <<>>)]>>
    PROVE  Given
<1> PICK x : x = [kind |-> "answer", text |-> text, calls |-> calls,
                  reason |-> resolveFinishReason(final, calls # <<>>)]
  OBVIOUS
<1>1. /\ x.kind = "answer" /\ x.text = text /\ x.calls = calls
      /\ x.reason = resolveFinishReason(final, calls # <<>>)
  OBVIOUS
<1>2. out = <<x>>
  OBVIOUS
<1>3. Len(out) = 1 /\ out[1] = x
  BY <1>2
<1>4. Kinds({"answer"}) = {1} /\ Kinds({"finish", "answer"}) = {1} /\ Kinds({"error"}) = {}
  BY <1>1, <1>3 DEF Kinds
<1>5. SentReason = x.reason
  <2>1. 0 \in Nat /\ Kinds({"finish", "answer"}) = {0 + 1}
    BY <1>4
  <2>2. Sent({"finish", "answer"})[1] = out[0 + 1]
    BY <2>1, SentOne
  <2> QED
    BY <2>2, <1>3 DEF SentReason
<1>6. PICK f \in Seen({"finish"}) : EndsTurn(f)
  BY DEF Shape
<1>7. seen[f].reason = final
  BY <1>6 DEF EndsTurn
<1> QED
  BY <1>1, <1>3, <1>4, <1>5, <1>6, <1>7 DEF Given, Succeeded, SentCalls, SentContent

LEMMA Outcomes == IInv /\ Shape => Withheld \/ Given
<1> SUFFICES ASSUME IInv, Shape PROVE Withheld \/ Given
  OBVIOUS
<1>1. TypeOK /\ mode \in {"stream", "plain"} /\ Len(out) \in Nat
  BY LenProperties DEF IInv, TypeOK
<1>2. CASE mode = "stream"
  <2>1. PICK d \in 0..Len(out) : OpenOrFailed(d) \/ Committed(d)
    BY <1>2 DEF Shape
  <2>2. d \in Nat
    BY <1>1
  <2> QED
    BY <2>1, <2>2, <1>1, <1>2, OpenIsWithheld, CommittedIsGiven
<1>3. CASE mode = "plain" /\ ~closed
  <2>1. out = <<>> /\ ~closed
    BY <1>3 DEF IInv, QuietUntilAnswer
  <2>2. closed => phase = "failed" \/ Refusal
    BY <2>1
  <2> QED
    BY <2>1, <2>2, <1>3, PlainWithheld
<1>4. CASE mode = "plain" /\ closed
  BY <1>4, PlainWithheld, PlainGiven DEF Shape
<1> QED
  BY <1>1, <1>2, <1>3, <1>4

-----------------------------------------------------------------------------
(***************************************************************************)
(* The theorems.                                                           *)
(***************************************************************************)

\* What is charged is the usage reported last before the finish was over,
\* whatever came after it: in any case for a stream, and for an answer of the
\* plain handler.
THEOREM ChargedRight == Spec => []ChargedOnce
<1>1. AnswerInv => ChargedOnce
  <2> SUFFICES ASSUME AnswerInv, closed
               PROVE  IF mode = "plain" /\ ~Succeeded THEN recorded = -1
                      ELSE LastReport(recorded)
    <3>1. Reports = {j \in Seen({"finish-step", "finish"}) \cap InTurn :
                        /\ seen[j].usage # NoUsage
                        /\ seen[j].type = "finish" => seen[j].reason # Unknown}
      BY DEF Reports, Reporting, Seen
    <3> QED
      BY <3>1 DEF ChargedOnce, LastReport
  <2> QED
    BY DEF AnswerInv, UsageFollows, Recorded
<1> QED
  BY <1>1, AnswerInvariant, PTL

\* The calls a client is told to execute are the complete calls of the turn,
\* once each, in order, with the arguments that came first; a turn that failed
\* shows none.
THEOREM CallsExecutable == Spec => []ExecutableCalls
<1>1. AnswerInv => ExecutableCalls
  <2> SUFFICES ASSUME AnswerInv PROVE ExecutableCalls
    OBVIOUS
  <2>1. CASE Withheld
    BY <2>1 DEF Withheld, ExecutableCalls
  <2>2. CASE Given
    BY <2>2 DEF Given, ExecutableCalls, AnswerInv, CallsFollow, Lists, CallOf
  <2> QED
    BY <2>1, <2>2, Outcomes DEF AnswerInv
<1> QED
  BY <1>1, AnswerInvariant, PTL

\* When nothing follows the finish, both handlers give the same answer: one
\* exactly if a finish did not claim calls that never came, with all the
\* fragments, and with a reason that is changed only from stop to tool_calls,
\* when there are calls.
THEOREM HandlersAnswerAlike == Spec => []HandlersAgree
<1>1. AnswerInv => HandlersAgree
  <2> SUFFICES ASSUME AnswerInv, closed, phase # "failed", Seen({"finish"}) \subseteq {Len(seen)}
               PROVE  /\ Succeeded <=> \E j \in Seen({"finish"}) :
                                          seen[j].reason = "tool_calls" => FirstCalls # {}
                      /\ Succeeded =>
                            /\ Shows(SentContent)
                            /\ SentReason = "tool_calls" => FirstCalls # {}
                            /\ SentReason # seen[Len(seen)].reason =>
                                  SentReason = "tool_calls" /\ seen[Len(seen)].reason = "stop"
    BY DEF HandlersAgree, Shows, FragmentOf
  <2> USE DEF AnswerInv
  <2>1. norm.finished => (calls = <<>> <=> FirstCalls = {})
    <3> SUFFICES ASSUME norm.finished PROVE calls = <<>> <=> FirstCalls = {}
      OBVIOUS
    <3>1. Len(calls) = Cardinality(FirstCalls) /\ calls \in Seq(Call)
      BY DEF CallsFollow, Lists, IInv, TypeOK
    <3>2. FirstCalls \subseteq 1..Len(seen) /\ Len(seen) \in Nat
      BY LenProperties DEF FirstCalls, Seen, IInv, TypeOK
    <3>3. IsFiniteSet(FirstCalls)
      <4>1. IsFiniteSet(1..Len(seen))
        BY <3>2, FS_Interval
      <4> QED
        BY <4>1, <3>2, FS_Subset
    <3>4. Cardinality(FirstCalls) = 0 <=> FirstCalls = {}
      BY <3>3, FS_EmptySet
    <3>5. Len(calls) = 0 <=> calls = <<>>
      BY <3>1
    <3> QED
      BY <3>1, <3>4, <3>5
  <2>2. CASE Withheld
    <3>1. ASSUME NEW j \in Seen({"finish"})
          PROVE  seen[j].reason = "tool_calls" /\ FirstCalls = {}
      <4>1. norm.finished
        BY <3>1 DEF UsageFollows, InOpenTurn
      <4>2. PICK f \in Seen({"finish"}) : EndsTurn(f)
        BY <4>1 DEF Shape
      <4>3. f = j
        BY <3>1, <4>2
      <4>4. Hollow(seen[f].reason)
        BY <4>1, <4>2, <2>2 DEF Withheld
      <4> QED
        BY <4>1, <4>3, <4>4, <2>1 DEF Hollow
    <3>2. ~Succeeded
      BY <2>2 DEF Withheld
    <3> QED
      BY <3>1, <3>2
  <2>3. CASE Given
    <3> PICK r : r = SentReason
      OBVIOUS
    <3>1. PICK f \in Seen({"finish"}) :
             /\ EndsTurn(f) /\ ~Hollow(seen[f].reason)
             /\ r = resolveFinishReason(seen[f].reason, calls # <<>>)
      BY <2>3 DEF Given
    <3>2. Succeeded /\ norm.finished /\ f = Len(seen)
      BY <2>3, <3>1 DEF Given
    <3>3. seen[f].reason = "tool_calls" => FirstCalls # {}
      BY <2>1, <3>1, <3>2 DEF Hollow
    <3>4. r = "tool_calls" => FirstCalls # {}
      BY <2>1, <3>1, <3>2, <3>3 DEF resolveFinishReason
    <3>5. r # seen[f].reason => r = "tool_calls" /\ seen[f].reason = "stop"
      <4>1. seen[f].reason \in {"stop", "tool_calls", "length", "content_filter"}
        BY <3>1, StreamAssumption DEF EndsTurn
      <4> QED
        BY <3>1, <4>1 DEF resolveFinishReason
    <3>6. Shows(SentContent)
      <4>1. CASE mode = "stream"
        BY <4>1 DEF ContentFollows
      <4>2. CASE mode = "plain"
        <5>1. SentContent = text /\ Shows(text)
          BY <4>2, <2>3 DEF ContentFollows, Given
        <5> QED
          BY <5>1
      <4> QED
        BY <4>1, <4>2 DEF IInv, TypeOK
    <3> QED
      BY <3>1, <3>2, <3>3, <3>4, <3>5, <3>6
  <2> QED
    BY <2>2, <2>3, Outcomes
<1> QED
  BY <1>1, AnswerInvariant, PTL

-----------------------------------------------------------------------------
(***************************************************************************)
(* Both handlers implement ChatTurn.                                       *)
(***************************************************************************)
LEMMA SameOut ==
    ASSUME UNCHANGED out
    PROVE  UNCHANGED Turn!turnVars
<1>1. \A K : Kinds(K)' = Kinds(K)
  BY DEF Kinds
<1>2. \A K : Sent(K)' = Sent(K)
  BY <1>1 DEF Sent
<1>3. Succeeded' = Succeeded /\ SentContent' = SentContent /\ SentCalls' = SentCalls
      /\ SentReason' = SentReason
  BY <1>1, <1>2 DEF Succeeded, SentContent, SentCalls, SentReason
<1> QED
  BY <1>1, <1>3 DEF Turn!turnVars

\* An answer that is given closes an open turn.
LEMMA CommitsTurn ==
    ASSUME AnswerInv', Withheld, ~closed, Given', Turn!Extends
    PROVE  Turn!Commit
<1>1. ~Succeeded /\ Kinds({"error"}) = {}
  BY DEF Withheld
<1>2. Succeeded' /\ SentCalls' = calls' /\ norm'.finished
  BY DEF Given
<1>3. PICK f : /\ EndsTurn(f)' /\ ~Hollow(seen[f].reason)'
               /\ SentReason' = resolveFinishReason(seen'[f].reason, calls' # <<>>)
  BY DEF Given
<1>4. seen'[f].reason \in {"stop", "tool_calls", "length", "content_filter"}
  BY <1>3, StreamAssumption DEF EndsTurn
<1>5. /\ SentReason' \in Turn!FinishReasons
      /\ SentReason' = "tool_calls" => calls' # <<>>
      /\ SentReason' = "stop" => calls' = <<>>
  BY <1>3, <1>4 DEF resolveFinishReason, Hollow, Turn!FinishReasons
<1>6. Turn!DistinctIDs(calls')
  <2>1. calls' \in Seq(Call)
    BY DEF AnswerInv, IInv, TypeOK
  <2>2. \A i, j \in 1..Len(calls') : calls'[i].id = calls'[j].id => i = j
    BY <1>2 DEF AnswerInv, CallsFollow, Lists
  <2>3. DOMAIN calls' = 1..Len(calls')
    BY <2>1
  <2> QED
    BY <2>2, <2>3 DEF Turn!DistinctIDs
<1> QED
  BY <1>1, <1>2, <1>5, <1>6 DEF Turn!Commit

\* A turn that is closed without an answer has failed.
LEMMA FailsTurn ==
    ASSUME Withheld, ~closed, Withheld', closed', SentContent' = SentContent
    PROVE  Turn!Fail
  BY DEF Withheld, Turn!Fail

LEMMA OpenTurn ==
    ASSUME AnswerInv, mode = "plain" => ~closed, mode = "stream" => ~done
    PROVE  Withheld
  BY Outcomes DEF AnswerInv, IInv, TypeOK, Given

LEMMA ContentTurn ==
    ASSUME AnswerInv, AnswerInv', NEW e \in Event, Content(e)
    PROVE  [Turn!Next]_(Turn!turnVars)
<1>1. CASE UNCHANGED out
  BY <1>1, SameOut
<1>2. CASE /\ mode = "stream" /\ ~done
           /\ out' = Append(out, [kind |-> e.type, text |-> e.text, role |-> firstText])
  <2>1. Receive(e) /\ e.type \in Delta /\ mode' = "stream" /\ ~done' /\ ~closed /\ ~closed'
    BY <1>2 DEF Content, Receive, AnswerInv, Recorded
  <2>2. PICK l \in Nat : /\ l = Len(SentContent) /\ DOMAIN SentContent = 1..l
                         /\ Len(SentContent') = l + 1
                         /\ \A i \in 1..l : SentContent'[i] = SentContent[i]
    BY <1>2, <2>1, StreamGrows DEF AnswerInv
  <2>3. Turn!Extends
    BY <2>2 DEF Turn!Extends
  <2>4. Withheld
    BY <1>2, OpenTurn
  <2>5. (IInv /\ Shape => Withheld \/ Given)'
    BY Outcomes, PTL
  <2>6. Withheld'
    BY <2>1, <2>5 DEF AnswerInv, Given
  <2> QED
    BY <2>1, <2>3, <2>4, <2>6 DEF Withheld, Turn!Deliver, Turn!Next
<1> QED
  BY <1>1, <1>2 DEF Content

LEMMA FinishTurn ==
    ASSUME AnswerInv, AnswerInv', NEW e \in Event, Finish(e)
    PROVE  [Turn!Next]_(Turn!turnVars)
<1>1. CASE UNCHANGED out
  BY <1>1, SameOut
<1>2. CASE mode = "stream" /\ done'
  <2>1. phase = "reading" /\ ~closed /\ ~norm.finished /\ ~done /\ mode' = "stream" /\ norm'.finished
    <3>1. norm'.finished
      BY DEF Finish, Consumed, WithUsage, AnswerInv, IInv, TypeOK, Normalizer
    <3> QED
      BY <1>2, <3>1 DEF Finish, Receive, AnswerInv, IInv, OverMeansFinished, Recorded
  <2>2. SentContent' = SentContent
    BY <1>2, FinishContent DEF AnswerInv
  <2>3. TypeOK /\ Shape
    BY DEF AnswerInv, IInv
  <2>4. ContentFirst
    BY <1>2, <2>3, StreamContent
  <2>5. Turn!Extends
    <3>1. PICK d \in Nat :
             SentContent = [i \in 1..d |-> [kind |-> out[i].kind, text |-> out[i].text]]
      BY <2>4 DEF ContentFirst
    <3>2. Len(SentContent) = d
      BY <3>1
    <3> QED
      BY <2>2, <3>2 DEF Turn!Extends
  <2>6. Withheld
    BY <1>2, <2>1, OpenTurn
  <2>7. (IInv /\ Shape => Withheld \/ Given)'
    BY Outcomes, PTL
  <2>8. Given'
    <3>1. phase' # "failed"
      BY <1>2, <2>1 DEF Finish
    <3>2. PICK d \in 0..Len(out') : OpenOrFailed(d)' \/ Committed(d)'
      BY <2>1 DEF AnswerInv, Shape
    <3>3. Committed(d)'
      BY <2>1, <3>1, <3>2 DEF OpenOrFailed
    <3>4. Succeeded'
      BY <3>3 DEF Committed, Succeeded
    <3> QED
      BY <2>7, <3>4 DEF AnswerInv, Withheld
  <2> QED
    BY <2>1, <2>5, <2>6, <2>8, CommitsTurn DEF Turn!Next
<1> QED
  BY <1>1, <1>2 DEF Finish

LEMMA CloseTurn ==
    ASSUME AnswerInv, AnswerInv', CloseStream
    PROVE  [Turn!Next]_(Turn!turnVars)
<1>1. CASE done
  BY <1>1, SameOut DEF CloseStream
<1>2. CASE ~done
  <2>1. /\ mode = "stream" /\ mode' = "stream" /\ ~closed /\ closed'
        /\ out' = out \o <<[kind |-> "error"], [kind |-> "DONE"]>>
    BY <1>2 DEF CloseStream
  <2>2. Withheld
    BY <1>2, <2>1, OpenTurn
  <2>3. SentContent' = SentContent
    BY CloseContent DEF AnswerInv
  <2>4. (IInv /\ Shape => Withheld \/ Given)'
    BY Outcomes, PTL
  <2>5. Kinds({"error"})' # {}
    <3> DEFINE t == <<[kind |-> "error"], [kind |-> "DONE"]>>
    <3>1. out \in Seq(Chunk) /\ t \in Seq(Chunk) /\ Len(t) = 2 /\ t[1].kind = "error"
      BY EndChunks DEF AnswerInv, IInv, TypeOK
    <3>2. out' = out \o t
      BY <2>1
    <3> HIDE DEF t
    <3> PICK s, u : s = out /\ u = s \o t
      OBVIOUS
    <3>3. 1 \in 1..Len(t)
      BY <3>1
    <3>4. 1 + Len(s) \in 1..Len(u) /\ u[1 + Len(s)] = t[1]
      <4>1. s \in Seq(Chunk) /\ t \in Seq(Chunk)
        BY <3>1
      <4>2. \A i \in 1..Len(t) :
               i + Len(s) \in 1..Len(s \o t) /\ (s \o t)[i + Len(s)] = t[i]
        BY <4>1, ConcatCases
      <4> QED
        BY <3>3, <4>2
    <3>5. 1 + Len(s) \in Kinds({"error"})'
      BY <3>1, <3>2, <3>4 DEF Kinds
    <3> QED
      BY <3>5
  <2>6. Withheld'
    BY <2>4, <2>5 DEF AnswerInv, Given
  <2> QED
    BY <2>1, <2>2, <2>3, <2>6, FailsTurn DEF Turn!Next
<1> QED
  BY <1>1, <1>2

LEMMA AnswerTurn ==
    ASSUME AnswerInv, AnswerInv', Answer
    PROVE  [Turn!Next]_(Turn!turnVars)
<1>1. mode = "plain" /\ mode' = "plain" /\ ~closed /\ closed'
  BY DEF Answer
<1>2. Withheld /\ SentContent = <<>>
  BY <1>1, OpenTurn DEF Withheld
<1>3. (IInv /\ Shape => Withheld \/ Given)'
  BY Outcomes, PTL
<1>4. CASE Withheld'
  <2>1. SentContent' = <<>>
    BY <1>1, <1>4 DEF Withheld
  <2> QED
    BY <1>1, <1>2, <1>4, <2>1, FailsTurn DEF Turn!Next
<1>5. CASE Given'
  <2>1. SentContent' = text' /\ text' \in Seq([kind : Delta, text : Texts])
    BY <1>1, <1>5 DEF Given, AnswerInv, IInv, TypeOK
  <2>2. Turn!Extends
    BY <1>2, <2>1, LenProperties DEF Turn!Extends
  <2> QED
    BY <1>1, <1>2, <1>5, <2>2, CommitsTurn DEF Turn!Next
<1> QED
  BY <1>3, <1>4, <1>5 DEF AnswerInv

\* Streamed or not, the client is shown a turn of a chat: content while it is
\* open and then, in one step, all the calls with a reason that fits them, or
\* a failure without any.
THEOREM ImplementsChatTurn == Spec => ImplementsTurn
<1>1. Init => Turn!Init
  <2> SUFFICES ASSUME Init PROVE Turn!Init
    OBVIOUS
  <2>1. AnswerInv /\ ~closed /\ ~done /\ out = <<>>
    BY InitAnswer DEF Init
  <2>2. Withheld
    BY <2>1, OpenTurn
  <2>3. \A K : Kinds(K) = {}
    BY <2>1 DEF Kinds
  <2>4. SentContent = <<>>
    <3>1. Len(Sent(Delta)) = 0
      BY <2>3, SentNothing
    <3> QED
      BY <2>3, <3>1 DEF SentContent
  <2> QED
    BY <2>1, <2>2, <2>4 DEF Withheld, Turn!Init
<1>2. AnswerInv /\ AnswerInv' /\ [Next]_vars => [Turn!Next]_(Turn!turnVars)
  <2> SUFFICES ASSUME AnswerInv, AnswerInv', [Next]_vars PROVE [Turn!Next]_(Turn!turnVars)
    OBVIOUS
  <2>1. ASSUME NEW e \in Event, Refuse(e) \/ Silent(e) PROVE UNCHANGED out
    BY <2>1 DEF Refuse, Silent, handlerVars
  <2>2. ASSUME NEW how \in {"eof", "DONE", "failed"}, Stop(how) PROVE UNCHANGED out
    BY <2>2 DEF Stop, handlerVars
  <2>3. CASE UNCHANGED vars
    BY <2>3, SameOut DEF vars
  <2> QED
    BY <2>1, <2>2, <2>3, SameOut, ContentTurn, FinishTurn, CloseTurn, AnswerTurn DEF Next
<1> QED
  BY <1>1, <1>2, AnswerInvariant, PTL DEF Spec, ImplementsTurn, Turn!Spec

=============================================================================
