----------------------------- MODULE MCConversation -----------------------------
(* Small instances of Conversation. *)
EXTENDS Conversation

CONSTANTS a, b, f, g, v, w

M(role, parts) ==
    [role |-> role, parts |-> parts, reasoning |-> FALSE, calls |-> <<>>, id |-> NoId, name |-> NoName]

C(id, name, valid) == [id |-> id, name |-> name, valid |-> valid]

\* Two tools that share the ids of their calls, and what a client gets wrong.
MCMessages ==
    { M("user", <<w>>), M("user", <<v, "blank", "image">>), M("user", <<"remote">>),
      M("system", <<v, "nourl">>), M("developer", <<w>>),
      [M("assistant", <<w>>) EXCEPT !.reasoning = TRUE, !.calls = <<C(a, f, TRUE)>>],
      [M("assistant", <<>>) EXCEPT !.calls = <<C(a, g, TRUE), C(b, f, TRUE)>>],
      [M("assistant", <<"blank">>) EXCEPT !.calls = <<C(b, g, FALSE)>>],
      [M("tool", <<v>>) EXCEPT !.id = a],
      [M("tool", <<"image">>) EXCEPT !.id = a],
      [M("tool", <<w, v>>) EXCEPT !.id = b],
      [M("tool", <<w>>) EXCEPT !.id = b, !.name = g] }

================================================================================
