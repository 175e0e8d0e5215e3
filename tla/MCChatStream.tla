------------------------------ MODULE MCChatStream ------------------------------
(***************************************************************************)
(* Small instances of ChatStream.                                          *)
(***************************************************************************)
EXTENDS ChatStream

\* One type for each way an event can act: reasoning is handled like text, the
\* other provisional events like tool-input-start, malformed like error.
OneOfEach == {"text-delta", "tool-call", "tool-input-start",
              "finish-step", "finish", "error"}
=============================================================================
