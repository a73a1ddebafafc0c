--------------------------- MODULE MCRetroJudging ---------------------------
(***************************************************************************)
(* A short history: two models, one task without output, one that failed.  *)
(***************************************************************************)
EXTENDS RetroJudging

Task(m, infra, output) == [model |-> m, infra |-> infra, output |-> output]

SomeHistory ==
  <<Task("gemma", FALSE, TRUE), Task("qwen", FALSE, FALSE),
    Task(Nobody, TRUE, TRUE), Task("gemma", FALSE, TRUE),
    Task("qwen", FALSE, TRUE)>>
=============================================================================
