-------------------------- MODULE MCRunnerContext ---------------------------
(* Answers of one message, of a tool call, of two calls at a time, and of a  *)
(* picture.                                                                  *)
EXTENDS RunnerContext

SomeAnswers == {<<"text">>, <<"call", "output">>,
                <<"call", "call", "output", "output">>, <<"text", "shot">>}
=============================================================================
