---------------------------- MODULE MCTestEngine ----------------------------
(* Small instances of TestEngine for TLC. *)
EXTENDS TestEngine

MCSuites ==
  {<<"WriteAndVerify", "Single">>, <<"Sequence">>,
   <<"StrictSequence">>, <<"Consistency">>, <<"Stability">>}
=============================================================================
