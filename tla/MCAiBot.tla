------------------------------- MODULE MCAiBot -------------------------------
(***************************************************************************)
(* Small instances of AiBot for TLC.                                       *)
(***************************************************************************)
EXTENDS AiBot

\* A question, one whose signature has waited too long, and no text.
Genuine == [age |-> 0, signed |-> TRUE, text |-> TRUE, url |-> TRUE]
MCCommands ==
  {Genuine, [Genuine EXCEPT !.age = SignatureWindow + 1], [Genuine EXCEPT !.text = FALSE]}

\* Text only, and three calls: one that holds the loop, one of a tool that
\* does not exist, one that is awaited.
MCMessages == {<<>>, <<"kubectl_get", "restart_pods", "prom_query">>}
==============================================================================
