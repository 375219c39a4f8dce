-------------------------- MODULE MCSemanticCache ---------------------------
(* Requests for TLC.                                                       *)
EXTENDS SemanticCache

Asked(namespace, system, history, prompt, context) ==
  [namespace |-> namespace, system |-> system, history |-> history,
   prompt |-> prompt, context |-> context]

\* A conversation in which the user has said "yes" and "no" goes on with one of
\* the two, and the same question under other principals, system instructions
\* and retrieval contexts.
SomeRequests ==
  {Asked("a", "analyst", <<"yes", "no">>, "yes", ""),
   Asked("a", "analyst", <<"yes", "no">>, "no", ""),
   Asked("a", "", <<>>, "yes", ""),
   Asked("a", "analyst", <<>>, "yes", ""),
   Asked("a", "analyst", <<>>, "yes", "facts"),
   Asked("b", "analyst", <<>>, "yes", "")}

SameText(p, r) == p = r
=============================================================================
