----------------------------- MODULE MCLifecycle -----------------------------
(* A small instance of Lifecycle for TLC: every way of giving a secret, with  *)
(* one variable that the file may name, and up to two domains with a token of *)
(* their own, one above the other.                                            *)
EXTENDS Lifecycle

MCPair == [inline : BOOLEAN, env : {None, "OTHER"}]
MCKeys == {<<"com">>, <<"a", "com">>}

MCFiles ==
    [token : MCPair, email : BOOLEAN, password : MCPair, mail : BOOLEAN,
     ssl : BOOLEAN, api : MCPair,
     domains : UNION {[S -> MCPair] : S \in SUBSET MCKeys}]

MCDomains == {<<"a", "com">>, <<"b", "a", "com">>, <<"b", "com">>,
              <<"a", "org">>}
=============================================================================
