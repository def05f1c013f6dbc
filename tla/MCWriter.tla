------------------------------- MODULE MCWriter -------------------------------
(* Small instances of Writer for TLC.                                         *)
EXTENDS Writer, TLC

CONSTANTS c1, c2, u1, u2, u3

\* c1 has a certificate to get; c2 asks for one without a token.
MCUrlOf == (c1 :> u1) @@ (c2 :> u2)

\* Both containers ask for the same domain.
MCSharedUrl == (c1 :> u1) @@ (c2 :> u1)
=============================================================================
