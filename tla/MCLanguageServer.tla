-------------------------- MODULE MCLanguageServer --------------------------
(* Instances of LanguageServer for TLC. *)
EXTENDS LanguageServer

CONSTANTS u1, u2, i1, i2

\* One housing on each program, and both housings on the first.
MCContents == {[i \in Ics |-> IF i = i1 THEN u1 ELSE u2], [i \in Ics |-> u1]}
=============================================================================
