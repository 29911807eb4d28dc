------------------------------ MODULE MCDnsBridge ------------------------------
(* Names and questions for the runs of DnsBridge.                             *)
EXTENDS DnsBridge

CONSTANTS d1, d2, plain

\* A censored name that the user lists and removes, and one of the built-in lists, with
\* an IPv6 question; the plain name is that of the DoH server, which only the engine
\* asks for.
McDomains == {d1, d2}
McListed == {d1}
McQuestions == {<<d1, "A">>, <<d2, "A">>, <<d2, "AAAA">>}
=============================================================================
