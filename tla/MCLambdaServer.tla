--------------------------- MODULE MCLambdaServer ---------------------------
(* Model-checking instance of LambdaServer.                                *)
EXTENDS LambdaServer

\* "r" stands for "run", "f" for a lambda name.
MCLetters == {"r", "f"}
\* Every path of up to four characters after "/run/": empty and repeated
\* separators, a trailing separator, and names of one or more letters.
MCMaxSuffix == 4
=============================================================================
