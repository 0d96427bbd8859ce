\* Every request path "/run/" followed by up to four characters.
CONSTANTS
  Letters   <- MCLetters
  MaxSuffix <- MCMaxSuffix
SPECIFICATION Spec
\* Each request is handled once; the handler then has nothing left to do.
CHECK_DEADLOCK FALSE
INVARIANT TypeOK
