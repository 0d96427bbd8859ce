\* The generated client: single calls and one pager per behaviour.
CONSTANTS
  Names    <- MCNames
  LastPage <- MCLastPage
  MaxCalls <- MCMaxCalls
SPECIFICATION Spec
\* The caller stops after MaxCalls calls and fetches, or when the pager has
\* no more pages; that end state is not an error.
CHECK_DEADLOCK FALSE
INVARIANT TypeOK
