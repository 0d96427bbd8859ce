----------------------------- MODULE LambdaServer -----------------------------
(***************************************************************************)
(* The worker's request front end, src/src/server/lambdaServer.go:         *)
(* getUrlComponents splits r.URL.Path into its "/"-separated components    *)
(* and Invoke answers 400 unless there is a lambda name after "run".       *)
(*                                                                         *)
(* A path is a sequence of characters.  Only "/" matters to the code, so   *)
(* the alphabet is "/" and two letters; the word "run" of RUN_PATH is the  *)
(* single letter "r".                                                      *)
(***************************************************************************)
EXTENDS Naturals, Sequences, SequencesExt

CONSTANTS
  Letters,     \* the non-separator characters
  MaxSuffix    \* bound on the length of the path after RUN_PATH

Slash == "/"
Chars == Letters \cup {Slash}

\* http.HandleFunc(RUN_PATH, ...): the mux hands Invoke the paths that start
\* with "/run/".
RunPath == <<Slash, "r", Slash>>
Paths == {RunPath \o s : s \in BoundedSeq(Chars, MaxSuffix)}

\* Fault variant: strings.SplitAfter, which keeps each "/" in its piece.
RECURSIVE SplitAfter(_)
SplitAfter(p) ==
  IF p = <<>> THEN << <<>> >>
  ELSE LET rest == SplitAfter(Tail(p))
       IN  IF Head(p) = Slash
             THEN << <<Slash>> >> \o rest
             ELSE << <<Head(p)>> \o Head(rest) >> \o Tail(rest)

\* strings.Split(path, "/"): n separators give n + 1 pieces, empty ones
\* included, and "" gives one empty piece.
RECURSIVE Split(_)
Split(p) ==
  IF p = <<>> THEN << <<>> >>
  ELSE LET rest == Split(Tail(p))
       IN  IF Head(p) = Slash
             THEN << <<>> >> \o rest
             ELSE << <<Head(p)>> \o Head(rest) >> \o Tail(rest)

\* getUrlComponents: drop one leading "/", then one trailing "/", then split.
GetUrlComponents(path) ==
  LET p1 == IF path # <<>> /\ Head(path) = Slash THEN Tail(path) ELSE path
      p2 == IF p1 # <<>> /\ Last(p1) = Slash THEN Front(p1) ELSE p1
  IN  Split(p2)

VARIABLES
  path,   \* r.URL.Path of the request
  code,   \* status Invoke writes: 0 before it runs, 400, or 200
  img     \* the lambda name passed to lambdaMgr.Get

vars == <<path, code, img>>

Init ==
  /\ path \in Paths
  /\ code = 0
  /\ img = <<>>

\* Invoke: 400 when fewer than two components, else run urlParts[1].
Invoke ==
  /\ code = 0
  /\ LET urlParts == GetUrlComponents(path)
     IN  IF Len(urlParts) < 2
           THEN code' = 400 /\ UNCHANGED img
           ELSE code' = 200 /\ img' = urlParts[2]
  /\ UNCHANGED path

Next == Invoke

Spec == Init /\ [][Next]_vars

-----------------------------------------------------------------------------

TypeOK ==
  /\ path \in Paths
  /\ code \in {0, 200, 400}
  /\ img \in Seq(Letters)

=============================================================================
