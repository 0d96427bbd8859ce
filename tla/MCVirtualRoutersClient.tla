------------------------ MODULE MCVirtualRoutersClient ------------------------
(* Model values for VirtualRoutersClient: one non-empty name and the empty *)
(* string, a listing of two pages, and enough calls to walk it with a      *)
(* failed fetch retried.                                                   *)
EXTENDS VirtualRoutersClient

MCNames    == {"", "vr1"}
MCLastPage == 2
MCMaxCalls == 4
=============================================================================
