-------------------------- MODULE VirtualRoutersClient --------------------------
(***************************************************************************)
(* The generated Azure VirtualRoutersClient appended to                    *)
(* src/src/server/lambdaServer.go (from line 92).                          *)
(*                                                                         *)
(* A caller makes calls one after another: BeginCreateOrUpdate,            *)
(* BeginDelete and Get build a request (each *CreateRequest checks its     *)
(* path parameters in a fixed order), send it and accept only the status   *)
(* codes of their operation.  The two list pagers walk the server's pages  *)
(* through NextLink.  The driver of a pager is azcore's runtime.Pager,     *)
(* which is not in the repository: More() is true before the first page    *)
(* and is the handler's More on the current page after it; NextPage calls  *)
(* the handler's Fetcher with the current page and, on success, makes the  *)
(* result the current page -- on error the current page stays, so the      *)
(* caller's retry requests the same link again.                            *)
(*                                                                         *)
(* Paths, query strings, headers and JSON bodies are abstracted to which   *)
(* parameter is empty, which page is asked for and whether the body        *)
(* decodes.                                                                *)
(***************************************************************************)
EXTENDS Integers, Sequences, SequencesExt

CONSTANTS
  Names,      \* values of string parameters; "" is the empty string
  LastPage,   \* the number of pages the server's listing has
  MaxCalls    \* bound on calls and page fetches the caller makes

ASSUME "" \in Names /\ LastPage \in Nat \ {0} /\ MaxCalls \in Nat

VARIABLES
  sub,        \* client.subscriptionID
  lastLink,   \* NextLink of the server's last page: NilLink or EmptyLink
  calls,      \* calls and fetches made so far
  outcome,    \* what the last call returned
  pkind,      \* the pager in use: "none", "list" or "listByResourceGroup"
  prg,        \* resourceGroupName given to NewListByResourceGroupPager
  cur,        \* the pager's current page, 0 before the first
  delivered   \* the pages NextPage has returned, in order

vars == <<sub, lastLink, calls, outcome, pkind, prg, cur, delivered>>

Outcomes == {"none", "poller", "tokenPoller", "value", "paramError",
             "netError", "responseError", "decodeError"}

\* The server's answer to one request: a status, or NoResponse when the
\* transport fails.
NoResponse == 0
Statuses == {200, 201, 202, 204, 404, 500, NoResponse}

\* A NextLink is a page number, nil, or the empty string.
NilLink   == -1
EmptyLink == 0

-----------------------------------------------------------------------------
(* Request builders                                                        *)

\* The path parameters each builder checks, in the order it checks them.
Params(op) ==
  CASE op \in {"createOrUpdate", "delete", "get"} ->
         <<"resourceGroupName", "virtualRouterName", "subscriptionID">>
    [] op = "listByResourceGroup" -> <<"resourceGroupName", "subscriptionID">>
    [] op = "list"                -> <<"subscriptionID">>

\* createOrUpdateCreateRequest: the first empty parameter is the error;
\* otherwise a request is built.
CreateRequest(op, args) ==
  LET empty == SelectSeq(Params(op), LAMBDA p : args[p] = "")
  IN  IF empty = <<>> THEN "ok" ELSE Head(empty)

DeleteCreateRequest(args) == CreateRequest("delete", args)
GetCreateRequest(args)    == CreateRequest("get", args)
ListCreateRequest(args)   == CreateRequest("list", args)
ListByResourceGroupCreateRequest(args) == CreateRequest("listByResourceGroup", args)

\* runtime.HasStatusCode in createOrUpdate, deleteOperation, Get, Fetcher.
CreateOrUpdateStatus == {200, 201}
DeleteStatus         == {200, 202, 204}
GetStatus            == {200}

\* A response body: JSON of the expected type, or anything else.
Bodies == {"json", "garbage"}

\* getHandleResponse, listHandleResponse, listByResourceGroupHandleResponse:
\* runtime.UnmarshalAsJSON into the result, whose error is returned.
GetHandleResponse(body) == IF body = "json" THEN "value" ELSE "decodeError"
ListHandleResponse(body) == GetHandleResponse(body)
ListByResourceGroupHandleResponse(body) == GetHandleResponse(body)

\* The handler a pager of kind k decodes its pages with.
HandleResponse(k, body) ==
  IF k = "list" THEN ListHandleResponse(body)
  ELSE ListByResourceGroupHandleResponse(body)

\* NewVirtualRoutersClient: the subscription id is stored unchecked.
Init ==
  /\ sub \in Names
  /\ lastLink \in {NilLink, EmptyLink}
  /\ calls = 0
  /\ outcome = "none"
  /\ pkind = "none" /\ prg = "" /\ cur = 0 /\ delivered = <<>>

Args(rg, vr) ==
  [resourceGroupName |-> rg, virtualRouterName |-> vr, subscriptionID |-> sub]

\* The outcome of a built request sent through client.pl.
Sent(s, ok, decodes) ==
  CASE s = NoResponse -> "netError"
    [] s \notin ok  -> "responseError"
    [] OTHER        -> decodes

\* BeginCreateOrUpdate / BeginDelete: with a ResumeToken the poller is
\* rebuilt from the token and nothing is sent or checked; otherwise the
\* operation is sent and a poller made of its response.
Begin(op, ok, build(_)) ==
  \E rg, vr \in Names, resume \in BOOLEAN, s \in Statuses :
    outcome' =
      CASE resume                       -> "tokenPoller"
        [] build(Args(rg, vr)) # "ok"   -> "paramError"
        [] OTHER                        -> Sent(s, ok, "poller")

BeginCreateOrUpdate ==
  Begin("createOrUpdate", CreateOrUpdateStatus,
        LAMBDA a : CreateRequest("createOrUpdate", a))
BeginDelete == Begin("delete", DeleteStatus, DeleteCreateRequest)

\* Get, then getHandleResponse on a 200.
Get ==
  \E rg, vr \in Names, s \in Statuses, body \in Bodies :
    outcome' = IF GetCreateRequest(Args(rg, vr)) # "ok" THEN "paramError"
               ELSE Sent(s, GetStatus, GetHandleResponse(body))

Call ==
  /\ calls < MaxCalls
  /\ calls' = calls + 1
  /\ BeginCreateOrUpdate \/ BeginDelete \/ Get
  /\ UNCHANGED <<sub, lastLink, pkind, prg, cur, delivered>>

-----------------------------------------------------------------------------
(* Pagers                                                                  *)

\* The server's NextLink of page k: the link to page k + 1, then lastLink.
NextLink(k) == IF k < LastPage THEN k + 1 ELSE lastLink

\* More: page.NextLink != nil && len(*page.NextLink) > 0
ListMore(k) == NextLink(k) # NilLink /\ NextLink(k) # EmptyLink

\* runtime.Pager.More: true before the first page.
PagerMore == cur = 0 \/ ListMore(cur)

\* NewListPager / NewListByResourceGroupPager
NewPager ==
  /\ pkind = "none"
  /\ \E k \in {"list", "listByResourceGroup"}, rg \in Names :
       pkind' = k /\ prg' = IF k = "list" THEN "" ELSE rg
  /\ UNCHANGED <<sub, lastLink, calls, outcome, cur, delivered>>

\* Fault variant: the Fetcher ignores the page it is given and always
\* builds the first request.
FetcherRestart ==
  LET args == [resourceGroupName |-> prg, subscriptionID |-> sub]
  IN  \E s \in Statuses, body \in Bodies :
        LET res == IF CreateRequest(pkind, args) # "ok" THEN "paramError"
                   ELSE Sent(s, GetStatus, HandleResponse(pkind, body))
        IN  /\ outcome' = res
            /\ IF res = "value"
                 THEN cur' = 1 /\ delivered' = Append(delivered, 1)
                 ELSE UNCHANGED <<cur, delivered>>

\* Fetcher: the first request is built by the list builder, later ones go
\* to *page.NextLink; a page the server answers 200 with a body the
\* pager's handler decodes becomes the current page.  A link that names no page (the empty
\* one) fails in transport.
Fetcher ==
  LET args   == [resourceGroupName |-> prg, subscriptionID |-> sub]
      built  == IF cur = 0 THEN CreateRequest(pkind, args) ELSE "ok"
      target == IF cur = 0 THEN 1 ELSE NextLink(cur)
  IN  \E s \in Statuses, body \in Bodies :
        LET res == IF built # "ok" THEN "paramError"
                   ELSE IF target \notin 1..LastPage THEN "netError"
                   ELSE Sent(s, GetStatus, HandleResponse(pkind, body))
        IN  /\ outcome' = res
            /\ IF res = "value"
                 THEN cur' = target /\ delivered' = Append(delivered, target)
                 ELSE UNCHANGED <<cur, delivered>>

\* runtime.Pager.NextPage, called by the caller while More() holds.
NextPage ==
  /\ pkind # "none"
  /\ PagerMore
  /\ calls < MaxCalls
  /\ calls' = calls + 1
  /\ Fetcher
  /\ UNCHANGED <<sub, lastLink, pkind, prg>>

Next == Call \/ NewPager \/ NextPage

Spec == Init /\ [][Next]_vars

-----------------------------------------------------------------------------
(* Properties                                                              *)

TypeOK ==
  /\ sub \in Names /\ lastLink \in {NilLink, EmptyLink}
  /\ calls \in 0..MaxCalls /\ outcome \in Outcomes
  /\ pkind \in {"none", "list", "listByResourceGroup"} /\ prg \in Names
  /\ cur \in 0..LastPage /\ delivered \in BoundedSeq(1..LastPage, LastPage)

=============================================================================
