--------------------------------- MODULE Otx ---------------------------------
(* Fetch of pkg/providers/otx/otx.go: the service says with every page     *)
(* whether there is another one.                                           *)
EXTENDS Fetch

AtOtx == config.provider = "otx"

(* HasSubdomain and Domain of pkg/providers/domain.go.                     *)
Domain == IF config.target = "unlisted" THEN "" ELSE "apex"

HasSubdomain == Domain # "" /\ config.target # Domain

(* formatURL: what the indicator it asks for covers. A domain's is of all  *)
(* its hosts, a hostname's of that host; with --subs a host is replaced by *)
(* its domain.                                                             *)
HostOnly ==     (* a mutant: no roll-up *)
  IF HasSubdomain THEN {"url"} ELSE {"url", "subdomain"}

OtxQueries ==
  CASE ~HasSubdomain -> {"url", "subdomain"}
    [] HasSubdomain /\ config.IncludeSubdomains ->
         {"url", "subdomain", "other"}
    [] OTHER -> {"url"}

OtxRefused ==
  /\ AtOtx
  /\ \E fault \in RequestFaults : Refused(fault, "error")

OtxServed == AtOtx /\ Served

OtxSends == AtOtx /\ SendRow

OtxSendCancelled == AtOtx /\ SendCancelled

StopsOnShortPage ==     (* a mutant: an empty page taken for the end *)
  IF HasNext /\ PageRows # <<>> THEN NextPage ELSE Ends("nil")

AfterPage == IF HasNext THEN NextPage ELSE Ends("nil")

OtxPageEnds == AtOtx /\ AtEnd /\ AfterPage /\ UNCHANGED faults

OtxRequest == OtxRefused \/ OtxServed

OtxStep == OtxSendCancelled \/ OtxPageEnds
=============================================================================
