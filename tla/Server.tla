------------------------------- MODULE Server -------------------------------
(***************************************************************************)
(* The HTTP server (pkg/server/server.go): which requests it refuses, the  *)
(* precondition it makes of the headers, and the status it makes of the    *)
(* outcome, on the two paths a request for a document can take: handleGet, *)
(* handlePut and handleDelete on the node that owns it, the forward*ViaMesh *)
(* methods on any other.                                                   *)
(***************************************************************************)
EXTENDS InterQuery

\* A request: the method, what its key and its body are like, and the headers
\* If-Match (an ETag, NoETag without the header) and If-None-Match: * .
HttpRequest(ETags) ==
    [method : Ops \cup {0}, key : {"ok", "empty", "long", "control"},
     body : {"ok", "empty", "large"}, ifMatch : ETags, ifNoneMatch : BOOLEAN]

\* The checks before the document is touched; both paths have the same.
Refusal(h) ==
    CASE h.key # "ok" -> "400"
      [] h.method = 0 -> "405"
      [] h.method = OpPut /\ h.body = "empty" -> "400"
      [] h.method = OpPut /\ h.body = "large" -> "413"
      [] OTHER -> "none"

\* The precondition of a forwarded request.
ForwardETag(h) ==
    IF h.method = OpPut /\ h.ifNoneMatch THEN MatchAny ELSE h.ifMatch

\* The options of a local one.
LocalETag(h) ==
    CASE h.method = OpPut /\ h.ifNoneMatch -> MatchAny
      [] h.ifMatch # NoETag -> h.ifMatch
      [] OTHER -> NoETag

forwardGetViaMesh(out) ==
    CASE out.err -> "502"
      [] ~out.err /\ out.resp.err = ErrText["ErrNotFound"] -> "404"
      [] ~out.err /\ out.resp.err # <<>> -> "500"
      [] ~out.err /\ out.resp.obj = <<>> -> "404"
      [] OTHER -> "200"

\* Mutant: one of the two conflicts is not known.
ForwardPutExistsIs500(out) ==
    CASE out.err -> "502"
      [] ~out.err /\ out.resp.err = ErrText["ErrVersionMismatch"] -> "412"
      [] ~out.err /\ (out.resp.err # <<>> \/ out.resp.obj = <<>>) -> "500"
      [] OTHER -> "200"

forwardPutViaMesh(out) ==
    CASE out.err -> "502"
      [] ~out.err /\ out.resp.err \in {ErrText["ErrVersionMismatch"],
                                       ErrText["ErrAlreadyExists"]} -> "412"
      [] ~out.err /\ (out.resp.err # <<>> \/ out.resp.obj = <<>>) -> "500"
      [] OTHER -> "200"

forwardDeleteViaMesh(out) ==
    CASE out.err -> "502"
      [] ~out.err /\ out.resp.err = ErrText["ErrNotFound"] -> "404"
      [] ~out.err /\ out.resp.err = ErrText["ErrVersionMismatch"] -> "412"
      [] ~out.err /\ out.resp.err # <<>> -> "500"
      [] OTHER -> "204"

forwardViaMesh(op, out) ==
    CASE op = OpGet -> forwardGetViaMesh(out)
      [] op = OpPut -> forwardPutViaMesh(out)
      [] op = OpDelete -> forwardDeleteViaMesh(out)

\* The local handlers, from what the database returned.
handleGet(res) == CASE res = "ok" -> "200" [] res = "ErrNotFound" -> "404" [] OTHER -> "500"

handlePut(res) ==
    CASE res = "ok" -> "200"
      [] res \in {"ErrVersionMismatch", "ErrAlreadyExists"} -> "412"
      [] OTHER -> "500"

handleDelete(res) ==
    CASE res = "ok" -> "204"
      [] res = "ErrNotFound" -> "404"
      [] res = "ErrVersionMismatch" -> "412"
      [] OTHER -> "500"

handleLocal(op, res) ==
    CASE op = OpGet -> handleGet(res)
      [] op = OpPut -> handlePut(res)
      [] op = OpDelete -> handleDelete(res)
=============================================================================
