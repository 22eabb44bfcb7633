------------------------------- MODULE Routing ------------------------------
(***************************************************************************)
(* The callers of ExecuteInterQuery on a node that does not own the        *)
(* document: Get, Put and Delete of the database (pkg/db/db.go) and the    *)
(* HTTP server (Server), and what they tell their own callers.  A claim is *)
(* what such a caller may conclude: the operation is "ok", the document is *)
(* "missing", there is a "conflict", or nothing ("unknown").               *)
(***************************************************************************)
EXTENDS Server

CONSTANTS
    DbRequests,     \* the operations called: [op, etag]
    HttpRequests    \* the requests the HTTP server gets

VARIABLE answer     \* what a client was told last: [claim, etag, val]

routingVars == <<vars, answer>>

ETags == {NoETag, MatchAny} \cup 1..MaxVersion

ASSUME RoutingAssumption ==
    DbRequests \subseteq [op : Ops, etag : ETags] /\ HttpRequests \subseteq HttpRequest(ETags)

NoAnswer == [claim |-> "none", etag |-> Absent, val |-> <<>>]

RoutingInit == Init /\ answer = [c \in Clients |-> NoAnswer]

\* The ETags a client can know.
KnownETags == {NoETag, MatchAny} \cup 1..Len(written)

Tell(c, claim, obj) ==
    answer' = [answer EXCEPT ![c] =
      IF claim = "ok" /\ obj # <<>>
      THEN [claim |-> claim, etag |-> ExpectedETag(obj[1].etag), val |-> obj[1].val]
      ELSE [claim |-> claim, etag |-> Absent, val |-> <<>>]]

Finish(c) ==
    /\ pc' = [pc EXCEPT ![c] = "idle"]
    /\ outcome' = [outcome EXCEPT ![c] = NoOutcome]
    /\ UNCHANGED <<docVars, asked, ask, retried, link, seen, connVars>>

-----------------------------------------------------------------------------
(* The database *)

DbBegin(c, r) ==
    /\ r.etag \in KnownETags
    /\ Begin(c, "db", r.op, r.etag)
    /\ answer' = [answer EXCEPT ![c] = NoAnswer]

mapErrorString(text) ==
    CASE text = ErrText["ErrNotFound"] -> "missing"
      [] text \in {ErrText["ErrAlreadyExists"], ErrText["ErrVersionMismatch"]} -> "conflict"
      [] OTHER -> "unknown"

Told(c, via, op) == pc[c] = "told" /\ asked[ask[c]].via = via /\ asked[ask[c]].op = op

\* Get trusts an answer of the owner ...
GetAnswered(c) ==
    LET resp == outcome[c].resp IN
    /\ Told(c, "db", OpGet) /\ ~outcome[c].err
    /\ \/ resp.err # <<>> /\ Tell(c, mapErrorString(resp.err), <<>>)
       \/ resp.err = <<>> /\ resp.obj # <<>> /\ Tell(c, "ok", resp.obj)
    /\ Finish(c)

\* ... and without one reads the storage itself, unless its context is done.
GetGivesUp(c) ==
    /\ Told(c, "db", OpGet) /\ outcome[c].err
    /\ Tell(c, "unknown", <<>>)
    /\ Finish(c)

readLocal(c) ==
    /\ Told(c, "db", OpGet)
    /\ outcome[c].err \/ outcome[c].resp = Empty
    /\ IF store = Absent THEN Tell(c, "missing", <<>>)
                         ELSE Tell(c, "ok", Object(store, <<written[store]>>))
    /\ Finish(c)

PutReturns(c) ==
    LET out == outcome[c] IN
    /\ Told(c, "db", OpPut)
    /\ \/ (out.err \/ out.resp = Empty) /\ Tell(c, "unknown", <<>>)
       \/ ~out.err /\ out.resp.err # <<>> /\ Tell(c, mapErrorString(out.resp.err), <<>>)
       \/ ~out.err /\ out.resp.obj # <<>> /\ Tell(c, "ok", out.resp.obj)
    /\ Finish(c)

DeleteReturns(c) ==
    LET out == outcome[c] IN
    /\ Told(c, "db", OpDelete)
    /\ \/ out.err /\ Tell(c, "unknown", <<>>)
       \/ ~out.err /\ out.resp.err # <<>> /\ Tell(c, mapErrorString(out.resp.err), <<>>)
       \/ ~out.err /\ out.resp.err = <<>> /\ Tell(c, "ok", <<>>)
    /\ Finish(c)

-----------------------------------------------------------------------------
(* The HTTP server *)

HttpBegin(c, h) ==
    /\ Refusal(h) = "none" /\ ForwardETag(h) \in KnownETags
    /\ Begin(c, "http", h.method, ForwardETag(h))
    /\ answer' = [answer EXCEPT ![c] = NoAnswer]

Claim(status) ==
    CASE status \in {"200", "204"} -> "ok"
      [] status = "404" -> "missing"
      [] status = "412" -> "conflict"
      [] OTHER -> "unknown"

HttpReturns(c) ==
    /\ \E op \in Ops :
         /\ Told(c, "http", op)
         /\ Tell(c, Claim(forwardViaMesh(op, outcome[c])), outcome[c].resp.obj)
    /\ Finish(c)

-----------------------------------------------------------------------------
ClientStep(c) ==
    \/ (Send(c) \/ SendFails(c) \/ Receive(c) \/ ReceiveFails(c)) /\ UNCHANGED answer
    \/ GetAnswered(c) \/ GetGivesUp(c) \/ readLocal(c)
    \/ PutReturns(c) \/ DeleteReturns(c) \/ HttpReturns(c)

OwnerStep ==
    \/ \E k \in Conns : HandleConn(k) \/ HandleConnFails(k) \/ Lose(k)
    \/ UnregisterHandler \/ OwnerPut \/ OwnerDelete

Next ==
    \/ \E c \in Clients :
         \/ ClientStep(c)
         \/ \E r \in DbRequests : DbBegin(c, r)
         \/ \E h \in HttpRequests : HttpBegin(c, h)
    \/ OwnerStep /\ UNCHANGED answer

Spec == RoutingInit /\ [][Next]_routingVars

-----------------------------------------------------------------------------
Mine(c) == asked[ask[c]]
Answered(c) == pc[c] = "idle" /\ ask[c] # 0

\* The versions that request n wrote.
WrittenBy(n) == {v \in DOMAIN written : written[v] = n}

\* What an answer of the storage tells.
Means(res) ==
    CASE res = "ok" -> "ok" [] res = "ErrNotFound" -> "missing" [] OTHER -> "conflict"

\* What a client is told was so at some moment of its request: the owner's
\* document had the version a Get returns, with the value that was written as
\* that version, or was missing, or did meet or fail the precondition.  A late
\* answer to somebody else's request, left in a reused connection, or a piece of
\* an over-long error text is never taken for one.
AnswersAreCurrent ==
    \A c \in Clients :
      LET a == answer[c] IN
      Answered(c) =>
        CASE Mine(c).op = OpGet ->
               /\ a.claim = "ok" => a.etag \in seen[c] /\ a.val = <<written[a.etag]>>
               /\ a.claim = "missing" => Absent \in seen[c]
               /\ a.claim # "conflict"
          [] Mine(c).op = OpPut ->
               a.claim # "unknown" =>
                 \E v \in seen[c] : Means(PutAnswer(v, Mine(c).etag)) = a.claim
          [] Mine(c).op = OpDelete ->
               a.claim # "unknown" =>
                 \E v \in seen[c] : Means(DeleteAnswer(v, Mine(c).etag)) = a.claim

\* A Put that is acknowledged has written the version it reports, with its own
\* value, whichever of its two round trips got through.
AcknowledgedPutIsMine ==
    \A c \in Clients :
      Answered(c) /\ Mine(c).op = OpPut /\ answer[c].claim = "ok" =>
        answer[c].etag \in WrittenBy(ask[c])

\* A Put that is refused has written nothing, unless ExecuteInterQuery repeated
\* it: the refusal may then be due to its own first round trip.
RefusedPutWroteNothing ==
    \A c \in Clients :
      Answered(c) /\ Mine(c).op = OpPut /\ ~retried[c]
      /\ answer[c].claim \in {"missing", "conflict"} => WrittenBy(ask[c]) = {}

\* The retry executes a request at most twice, and one that expects a version at
\* most once, even when the owner comes to it after its sender has given up.
ConditionalPutAppliedOnce ==
    \A n \in DOMAIN asked :
      Cardinality(WrittenBy(n)) <= IF asked[n].etag \in {NoETag, MatchAny} THEN 2 ELSE 1

\* A request gets the status it would get on the owner, whichever node the HTTP
\* client talks to, when the connection holds and the database has no namespace
\* (a request that the server forwards carries none).  Only the document and the
\* handlers matter, and the owner alone takes them through all their values, so
\* it is enough to look at a request that is the first.
ForwardedLikeLocal ==
    asked = <<>> /\ Namespace \in handlers /\ (Namespace = <<>> \/ LegacyHandler) =>
      \A op \in Ops, e \in KnownETags, b \in BOOLEAN :
        LET h == [method |-> op, key |-> "ok", body |-> "ok", ifMatch |-> e, ifNoneMatch |-> b]
            local == CASE op = OpGet -> IF store = Absent THEN "ErrNotFound" ELSE "ok"
                       [] op = OpPut -> PutAnswer(store, LocalETag(h))
                       [] op = OpDelete -> DeleteAnswer(store, LocalETag(h))
            plain == [op |-> op, ts |-> 0, auth |-> <<>>, ns |-> <<>>, key |-> Key,
                      etag |-> ETagText(ForwardETag(h)), val |-> <<0>>]
            sent == writeBinaryReq([plain EXCEPT !.auth = computeAuth(Secret, plain)])
            back == readBinaryResp(writeBinaryResp(serve(readBinaryReq(sent).req)))
        IN  forwardViaMesh(op, [err |-> FALSE, resp |-> back.resp]) = handleLocal(op, local)
=============================================================================
