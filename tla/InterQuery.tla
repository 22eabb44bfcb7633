----------------------------- MODULE InterQuery -----------------------------
(***************************************************************************)
(* Requests for a document that another node owns (pkg/cluster/mesh.go):   *)
(* ExecuteInterQuery and roundTrip on the node that is asked, handleConn   *)
(* and serve on the owner.  Connections carry the frames of Wire, are      *)
(* reused, and may fail at any point; the owner may execute a request      *)
(* whose sender has given up.  Routing adds the callers.                   *)
(*                                                                         *)
(* The owner's cache is left out (CacheManager, Ownership): GetRaw, PutRaw *)
(* and DeleteRaw act on the one document.  Its versions are numbered, the  *)
(* ETag of version v is the text <<v>>, and the value of a Put is the      *)
(* number of its request, so that a version tells who wrote it.            *)
(***************************************************************************)
EXTENDS Wire, Storage, FiniteSets

CONSTANTS
    Clients,        \* goroutines on the node that is asked
    Conns,          \* connections to the owner
    None,           \* no connection
    Key,            \* the text of the document's key
    Namespace,      \* Options.Namespace of the database on both nodes
    LegacyHandler,  \* NodeConfig.DBHandler of the owner is set
    Secret,         \* ClusterSecret of the node that is asked
    OwnerSecret,    \* ClusterSecret of the owner
    ClockSkew,      \* how far the clocks of the two nodes are apart
    authSkew,       \* how far they may be
    FaultTexts,     \* texts of storage errors
    MaxRequests, MaxVersion, MaxFaults      \* bounds

OpGet == 1
OpPut == 2
OpDelete == 3
Ops == {OpGet, OpPut, OpDelete}

VARIABLES
    store,      \* the document's version, or Absent
    written,    \* history: the request that wrote version v is written[v]
    handlers,   \* the namespaces the owner has a handler for
    asked,      \* the requests so far: [via, op, etag]
    pc,         \* a client is "idle", at its next "trip", at "wait" for the
                \* answer, or was "told" the outcome
    ask,        \* the number of its request
    retried,    \* it is in the second round trip of ExecuteInterQuery
    link,       \* the connection it holds
    outcome,    \* what ExecuteInterQuery returned: [err, resp]
    seen,       \* history: the versions the document had during the request
    use,        \* a connection is "free", "pooled", "held" or "dropped" by
                \* a sender whose request may still be on its way
    up, down,   \* the streams to and from the owner
    faults      \* storage failures so far

docVars == <<store, written, handlers, faults>>
clientVars == <<asked, pc, ask, retried, link, outcome, seen>>
connVars == <<use, up, down>>
vars == <<docVars, clientVars, connVars>>

Empty == [err |-> <<>>, obj |-> <<>>]
NoOutcome == [err |-> FALSE, resp |-> Empty]

Init ==
    /\ store = Absent /\ written = <<>> /\ handlers = {Namespace} /\ faults = 0
    /\ asked = <<>>
    /\ pc = [c \in Clients |-> "idle"]
    /\ ask = [c \in Clients |-> 0]
    /\ retried = [c \in Clients |-> FALSE]
    /\ link = [c \in Clients |-> None]
    /\ outcome = [c \in Clients |-> NoOutcome]
    /\ seen = [c \in Clients |-> {}]
    /\ use = [k \in Conns |-> "free"]
    /\ up = [k \in Conns |-> <<>>]
    /\ down = [k \in Conns |-> <<>>]

-----------------------------------------------------------------------------
(* Texts *)

ETagText(e) ==
    CASE e = NoETag -> <<>>
      [] e = MatchAny -> <<42>>
      [] OTHER -> <<e>>

ExpectedETag(text) ==
    CASE text = <<>> -> NoETag
      [] text = <<42>> -> MatchAny
      [] OTHER -> text[1]

ErrText ==
    [ErrNotFound |-> <<101>>, ErrVersionMismatch |-> <<102>>, ErrAlreadyExists |-> <<103>>,
     ErrUnauthenticated |-> <<104>>, ErrNoHandler |-> <<105>>, unknownOp |-> <<106>>]

\* The HMAC, as the tuple of all that it covers.
computeAuth(secret, req) ==
    IF secret = <<>> THEN <<>>
    ELSE <<<<secret, req.ns, req.op, req.key, req.etag, req.val, req.ts>>>>

\* The request that ExecuteInterQuery sends, stamped once for both round trips.
Request(n) ==
    LET a == asked[n]
        req == [op |-> a.op, ts |-> 0, auth |-> <<>>, key |-> Key,
                ns |-> IF a.via = "db" THEN Namespace ELSE <<>>,
                etag |-> ETagText(a.etag),
                val |-> IF a.op = OpPut THEN <<n>> ELSE <<>>]
    IN  [req EXCEPT !.auth = computeAuth(Secret, req)]

-----------------------------------------------------------------------------
(* The owner *)

authenticate(req) ==
    \/ OwnerSecret = <<>>
    \/ /\ req.auth # <<>> /\ ClockSkew <= authSkew
       /\ req.auth = computeAuth(OwnerSecret, [req EXCEPT !.auth = <<>>])

\* Any namespace without a handler goes to the legacy one.
handlerFor(ns) == ns \in handlers \/ LegacyHandler

Object(v, val) == <<[key |-> Key, etag |-> ETagText(v), modTime |-> 0, val |-> val]>>

\* The answer to a request the storage answers with res, when the document is at
\* version cur and a Put would make it new.
Answer(req, res, cur, new) ==
    [err |-> CASE res = "ok" -> <<>>
               [] res = "ErrNoHandler" -> ErrText[res] \o req.ns
               [] OTHER -> ErrText[res],
     obj |-> CASE res = "ok" /\ req.op = OpGet -> Object(cur, <<written[cur]>>)
               [] res = "ok" /\ req.op = OpPut -> Object(new, req.val)
               [] OTHER -> <<>>]

\* serve up to the handler, and what the storage says to the handler's call.
Result(req, cur) ==
    CASE ~authenticate(req) -> "ErrUnauthenticated"
      [] authenticate(req) /\ ~handlerFor(req.ns) -> "ErrNoHandler"
      [] OTHER ->
           CASE req.op = OpGet -> IF cur = Absent THEN "ErrNotFound" ELSE "ok"
             [] req.op = OpPut -> PutAnswer(cur, ExpectedETag(req.etag))
             [] req.op = OpDelete -> DeleteAnswer(cur, ExpectedETag(req.etag))
             [] OTHER -> "unknownOp"

serve(req) ==
    LET res == Result(req, store)
    IN  Answer(req, res, store, Len(written) + 1)

\* Everyone who waits for an answer has seen what the document has become.
Becomes(v) ==
    /\ store' = v
    /\ seen' = [c \in Clients |-> IF pc[c] = "idle" THEN seen[c] ELSE seen[c] \cup {v}]

\* Mutant: the owner writes without the precondition.
ApplyUnchecked(req) ==
    IF req.op = OpPut /\ Len(written) < MaxVersion
    THEN Becomes(Len(written) + 1) /\ written' = Append(written, req.val[1])
    ELSE UNCHANGED <<store, written, seen>>

\* The effect of the handler's call.
Apply(req) ==
    CASE Result(req, store) = "ok" /\ req.op = OpPut ->
           /\ Len(written) < MaxVersion
           /\ Becomes(Len(written) + 1)
           /\ written' = Append(written, req.val[1])
      [] Result(req, store) = "ok" /\ req.op = OpDelete ->
           Becomes(Absent) /\ UNCHANGED written
      [] OTHER -> UNCHANGED <<store, written, seen>>

\* writeBinaryResp, or its failure on a connection the sender has closed, which
\* ends handleConn.
Reply(k, resp, rest) ==
    \/ /\ use[k] = "held"
       /\ up' = [up EXCEPT ![k] = rest]
       /\ down' = [down EXCEPT ![k] = @ \o writeBinaryResp(resp)]
       /\ UNCHANGED use
    \/ /\ use[k] = "dropped"
       /\ use' = [use EXCEPT ![k] = "free"]
       /\ up' = [up EXCEPT ![k] = <<>>]
       /\ UNCHANGED down

\* One turn of handleConn: read, serve, write.
HandleConn(k) ==
    LET in == readBinaryReq(up[k]) IN
    /\ in.got = "frame"
    /\ Apply(in.req)
    /\ Reply(k, serve(in.req), in.rest)
    /\ UNCHANGED <<handlers, faults, asked, pc, ask, retried, link, outcome>>

\* The same turn when the storage fails, before or after it did what it was told.
HandleConnFails(k) ==
    LET in == readBinaryReq(up[k]) IN
    /\ in.got = "frame"
    /\ Result(in.req, store) \notin {"ErrUnauthenticated", "ErrNoHandler", "unknownOp"}
    /\ faults < MaxFaults /\ faults' = faults + 1
    /\ Apply(in.req) \/ UNCHANGED <<store, written, seen>>
    /\ \E text \in FaultTexts : Reply(k, [err |-> text, obj |-> <<>>], in.rest)
    /\ UNCHANGED <<handlers, asked, pc, ask, retried, link, outcome>>

\* The request of a sender that gave up is lost with the connection.
Lose(k) ==
    /\ use[k] = "dropped"
    /\ use' = [use EXCEPT ![k] = "free"]
    /\ up' = [up EXCEPT ![k] = <<>>]
    /\ UNCHANGED <<docVars, clientVars, down>>

\* Close of the owner's database: UnregisterHandler.
UnregisterHandler ==
    /\ handlers' = handlers \ {Namespace}
    /\ handlers' # handlers
    /\ UNCHANGED <<store, written, faults, clientVars, connVars>>

\* Requests to the owner itself.
OwnerPut ==
    /\ Len(written) < MaxVersion
    /\ Becomes(Len(written) + 1)
    /\ written' = Append(written, 0)
    /\ UNCHANGED <<handlers, faults, asked, pc, ask, retried, link, outcome,
                   connVars>>

OwnerDelete ==
    /\ store # Absent
    /\ Becomes(Absent)
    /\ UNCHANGED <<written, handlers, faults, asked, pc, ask, retried, link, outcome,
                   connVars>>

-----------------------------------------------------------------------------
(* ExecuteInterQuery of client c *)

Begin(c, via, op, e) ==
    /\ pc[c] = "idle" /\ Len(asked) < MaxRequests
    /\ asked' = Append(asked, [via |-> via, op |-> op, etag |-> e])
    /\ ask' = [ask EXCEPT ![c] = Len(asked) + 1]
    /\ retried' = [retried EXCEPT ![c] = FALSE]
    /\ outcome' = [outcome EXCEPT ![c] = NoOutcome]
    /\ seen' = [seen EXCEPT ![c] = {store}]
    /\ pc' = [pc EXCEPT ![c] = "trip"]
    /\ UNCHANGED <<docVars, link, connVars>>

\* GetConn, which prefers a pooled connection, and writeBinaryReq.
Send(c) ==
    /\ pc[c] = "trip" /\ Fits(Request(ask[c]))
    /\ \E k \in Conns :
         /\ \/ use[k] = "pooled"
            \/ use[k] = "free" /\ \A j \in Conns : use[j] # "pooled"
         /\ use' = [use EXCEPT ![k] = "held"]
         /\ up' = [up EXCEPT ![k] = @ \o writeBinaryReq(Request(ask[c]))]
         /\ link' = [link EXCEPT ![c] = k]
    /\ pc' = [pc EXCEPT ![c] = "wait"]
    /\ UNCHANGED <<docVars, asked, ask, retried, outcome, seen, down>>

\* Mutant: retries do not end.
FailTripAgain(c) ==
    /\ link' = [link EXCEPT ![c] = None]
    /\ retried' = [retried EXCEPT ![c] = TRUE]
    /\ pc' = [pc EXCEPT ![c] = "trip"]
    /\ UNCHANGED <<docVars, asked, ask, seen, outcome>>

\* After the first failure one retry, unless the context is done by then.
FailTrip(c) ==
    /\ link' = [link EXCEPT ![c] = None]
    /\ \/ /\ ~retried[c]
          /\ retried' = [retried EXCEPT ![c] = TRUE]
          /\ pc' = [pc EXCEPT ![c] = "trip"]
          /\ UNCHANGED outcome
       \/ /\ outcome' = [outcome EXCEPT ![c] = [err |-> TRUE, resp |-> Empty]]
          /\ pc' = [pc EXCEPT ![c] = "told"]
          /\ UNCHANGED retried
    /\ UNCHANGED <<docVars, asked, ask, seen>>

\* No connection, or a frame that is too large or not written to its end: the
\* owner gets nothing it could serve.
SendFails(c) ==
    /\ pc[c] = "trip"
    /\ FailTrip(c)
    /\ UNCHANGED connVars

\* DropConn closes it.
DropConn(k) ==
    /\ use' = [use EXCEPT ![k] = IF up[k] = <<>> THEN "free" ELSE "dropped"]
    /\ down' = [down EXCEPT ![k] = <<>>]
    /\ UNCHANGED up

\* The connection goes back to the pool with whatever is left in it.
PutConn(k, rest) ==
    /\ use' = [use EXCEPT ![k] = "pooled"]
    /\ down' = [down EXCEPT ![k] = rest]
    /\ UNCHANGED up

Receive(c) ==
    LET k == link[c]
        in == readBinaryResp(down[k])
    IN  /\ pc[c] = "wait" /\ in.got = "frame"
        /\ PutConn(k, in.rest)
        /\ link' = [link EXCEPT ![c] = None]
        /\ outcome' = [outcome EXCEPT ![c] = [err |-> FALSE, resp |-> in.resp]]
        /\ pc' = [pc EXCEPT ![c] = "told"]
        /\ UNCHANGED <<docVars, asked, ask, retried, seen>>

\* Mutant: a connection with an answer to come goes back to the pool.
ReceiveFailsReuses(c) ==
    /\ pc[c] = "wait"
    /\ PutConn(link[c], down[link[c]])
    /\ FailTrip(c)

\* A frame that does not parse, a reset or the deadline.
ReceiveFails(c) ==
    /\ pc[c] = "wait"
    /\ DropConn(link[c])
    /\ FailTrip(c)
=============================================================================
