------------------------------ MODULE CASRetry ------------------------------
(***************************************************************************)
(* Clients that update a document with optimistic concurrency on top of    *)
(* CacheManager: read it, write it back with the ETag that was read, and   *)
(* start again after a conflict or an error.  What they read may be a      *)
(* stale entry; the question is whether they get out of it.  The other     *)
(* goroutines use the cache as they like.  The context of a client         *)
(* outlives its loop.                                                      *)
(***************************************************************************)
EXTENDS CacheManager

CONSTANTS
    Clients,    \* the goroutines that run the loop
    Doc         \* the document they all update

ASSUME RetryAssumption == Clients \subseteq Threads /\ Doc \in Keys

\* The loop of c is over: its write went through.
Done(c) == pc[c] = "idle" /\ op[c] = "Put" /\ res[c] = "ok"

\* The next call of the loop, from how the last one ended.
ClientCalls(c) ==
    /\ pc[c] = "idle" /\ ~Done(c)
    /\ CASE op[c] = "Get" /\ res[c] = "ok" -> Put(c, Doc, val[c])
         [] op[c] = "Get" /\ res[c] = "ErrNotFound" -> Put(c, Doc, MatchAny)
         [] OTHER -> GetHit(c, Doc) \/ GetMiss(c, Doc)

\* The writes of the others leave the clients and the failures their share
\* of the versions.
OtherCalls(t) ==
    \E k \in Keys :
        \/ GetHit(t, k) \/ GetMiss(t, k)
        \/ \E e \in ETags : Delete(t, k, e)
        \/ /\ version + Cardinality(Clients) + MaxFaults < MaxVersion
           /\ \E e \in ETags : Put(t, k, e)

RetryNext ==
    \/ \E t \in Threads : Step(t)
    \/ \E c \in Clients : ClientCalls(c)
    \/ \E t \in Threads \ Clients : OtherCalls(t) \/ CancelWait(t)
    \/ \E k \in Keys : Evict(k) \/ Expire(k)

\* Goroutines keep running and clients keep trying.  Nothing is assumed of
\* evictions and of the TTL, which every read of a hot entry prolongs.
RetrySpec ==
    /\ Init /\ [][RetryNext]_vars
    /\ \A t \in Threads : WF_vars(Step(t))
    /\ \A c \in Clients : WF_vars(ClientCalls(c))

\* Every client gets its update through in the end, although it may be handed
\* a stale ETag again and again: the conflict it causes drops the entry.
EveryUpdateGetsThrough == \A c \in Clients : <>Done(c)
=============================================================================
