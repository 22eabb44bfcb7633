----------------------------- MODULE MCRouting -----------------------------
(* One goroutine that makes two requests, each sent up to twice, and a      *)
(* storage error whose text is longer than a length can say.                *)
EXTENDS Routing, TLC

CONSTANTS c1, k1, k2

OneClient == {c1}
TwoConns == {k1, k2}
Symmetry == Permutations(TwoConns)
MCKey == <<7>>
NoText == <<>>
MCSecret == <<8>>
MCFaultTexts == {<<107, 107, 107, 107>>}

MCDbRequests ==
    {[op |-> OpGet, etag |-> NoETag], [op |-> OpPut, etag |-> NoETag],
     [op |-> OpPut, etag |-> 1], [op |-> OpDelete, etag |-> 1]}

Plain == [method |-> OpGet, key |-> "ok", body |-> "ok", ifMatch |-> NoETag,
          ifNoneMatch |-> FALSE]

MCHttpRequests ==
    {Plain, [Plain EXCEPT !.method = OpDelete],
     [Plain EXCEPT !.method = OpPut, !.ifNoneMatch = TRUE]}
============================================================================
