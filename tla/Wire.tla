-------------------------------- MODULE Wire --------------------------------
(***************************************************************************)
(* The frames of the cluster mesh (pkg/cluster/binary.go).  A stream is a  *)
(* sequence of cells: one per byte of a text and one per fixed-width       *)
(* field.  A text is a sequence of cells, "" is <<>>.  A length field      *)
(* holds the length modulo its width, as the conversion uint16(len(b))     *)
(* leaves it.                                                              *)
(***************************************************************************)
EXTENDS Naturals, Sequences

CONSTANTS
    MaxUint16,      \* the largest length of a text
    MaxUint32       \* the largest length of a value

ASSUME WireAssumption == MaxUint16 \in Nat /\ MaxUint32 \in Nat

protocolMagic == 74
protocolVer == 1

\* A length and the text.
Lv(text, max) == <<Len(text) % (max + 1)>> \o text

\* What writeBinaryReq accepts; it writes nothing of a request that is larger.
Fits(req) ==
    /\ \A f \in {"auth", "ns", "key", "etag"} : Len(req[f]) <= MaxUint16
    /\ Len(req.val) <= MaxUint32

writeBinaryReq(req) ==
    <<protocolMagic, protocolVer, req.op, req.ts>>
      \o Lv(req.auth, MaxUint16) \o Lv(req.ns, MaxUint16) \o Lv(req.key, MaxUint16)
      \o Lv(req.etag, MaxUint16) \o Lv(req.val, MaxUint32)

\* An answer is an error text, or no error and at most one object.  The length
\* of the error text is not checked.
writeBinaryResp(resp) ==
    IF resp.err # <<>>
    THEN <<protocolMagic, protocolVer, 1>> \o Lv(resp.err, MaxUint16)
    ELSE IF resp.obj = <<>>
    THEN <<protocolMagic, protocolVer, 0, 0>>
    ELSE LET obj == resp.obj[1] IN
         <<protocolMagic, protocolVer, 0, 1>>
           \o Lv(obj.key, MaxUint16) \o Lv(obj.etag, MaxUint16)
           \o <<obj.modTime>> \o Lv(obj.val, MaxUint32)

-----------------------------------------------------------------------------
\* The stream without its first n cells.
After(s, n) == SubSeq(s, n + 1, Len(s))

\* A length and as many cells; once the stream ran out every later read fails.
ReadLv(s) ==
    IF s # <<>> /\ Len(s) > Head(s)
    THEN [ok |-> TRUE, text |-> SubSeq(s, 2, Head(s) + 1), rest |-> After(s, Head(s) + 1)]
    ELSE [ok |-> FALSE, text |-> <<>>, rest |-> <<>>]

\* "short": io.ReadFull waits for more or fails at the end of the stream.
Short == [got |-> "short"]
Bad == [got |-> "bad"]

readBinaryReq(s) ==
    LET auth == ReadLv(After(s, 4))
        ns   == ReadLv(auth.rest)
        key  == ReadLv(ns.rest)
        etag == ReadLv(key.rest)
        val  == ReadLv(etag.rest)
    IN  IF Len(s) < 4 THEN Short
        ELSE IF s[1] # protocolMagic \/ s[2] # protocolVer THEN Bad
        ELSE IF ~val.ok THEN Short
        ELSE [got |-> "frame", rest |-> val.rest,
              req |-> [op |-> s[3], ts |-> s[4], auth |-> auth.text, ns |-> ns.text,
                       key |-> key.text, etag |-> etag.text, val |-> val.text]]

\* Any status but 1 is taken for success.
readBinaryResp(s) ==
    LET err  == ReadLv(After(s, 3))
        key  == ReadLv(After(s, 4))
        etag == ReadLv(key.rest)
        val  == ReadLv(After(etag.rest, 1))
        Got(e, o, rest) == [got |-> "frame", resp |-> [err |-> e, obj |-> o], rest |-> rest]
    IN  IF Len(s) < 3 THEN Short
        ELSE IF s[1] # protocolMagic \/ s[2] # protocolVer THEN Bad
        ELSE IF s[3] = 1 THEN IF err.ok THEN Got(err.text, <<>>, err.rest) ELSE Short
        ELSE IF Len(s) < 4 THEN Short
        ELSE IF s[4] = 0 THEN Got(<<>>, <<>>, After(s, 4))
        ELSE IF ~val.ok THEN Short
        ELSE Got(<<>>, <<[key |-> key.text, etag |-> etag.text,
                          modTime |-> etag.rest[1], val |-> val.text]>>, val.rest)
=============================================================================
