----------------------------- MODULE HelperCodec -----------------------------
(***************************************************************************)
(* The text and the binary codec of the pipes between the server and its   *)
(* helpers.  A buffer is a sequence of tokens: the lines of a text record  *)
(* or the header and the length-prefixed parts of a binary one.  What has  *)
(* arrived of a token cut by a read is not yet there.  A message is an id  *)
(* and a body; the body stands for the type and the fields.                *)
(***************************************************************************)
EXTENDS Integers, Sequences, FiniteSetsExt

CONSTANTS MaxTextRecord,    \* kMaxTextRecord, in lines
          MaxBinaryPayload  \* kMaxBinaryPayload, in parts

ASSUME CodecConstants == MaxTextRecord \in Nat /\ MaxBinaryPayload \in Nat

ReqId(n) == [key |-> "req_id", val |-> n]
Field(body) == [key |-> "field", val |-> body]
Blank == [key |-> "blank"]
Junk == [key |-> "junk"]   \* a line without '='
BadId == -1               \* not a number, or one past UINT64_MAX
Header(magic, len) == [key |-> "header", magic |-> magic, len |-> len]
Count(n) == [key |-> "count", val |-> n]

Incomplete == [status |-> "incomplete"]
Error == [status |-> "error"]
Complete(id, body, rest) == [status |-> "complete", req_id |-> id, body |-> body, rest |-> rest]

Keys(s, key) == {i \in DOMAIN s : s[i].key = key}

-----------------------------------------------------------------------------
(* TextHelperCodec.                                                        *)

EncodeText(id, body) == <<ReqId(id), Field(body), Blank>>

\* A block of lines; the last of several ids counts.
TextBlock(block, rest) ==
    IF \/ Keys(block, "junk") # {} \/ Keys(block, "req_id") = {}
       \/ \E i \in Keys(block, "req_id") : block[i].val = BadId
    THEN Error
    ELSE Complete(block[Max(Keys(block, "req_id"))].val,
                  {block[i].val : i \in Keys(block, "field")}, rest)

\* A record ends at the first empty line that follows a line; one that starts
\* with an empty line goes on.
DecodeText(in) ==
    LET ends == Keys(in, "blank") \ {1}
    IN IF ends # {}
       THEN TextBlock(SubSeq(in, 1, Min(ends) - 1), SubSeq(in, Min(ends) + 1, Len(in)))
       ELSE IF Len(in) > MaxTextRecord THEN Error ELSE Incomplete

-----------------------------------------------------------------------------
(* BinaryHelperCodec.                                                      *)

EncodeBinary(id, body) == <<Header(TRUE, 3), ReqId(id), Count(1), Field(body)>>

\* A whole payload: the id and the type, the count, and that many fields; what
\* follows the last of them is skipped.
BinaryPayload(p, rest) ==
    IF Len(p) < 2 \/ Len(p) < 2 + p[2].val THEN Error
    ELSE Complete(p[1].val, {p[i].val : i \in 3..(2 + p[2].val)}, rest)

DecodeBinary(in) ==
    IF in = <<>> THEN Incomplete
    ELSE IF ~in[1].magic \/ in[1].len > MaxBinaryPayload THEN Error
    ELSE IF Len(in) < 1 + in[1].len THEN Incomplete
    ELSE BinaryPayload(SubSeq(in, 2, 1 + in[1].len), SubSeq(in, 2 + in[1].len, Len(in)))

-----------------------------------------------------------------------------
Codec == {"text", "binary"}
Encode(codec, id, body) == IF codec = "text" THEN EncodeText(id, body) ELSE EncodeBinary(id, body)
Decode(codec, in) == IF codec = "text" THEN DecodeText(in) ELSE DecodeBinary(in)
=============================================================================
