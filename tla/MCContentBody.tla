---------------------------- MODULE MCContentBody ----------------------------
(***************************************************************************)
(* Instances of ContentBody for TLC: the texts that can be received and     *)
(* callers that are careful or not.                                        *)
(***************************************************************************)
EXTENDS ContentBody

\* Nothing uuencoded: KMime decodes such a body but cannot encode it again.
MCReceived == {text \in Sent : text.head.cte # "uuencode"}

CarefulOps == {"setContent", "parse", "assemble", "setBody", "setType", "setEncoding",
               "changeEncoding", "decodedText"}

FreezingOps == CarefulOps \cup {"setFrozen", "clear"}

ReparsingOps == {"setContent", "parse", "reparse", "decodedText"}
==============================================================================
