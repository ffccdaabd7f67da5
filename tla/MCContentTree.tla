---------------------------- MODULE MCContentTree ----------------------------
(***************************************************************************)
(* Instances of ContentTree for TLC.  The bodies are small MIME texts:     *)
(* "pair" has a text part and an encapsulated message, "post" a uuencoded  *)
(* attachment; "letter" is a message with a multipart body and "mail" a    *)
(* message with such a message in it; "onion3" nests four multiparts.      *)
(***************************************************************************)
EXTENDS ContentIndex

MCBody == {"none", "leaf", "plain", "post", "fragment", "pair", "mail", "letter",
           "onion0", "onion1", "onion2", "onion3"}

T(type, b) == [head |-> type, body |-> b]

MCParts == [b \in MCBody |->
    CASE b = "pair"   -> <<T("text", "plain"), T("message", "letter")>>
      [] b = "onion0" -> <<T("text", "plain")>>
      [] b = "onion1" -> <<T("multipart", "onion0")>>
      [] b = "onion2" -> <<T("multipart", "onion1")>>
      [] b = "onion3" -> <<T("multipart", "onion2")>>
      [] OTHER -> <<>>]

MCEmbedded == [b \in MCBody |-> IF b = "post" THEN <<"text", "other">> ELSE <<>>]

MCAsMessage == [b \in MCBody |->
    CASE b = "mail"   -> T("message", "letter")
      [] b = "letter" -> T("multipart", "onion0")
      [] OTHER -> T("text", "plain")]

\* What the nesting that the depth limit allows can need.
MCNodesNeeded == [b \in MCBody |->
    CASE b \in {"none", "leaf", "plain", "fragment", "onion0"} -> 1
      [] b \in {"post", "onion1"} -> 2
      [] b \in {"onion2", "onion3", "mail"} -> DepthLimit + 1
      [] b \in {"letter", "pair"} -> 2 * DepthLimit]

Symmetry == Permutations(Node)

\* Callers that build trees by hand.
EditOps == {"new", "delete", "clear", "append", "prepend", "take", "setParent", "clone",
            "setMimeType"}

\* Callers that parse.
ParseInputs == {T("text", "post"), T("multipart", "pair"), T("message", "letter")}
ParseOps == {"new", "delete", "setContent", "parse", "hold", "drop", "append"}

\* Callers that parse deeply nested texts, freeze and assemble.
DeepInputs == {T("multipart", "onion3"), T("message", "mail"), T("multipart", "plain"),
               T("text", "fragment")}
DeepOps == {"new", "setContent", "parse", "setFrozen", "assemble"}

\* Callers that clone encapsulated messages as well.
ShareInputs == {T("message", "letter")}
ShareOps == {"new", "delete", "clone", "cloneMessage", "setContent", "parse"}
==============================================================================
