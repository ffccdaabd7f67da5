---------------------------- MODULE MCTreeQueries ----------------------------
(***************************************************************************)
(* Instance of TreeQueries for TLC.                                        *)
(***************************************************************************)
EXTENDS TreeQueries

K(media, sub, name, filename, disposition) ==
    [media |-> media, sub |-> sub, name |-> name, filename |-> filename,
     disposition |-> disposition]

MCKinds == {
    NoHeaders,
    K("text", "plain", "a.txt", "", "none"),
    K("text", "calendar", "", "", "attachment"),
    K("application", "pdf", "", "a.pdf", "attachment"),
    K("application", "pkcs7-mime", "smime.p7m", "", "none"),
    K("multipart", "mixed", "", "", "none"),
    K("multipart", "related", "", "", "none"),
    K("multipart", "alternative", "", "", "none"),
    K("multipart", "signed", "", "", "none"),
    K("message", "rfc822", "", "", "none")}

Symmetry == Permutations(Node)
==============================================================================
