------------------------------ MODULE MCDavRequests ------------------------------
(***************************************************************************)
(* WebDAV requests as TLC checks them: a base with a document and a folder *)
(* that one of the two operators may read; somebody reads the document,    *)
(* then comes any request, then a conditional write to the document.       *)
(***************************************************************************)
EXTENDS DavRequests

CONSTANTS v1, v2, v3, d1, d2, d3, kb1, kb2, owner, clerk, guest, stranger

DavPeople == {owner, clerk, guest, stranger}
DavRoles == [p \in DavPeople |->
    CASE p \in {owner, clerk} -> "TENANT_OPERATOR" [] p = guest -> "TENANT_VIEWER" [] OTHER -> NoRole]
DavBase == [b \in BaseIds |-> IF b = kb1 THEN [name |-> "a", stamp |-> 1] ELSE NoDavRow]
DavTree == [n \in DavIds |->
    CASE n = d1 -> [base |-> kb1, parent |-> kb1, name |-> "a", kind |-> "document", stamp |-> 1]
      [] n = d2 -> [base |-> kb1, parent |-> kb1, name |-> "dir", kind |-> "collection", stamp |-> 1]
      [] OTHER -> NoDavRow]
DavReaders == [n \in DavIds |-> IF n = d2 THEN {owner} ELSE DavPeople]

AskOf(method, path, dest, by, cond) ==
    [method |-> method, path |-> path, dest |-> dest, by |-> by, cond |-> cond]
Document == <<"a", "a">>
Folder1 == <<"a", "dir">>
Good == {<<>>, <<"a">>, <<"b">>, Document, Folder1, <<"a", "dir", "a">>, <<"a", "no", "a">>}
Odd == {<<"a", "b.exe">>, <<"a", "..">>, <<"a", ".probe">>}

Anything ==
    {AskOf(m, p, <<>>, owner, "none") : m \in Methods \ {"MOVE", "save"}, p \in Good \cup Odd}
    \cup {AskOf("MOVE", p, q, owner, "none") :
          p \in {<<>>, <<"a">>, Document, Folder1}, q \in Good \cup (Odd \ {<<"a", ".probe">>})}
    \cup {AskOf(m, p, <<"a", "c">>, clerk, "none") : m \in Methods, p \in {Folder1, <<"a", "dir", "a">>}}
    \cup {AskOf(m, Document, <<>>, by, "none") : m \in {"PUT", "save"}, by \in {guest, stranger}}
    \cup {AskOf("save", Document, <<>>, owner, "none")}
    \cup {AskOf(m, <<"a">>, <<"b">>, owner, c) : m \in {"MKCOL", "DELETE", "MOVE"}, c \in {"match", "nonematch"}}
Looks == {AskOf("GET", Document, <<>>, guest, "none")}
Conditional ==
    {AskOf(m, Document, <<"a", "b">>, owner, "match") : m \in {"PUT", "DELETE", "MOVE"}}
    \cup {AskOf("PUT", Document, <<>>, owner, "nonematch"), AskOf("DELETE", <<"a">>, <<>>, owner, "none")}

DavAsked == [r \in DavCalls |-> CASE r = v1 -> Looks [] r = v2 -> Anything [] OTHER -> Conditional]

\* They come in this order; only the last two overlap.
InTurn ==
    /\ dav[v2] # NotAsked => dav[v1].pc = "answered"
    /\ dav[v3] # NotAsked => dav[v2] # NotAsked
=============================================================================
