---------------------------- MODULE KnowledgeSearch ----------------------------
(***************************************************************************)
(* Calls of OpenViking over HTTP, with their attempts and what becomes of  *)
(* each kind of reply; and the search that is made of two of them:         *)
(* candidates from OpenViking, cut to what the user may read, then put in  *)
(* the order of a reranker of which only the address is configured.        *)
(*                                                                         *)
(* A reply is what comes back for one attempt: a status, a body that does  *)
(* not parse, the timer of the attempt, a connection that breaks.          *)
(***************************************************************************)
EXTENDS Naturals, Sequences, FiniteSets, Arrangements

CONSTANTS
    OvCalls,      \* calls
    CallKind,     \* what each of them is
    Hits,         \* resources OpenViking knows
    Readable,     \* the sets of them a user may read in the scope that is asked for
    Scores,       \* scores
    TopK,         \* how many hits a search wants
    Stage1TopK,   \* how many it asks for when it will rerank (20)
    RerankPaths   \* paths there are to try at the rerank endpoint, 0 for no endpoint

VARIABLES
    ovCall,       \* the calls: place, attempt, path or outer attempt, status of the error
    allowed,      \* what findAllowedUris told a call
    found,        \* the hits it has, each with its score
    opinion,      \* what the reranker said of its candidates
    executed,     \* how often OpenViking has done what a call asks for
    searchLog     \* rows of search_logs: the number of hits

ovVars == <<ovCall, allowed, found, opinion, executed, searchLog>>

Statuses == {"400", "401", "403", "404", "408", "429", "500", "502", "503", "504"}
Replies == {"ok", "empty", "notjson", "garbled", "timeout", "network"} \cup Statuses
OvKinds == {"find", "grep", "browse", "asset", "upload", "command"}

ASSUME SearchAssumption ==
    /\ CallKind \in [OvCalls -> OvKinds]
    /\ IsFiniteSet(Hits) /\ Readable \subseteq SUBSET Hits
    /\ Scores \subseteq Nat
    /\ TopK \in Nat \ {0} /\ Stage1TopK \in Nat /\ TopK <= Stage1TopK
    /\ RerankPaths \in Nat

OvAt(c, pc) == ovCall[c].pc = pc
OvPlace(pc, path) == [pc |-> pc, attempt |-> 0, path |-> path, status |-> "none"]

(***************************************************************************)
(* What the client makes of a reply: a value, or an error with a status    *)
(* and the word whether another attempt may help.                          *)
(***************************************************************************)
OvValue == [status |-> "200", retriable |-> FALSE, notJson |-> FALSE]
OvError(status, retriable) == [status |-> status, retriable |-> retriable, notJson |-> FALSE]

\* createHttpError.
RETRIABLE_STATUS_CODES == {"408", "429", "502", "503", "504"}
HttpError(status) ==
    OvError(CASE status = "408" -> "504" [] status = "500" -> "502" [] OTHER -> status,
          status \in RETRIABLE_STATUS_CODES)

\* normalizeError: the abort of the timer, or whatever fetch throws.
NormalizedError(reply) == OvError(IF reply = "timeout" THEN "504" ELSE "503", TRUE)

\* parseJsonResponse: an empty body is an empty object.
ParsedJson(reply) ==
    CASE reply = "notjson" -> [OvError("502", FALSE) EXCEPT !.notJson = TRUE]
      [] reply = "garbled" -> OvError("502", FALSE)
      [] OTHER -> OvValue

ResultOf(reply, body) ==
    CASE reply \in {"timeout", "network"} -> NormalizedError(reply)
      [] reply \in Statuses -> HttpError(reply)
      [] OTHER -> body

(***************************************************************************)
(* A request: its attempts, and where its call goes from there.            *)
(***************************************************************************)
\* What the callers pass as retryCount; who passes nothing makes one attempt.
RetryCount(c) ==
    CASE CallKind[c] \in {"find", "grep", "browse"} -> 1
      [] CallKind[c] = "asset" -> 2
      [] OTHER -> 0

\* OpenViking has done what was asked if it says so, has not if it says why not,
\* and may have otherwise.
Effect(c, reply) ==
    \/ reply \notin {"400", "401", "403", "404", "429"} /\ executed' = [executed EXCEPT ![c] = @ + 1]
    \/ reply \notin {"ok", "empty"} /\ UNCHANGED executed

OvAgain(c, result) == result.retriable /\ ovCall[c].attempt < RetryCount(c)
OvTryAgain(c) ==
    /\ ovCall' = [ovCall EXCEPT ![c].attempt = @ + 1]
    /\ UNCHANGED <<allowed, found, opinion, searchLog>>

OvGo(c, pc) == ovCall' = [ovCall EXCEPT ![c] = OvPlace(pc, 1)]
OvFailed(c, result) ==
    /\ ovCall' = [ovCall EXCEPT ![c] = [OvPlace("failed", 1) EXCEPT !.status = result.status]]
    /\ UNCHANGED <<allowed, found, opinion, searchLog>>

\* What OpenViking may answer a search: hits in any order, as many as were asked
\* for.  It was told the uris, but its answer is filtered all the same.
Asked(c) == IF CallKind[c] = "find" /\ RerankPaths > 0 THEN Stage1TopK ELSE TopK
Candidates(c) ==
    {hits \in UNION {[1..n -> [hit : Hits, score : Scores]] : n \in 0..Asked(c)} :
        \A i, j \in DOMAIN hits : hits[i].hit = hits[j].hit => i = j}
WithinScope(c, hits) == Filtered(hits, {i \in DOMAIN hits : hits[i].hit \in allowed[c]})

SearchFound(c) ==
    /\ \E hits \in Candidates(c) : found' = [found EXCEPT ![c] = WithinScope(c, hits)]
    /\ OvGo(c, IF RerankPaths > 0 /\ found'[c] # <<>> THEN "rerank" ELSE "log")
    /\ UNCHANGED <<allowed, opinion, searchLog>>
GrepFound(c) ==
    /\ \E hits \in Candidates(c) : found' = [found EXCEPT ![c] = WithinScope(c, hits)]
    /\ OvGo(c, "answered")
    /\ UNCHANGED <<allowed, opinion, searchLog>>

\* requestJson, for a search, a grep, a listing or a command.
RequestJson(c, reply) ==
    /\ OvAt(c, "request") /\ CallKind[c] \in {"find", "grep", "browse", "command"}
    /\ LET result == ResultOf(reply, ParsedJson(reply)) IN
        \/ OvAgain(c, result) /\ OvTryAgain(c)
        \/ ~OvAgain(c, result) /\ result # OvValue /\ OvFailed(c, result)
        \/ result = OvValue /\ CallKind[c] = "find" /\ SearchFound(c)
        \/ result = OvValue /\ CallKind[c] = "grep" /\ GrepFound(c)
        \/ result = OvValue /\ CallKind[c] \in {"browse", "command"}
           /\ OvGo(c, "answered") /\ UNCHANGED <<allowed, found, opinion, searchLog>>
    /\ Effect(c, reply)

\* requestFormData, for the temporary files.
RequestFormData(c, reply) ==
    /\ OvAt(c, "request") /\ CallKind[c] = "upload"
    /\ LET result == ResultOf(reply, ParsedJson(reply)) IN
        \/ OvAgain(c, result) /\ OvTryAgain(c)
        \/ ~OvAgain(c, result) /\ result # OvValue /\ OvFailed(c, result)
        \/ result = OvValue /\ OvGo(c, "answered") /\ UNCHANGED <<allowed, found, opinion, searchLog>>
    /\ Effect(c, reply)

\* requestReadableStream, for an asset: a body of any kind will do, but there
\* must be one.  loadAssetStreamWithRetry asks again for an asset that is not
\* found, with new attempts.
AssetAttempts == 3
RequestReadableStream(c, reply) ==
    /\ OvAt(c, "request") /\ CallKind[c] = "asset"
    /\ LET result == ResultOf(reply, IF reply = "empty" THEN HttpError("502") ELSE OvValue)
           anew == result.status = "404" /\ ovCall[c].path < AssetAttempts
       IN \/ OvAgain(c, result) /\ OvTryAgain(c)
          \/ ~OvAgain(c, result) /\ result # OvValue /\ ~anew /\ OvFailed(c, result)
          \/ /\ anew /\ ovCall' = [ovCall EXCEPT ![c] = OvPlace("request", @.path + 1)]
             /\ UNCHANGED <<allowed, found, opinion, searchLog>>
          \/ result = OvValue /\ OvGo(c, "answered") /\ UNCHANGED <<allowed, found, opinion, searchLog>>
    /\ Effect(c, reply)

(***************************************************************************)
(* find and grep.                                                          *)
(***************************************************************************)
StartFind(c) ==
    /\ OvAt(c, "none") /\ CallKind[c] = "find"
    /\ \E uris \in Readable : allowed' = [allowed EXCEPT ![c] = uris]
    /\ OvGo(c, "request")
    /\ UNCHANGED <<found, opinion, executed, searchLog>>

\* A grep in a scope where the user may read nothing is refused.
ScopeAccessible(uris) == uris # {}
StartGrep(c) ==
    /\ OvAt(c, "none") /\ CallKind[c] = "grep"
    /\ \E uris \in Readable :
          /\ allowed' = [allowed EXCEPT ![c] = uris]
          /\ OvGo(c, IF ScopeAccessible(uris) THEN "request" ELSE "refused")
    /\ UNCHANGED <<found, opinion, executed, searchLog>>

UploadTempFile(c) ==
    /\ OvAt(c, "none") /\ CallKind[c] = "upload"
    /\ OvGo(c, "request")
    /\ UNCHANGED <<allowed, found, opinion, executed, searchLog>>
StartOther(c) ==
    /\ OvAt(c, "none") /\ CallKind[c] \in {"browse", "asset", "command"}
    /\ OvGo(c, "request")
    /\ UNCHANGED <<allowed, found, opinion, executed, searchLog>>

\* resolveRerankScore: the reranker names documents by their index and may leave
\* some out, which keep the score they had.
NoScore == 1000
RerankScore(c, scores, i) == IF scores[i] = NoScore THEN found[c][i].score ELSE scores[i]
Rescored(c, scores) ==
    [i \in DOMAIN found[c] |-> [found[c][i] EXCEPT !.score = RerankScore(c, scores, i)]]

\* The sort keeps the order of equals.
Better(hits) ==
    {pair \in (DOMAIN hits) \X (DOMAIN hits) :
        \/ hits[pair[1]].score > hits[pair[2]].score
        \/ hits[pair[1]].score = hits[pair[2]].score /\ pair \in Earlier(hits)}
Descending(hits) == Arranged(hits, DOMAIN hits, Better(hits))

CutThenSorted(c, scores) == Descending(FirstOf(Rescored(c, scores), TopK))  \* the first, not the best
Reranked(c, scores) == FirstOf(Descending(Rescored(c, scores)), TopK)

\* requestRerank: the next path where this one is not a reranker; any other error
\* leaves the hits of the first stage as they were, all of them.  One attempt
\* more at each path changes nothing here.
ShouldTryNextTarget(result) == result.status = "404" \/ result.notJson
Rerank(c, reply) ==
    /\ OvAt(c, "rerank")
    /\ LET result == ResultOf(reply, ParsedJson(reply)) IN
        \/ /\ result = OvValue
           /\ \E scores \in [DOMAIN found[c] -> Scores \cup {NoScore}] :
                /\ found' = [found EXCEPT ![c] = Reranked(c, scores)]
                /\ opinion' = [opinion EXCEPT ![c] = Rescored(c, scores)]
           /\ OvGo(c, "log")
        \/ /\ ShouldTryNextTarget(result) /\ ovCall[c].path < RerankPaths
           /\ ovCall' = [ovCall EXCEPT ![c] = OvPlace("rerank", @.path + 1)]
           /\ UNCHANGED <<found, opinion>>
        \/ /\ result # OvValue /\ ~(ShouldTryNextTarget(result) /\ ovCall[c].path < RerankPaths)
           /\ OvGo(c, "log")
           /\ UNCHANGED <<found, opinion>>
    /\ UNCHANGED <<allowed, executed, searchLog>>

\* The log comes before the answer: without the row there is none.
LogSearch(c) ==
    /\ OvAt(c, "log")
    /\ \/ OvGo(c, "answered") /\ searchLog' = [searchLog EXCEPT ![c] = Append(@, Len(found[c]))]
       \/ OvGo(c, "failed") /\ UNCHANGED searchLog
    /\ UNCHANGED <<allowed, found, opinion, executed>>

(***************************************************************************)
(* The specification.                                                      *)
(***************************************************************************)
SearchInit ==
    /\ ovCall = [c \in OvCalls |-> OvPlace("none", 1)]
    /\ allowed = [c \in OvCalls |-> {}]
    /\ found = [c \in OvCalls |-> <<>>] /\ opinion = [c \in OvCalls |-> <<>>]
    /\ executed = [c \in OvCalls |-> 0] /\ searchLog = [c \in OvCalls |-> <<>>]

SearchNext ==
    \E c \in OvCalls :
        \/ StartFind(c) \/ StartGrep(c) \/ UploadTempFile(c) \/ StartOther(c) \/ LogSearch(c)
        \/ \E reply \in Replies :
              \/ RequestJson(c, reply) \/ RequestFormData(c, reply) \/ RequestReadableStream(c, reply)
              \/ Rerank(c, reply)

SearchSpec == SearchInit /\ [][SearchNext]_ovVars

(***************************************************************************)
(* Properties.                                                             *)
(***************************************************************************)
SearchTypeOK ==
    \A c \in OvCalls :
        /\ ovCall[c].pc \in {"none", "refused", "request", "rerank", "log", "answered", "failed"}
        /\ ovCall[c].attempt \in 0..2 /\ ovCall[c].status \in {"none"} \cup Statuses
        /\ ovCall[c].path \in 1..(IF CallKind[c] = "asset" THEN AssetAttempts ELSE RerankPaths + 1)
        /\ \A i \in DOMAIN found[c] : found[c][i].hit \in allowed[c]
        /\ Len(searchLog[c]) <= 1

\* A search whose reranker has spoken answers with the best of its candidates by
\* the reranker's word, best first, none of them left out for a worse one.
BestFirst ==
    \A c \in OvCalls : OvAt(c, "answered") /\ opinion[c] # <<>> =>
        /\ Len(found[c]) <= TopK /\ searchLog[c] = <<Len(found[c])>>
        /\ \A i \in DOMAIN found[c] : \E j \in DOMAIN opinion[c] : found[c][i] = opinion[c][j]
        /\ \A i \in DOMAIN found[c], j \in DOMAIN opinion[c] :
              found[c][i].score < opinion[c][j].score =>
                 \E k \in 1..i : found[c][k] = opinion[c][j]

\* What changes OpenViking is not done twice for one call, whatever the reply to
\* it was.
DoneOnce == \A c \in OvCalls : CallKind[c] \in {"upload", "command"} => executed[c] <= 1

\* A reranked answer is the best of its candidates, and what changes OpenViking
\* is not sent twice: the two promises of the calls of OpenViking.
SearchesHold == BestFirst /\ DoneOnce
=============================================================================
