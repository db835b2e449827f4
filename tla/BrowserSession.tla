----------------------------- MODULE BrowserSession -----------------------------
(***************************************************************************)
(* Who a window of the browser is signed in as.  The token and its user    *)
(* are kept in the window's storage, the user once more in the page;       *)
(* answers arrive in any order and change them whatever session they       *)
(* belong to.  Tokens are numbers, each also standing for its user.        *)
(***************************************************************************)
EXTENDS Naturals, FiniteSets

CONSTANTS
    Windows,       \* the window of the sign-in and the one a tenant is opened in
    Popup,
    MaxTokens,     \* bound on the tokens the server gives
    BrowserCalls,  \* the calls, each once
    MaxLoads       \* bound on the page loads a user asks for

VARIABLES
    kept,       \* the storage of a window: token and user, 0 for none
    known,      \* user of the page
    place,      \* login, home (any page behind it); boot, opening; leaving; closed
    given,      \* tokens given
    aged,       \* tokens kept for more than a day
    webCall,    \* the calls under way
    pageLoads,
    foreign,    \* why the user kept need not be the token's: lent, late
    left,       \* how the last session of a window ended
    crossed     \* the answer to a session that was signed out changed the next

sessionVars == <<kept, known, place, given, aged, webCall, pageLoads, foreign, left, crossed>>

ASSUME BrowserAssumption == Popup \in Windows

SignedOut == [token |-> 0, user |-> 0]
NoWebCall == [does |-> "none", in |-> Popup, token |-> 0]
FreshCalls == {c \in BrowserCalls : webCall[c].does = "none"}
OfWindow(w, c) == webCall[c].in = w /\ webCall[c].does \notin {"none", "over"}
CallClosed(c) == [webCall EXCEPT ![c] = [NoWebCall EXCEPT !.does = "over"]]
Cut(calls, w) ==
    [c \in BrowserCalls |->
        IF OfWindow(w, c) THEN [NoWebCall EXCEPT !.does = "over"] ELSE calls[c]]
\* A switch that failed closes the window it opened, and what ran there.
ClosedWith(c) == IF webCall[c].does = "switch" THEN Cut(CallClosed(c), Popup) ELSE CallClosed(c)

\* clearSessionToken: the token, its age and the user.
ClearSessionToken(w, how) ==
    /\ kept' = [kept EXCEPT ![w] = SignedOut]
    /\ foreign' = [foreign EXCEPT ![w] = "no"]
    /\ left' = [left EXCEPT ![w] = IF kept[w].token # 0 THEN how ELSE @]
\* readSessionToken: a token of more than a day is cleared with its user.
TokenExpired(w) == kept[w].token \in aged
ReadSessionToken(w) == IF TokenExpired(w) THEN 0 ELSE kept[w].token
OrCleared(w) ==
    IF TokenExpired(w) THEN ClearSessionToken(w, "lost") ELSE UNCHANGED <<kept, foreign, left>>

\* apiClient.request begins: a page asks for something, or who the user is.
SendRequest(c, w, does) ==
    webCall' = [webCall EXCEPT ![c] = [does |-> does, in |-> w, token |-> ReadSessionToken(w)]]
StartRequest(c, w) ==
    /\ c \in FreshCalls /\ place[w] = "home"
    /\ SendRequest(c, w, "page") /\ OrCleared(w)
    /\ UNCHANGED <<known, place, given, aged, pageLoads, crossed>>

\* A page is loaded: what was under way in the window is forgotten; with a token
\* the user kept is shown at once and /auth/me asked.
LoadPage(w) ==
    /\ OrCleared(w)
    /\ LET mine == ReadSessionToken(w)
           cut == Cut(webCall, w)
       IN /\ known' = [known EXCEPT ![w] = IF mine = 0 THEN 0 ELSE kept[w].user]
          /\ IF mine = 0 THEN webCall' = cut
             ELSE \E c \in FreshCalls :
                     webCall' = [cut EXCEPT ![c] = [does |-> "me", in |-> w, token |-> mine]]
    /\ UNCHANGED <<given, aged, crossed>>
Reloaded(w) ==
    /\ place[w] \in {"login", "home"} /\ pageLoads < MaxLoads
    /\ pageLoads' = pageLoads + 1
    /\ LoadPage(w)
    /\ UNCHANGED place
\* The navigation that sign-out or the opener began.
LoadNext(w) ==
    /\ place[w] \in {"leaving", "opening"}
    /\ place' = [place EXCEPT ![w] = IF @ = "opening" THEN "home" ELSE "login"]
    /\ LoadPage(w)
    /\ UNCHANGED pageLoads
\* The layouts: without a user, and not waiting for one, to the sign-in.
Redirect(w) ==
    /\ place[w] = "home" /\ known[w] = 0
    /\ ~\E c \in BrowserCalls : OfWindow(w, c) /\ webCall[c].does = "me"
    /\ place' = [place EXCEPT ![w] = "login"]
    /\ UNCHANGED <<kept, known, given, aged, webCall, pageLoads, foreign, left, crossed>>

\* The form, or the ticket of a single sign-on in the address: neither sends the
\* token, and an answer signs in wherever the window is by then.
SendSignIn(c, w) ==
    /\ c \in FreshCalls /\ place[w] = "login"
    /\ webCall' = [webCall EXCEPT ![c] = [does |-> "signIn", in |-> w, token |-> 0]]
    /\ UNCHANGED <<kept, known, place, given, aged, pageLoads, foreign, left, crossed>>
SignedIn(c, w) ==
    /\ OfWindow(w, c) /\ webCall[c].does = "signIn" /\ given < MaxTokens
    /\ given' = given + 1
    /\ kept' = [kept EXCEPT ![w] = [token |-> given', user |-> given']]
    /\ known' = [known EXCEPT ![w] = given']
    /\ foreign' = [foreign EXCEPT ![w] = "no"]
    /\ left' = [left EXCEPT ![w] = IF kept[w].token # 0 THEN "replaced" ELSE @]
    /\ place' = [place EXCEPT ![w] = IF @ = "login" THEN "home" ELSE @]
    /\ webCall' = CallClosed(c)
    /\ UNCHANGED <<aged, pageLoads, crossed>>

\* switchToTenant: the window is opened first, a new one with a copy of the
\* storage, and gets the token of the answer, not its user.
OpenTenant(c, w) ==
    /\ c \in FreshCalls /\ place[w] = "home" /\ w # Popup /\ place[Popup] # "boot"
    /\ SendRequest(c, w, "switch")
    /\ IF place[Popup] = "closed"
       THEN LET gone == TokenExpired(w)
            IN /\ place' = [place EXCEPT ![Popup] = "boot"]
               /\ kept' = [kept EXCEPT ![Popup] = kept[w], ![w] = IF gone THEN SignedOut ELSE @]
               /\ foreign' = [foreign EXCEPT ![Popup] = "lent", ![w] = IF gone THEN "no" ELSE @]
               /\ left' = [left EXCEPT ![Popup] = "replaced", ![w] = IF gone THEN "lost" ELSE @]
       ELSE OrCleared(w) /\ UNCHANGED place
    /\ UNCHANGED <<known, given, aged, pageLoads, crossed>>
TenantOpened(c) ==
    /\ webCall[c].does = "switch" /\ webCall[c].token # 0 /\ given < MaxTokens
    /\ given' = given + 1
    /\ kept' = [kept EXCEPT ![Popup].token = given']
    /\ foreign' = [foreign EXCEPT ![Popup] = "lent"]
    /\ left' = [left EXCEPT ![Popup] = "replaced"]
    /\ place' = [place EXCEPT ![Popup] = "opening"]
    /\ webCall' = CallClosed(c)
    /\ UNCHANGED <<known, aged, pageLoads, crossed>>

\* The answer to an earlier token finds another one, after a sign-out that is over.
Crosses(c, w) ==
    left[w] = "logout" /\ place[w] # "leaving" /\ kept[w].token \notin {0, webCall[c].token}
\* refreshUser: the user is written whatever token is kept by now.
UserRefreshed(c, w) ==
    /\ OfWindow(w, c) /\ webCall[c].does = "me" /\ webCall[c].token # 0
    /\ kept' = [kept EXCEPT ![w].user = webCall[c].token]
    /\ known' = [known EXCEPT ![w] = webCall[c].token]
    /\ foreign' = [foreign EXCEPT ![w] = IF webCall[c].token = kept[w].token THEN "no" ELSE "late"]
    /\ crossed' = (crossed \/ Crosses(c, w))
    /\ webCall' = CallClosed(c)
    /\ UNCHANGED <<place, given, aged, pageLoads, left>>
\* A 401 clears the session kept by now; the page learns it only from
\* refreshUser, and the site then asks for a sign-in.
ApiUnauthorized(c, w) ==
    /\ OfWindow(w, c) /\ webCall[c].does \in {"page", "me", "switch"}
    /\ ClearSessionToken(w, "lost")
    /\ crossed' = (crossed \/ Crosses(c, w))
    /\ known' = IF webCall[c].does = "me" THEN [known EXCEPT ![w] = 0] ELSE known
    /\ \/ webCall[c].does # "switch" /\ UNCHANGED place
       \/ /\ webCall[c].does = "page" /\ place[w] = "home"
          /\ place' = [place EXCEPT ![w] = "login"]
       \/ webCall[c].does = "switch" /\ place' = [place EXCEPT ![Popup] = "closed"]
    /\ webCall' = ClosedWith(c)
    /\ UNCHANGED <<given, aged, pageLoads>>
\* Any other answer; a window opened for a tenant is closed again.
ApiAnswered(c, w) ==
    /\ OfWindow(w, c)
    /\ place' = IF webCall[c].does = "switch" THEN [place EXCEPT ![Popup] = "closed"] ELSE place
    /\ webCall' = ClosedWith(c)
    /\ UNCHANGED <<kept, known, given, aged, pageLoads, foreign, left, crossed>>

LogoutInPlace(w) ==  \* mutant: the sign-in is shown and no page loaded
    /\ place[w] = "home" /\ known[w] # 0
    /\ ClearSessionToken(w, "logout")
    /\ known' = [known EXCEPT ![w] = 0]
    /\ place' = [place EXCEPT ![w] = "login"]
    /\ UNCHANGED <<given, aged, webCall, pageLoads, crossed>>
\* destroySession: cleared, and the sign-in page is loaded.
Logout(w) ==
    /\ place[w] = "home" /\ known[w] # 0
    /\ ClearSessionToken(w, "logout")
    /\ known' = [known EXCEPT ![w] = 0]
    /\ place' = [place EXCEPT ![w] = "leaving"]
    /\ UNCHANGED <<given, aged, webCall, pageLoads, crossed>>
ADayPasses ==
    /\ \E t \in 1..given : aged' = 1..t /\ aged' # aged
    /\ UNCHANGED <<kept, known, place, given, webCall, pageLoads, foreign, left, crossed>>

BrowserInit ==
    /\ kept = [w \in Windows |-> SignedOut] /\ known = [w \in Windows |-> 0]
    /\ place = [w \in Windows |-> IF w = Popup THEN "closed" ELSE "login"]
    /\ given = 0 /\ aged = {} /\ pageLoads = 0
    /\ webCall = [c \in BrowserCalls |-> NoWebCall]
    /\ foreign = [w \in Windows |-> "no"] /\ left = [w \in Windows |-> "none"]
    /\ crossed = FALSE

BrowserNext ==
    \/ ADayPasses
    \/ \E w \in Windows :
          \/ Reloaded(w) \/ LoadNext(w) \/ Redirect(w) \/ Logout(w)
          \/ \E c \in BrowserCalls :
                \/ StartRequest(c, w) \/ SendSignIn(c, w) \/ SignedIn(c, w) \/ OpenTenant(c, w)
                \/ UserRefreshed(c, w) \/ ApiUnauthorized(c, w) \/ ApiAnswered(c, w)
    \/ \E c \in BrowserCalls : TenantOpened(c)

BrowserSpec == BrowserInit /\ [][BrowserNext]_sessionVars

SessionTypeOK ==
    /\ given \in 0..MaxTokens /\ aged \subseteq 1..given /\ pageLoads \in 0..MaxLoads
    /\ \A w \in Windows : kept[w].token <= given /\ kept[w].user <= given /\ known[w] <= given
    /\ \A c \in BrowserCalls : webCall[c].token <= given
\* The user kept beside a token is the token's, but for the opener's user in the
\* window of a tenant and for an answer of /auth/me that came too late; the page
\* shows that user; and what was asked before a sign-out never touches the next
\* session.
SessionsHold ==
    /\ \A w \in Windows : kept[w].token # 0 =>
          /\ foreign[w] = "no" => kept[w].user \in {0, kept[w].token}
          /\ place[w] \in {"login", "home"} => known[w] = kept[w].user
    /\ ~crossed
=============================================================================
