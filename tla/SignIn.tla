--------------------------------- MODULE SignIn ---------------------------------
(***************************************************************************)
(* Signing in through an identity provider, an LDAP directory or the       *)
(* authorization form: the account of a first sign-in is looked up, then   *)
(* created, awaits apart; the tokens wait in the memory of the process     *)
(* under a ticket for one minute, and the browser carries the ticket to    *)
(* the web page or to the command line client that waits for it.  Of LDAP  *)
(* alone they are in the answer.                                           *)
(***************************************************************************)
EXTENDS Naturals, FiniteSets

CONSTANTS
    SignIns,      \* sign-ins in a browser; each makes one ticket at most
    ByForm,       \* those with a password on the authorization form
    ByDirectory,  \* those with a password of an LDAP directory
    Identities,   \* identities at the provider, each with a user name of its own
    IdentityOf,   \* whose sign-in it is, and whose password
    FoundUnder,   \* what the directory may have under the name that was typed
    TicketLife,   \* SsoTicketService: 60 s
    AccessLife,   \* ACCESS_TOKEN_EXPIRES_IN_SECONDS, in the same unit
    RefreshLife,  \* REFRESH_TOKEN_EXPIRES_IN_SECONDS
    MaxNow,       \* bound on the clock
    MaxReboots    \* bound on the restarts of the server

VARIABLES
    now,          \* Date.now()
    signIn,       \* where each sign-in is
    accounts,     \* users with an ssoId: how many of each identity
    tickets,      \* SsoTicketService.tickets: what is there, until when
    redeemed,     \* how often a ticket's tokens were handed out
    reboots

signInVars == <<now, signIn, accounts, tickets, redeemed, reboots>>

ASSUME SignInAssumption ==
    /\ IsFiniteSet(SignIns) /\ ByForm \subseteq SignIns /\ ByDirectory \subseteq SignIns \ ByForm
    /\ IdentityOf \in [SignIns -> Identities] /\ FoundUnder \in [SignIns -> SUBSET SUBSET Identities]
    /\ TicketLife \in Nat /\ AccessLife \in Nat \ {0} /\ RefreshLife \in Nat
    /\ AccessLife <= RefreshLife
    /\ MaxNow \in Nat /\ MaxReboots \in Nat

\* A date; no date, and no token, is 0.
Times == 0..(MaxNow + RefreshLife)
NoTicket == 0

SignInAt(l, pc) == signIn[l] = pc
SignInGo(l, pc) == signIn' = [signIn EXCEPT ![l] = pc]

(***************************************************************************)
(* The envelope: what a handler returns is wrapped unless it has the form  *)
(* of an envelope already, which what the handlers of /auth/login, refresh *)
(* and sso/exchange return has not.                                        *)
(***************************************************************************)
SuccessResponse(body) == [data |-> body]
IssueTokenPair == [accessToken |-> now + AccessLife, refreshToken |-> now + RefreshLife]

(***************************************************************************)
(* ssoCallback.  The provider may refuse the code, or not answer.          *)
(***************************************************************************)
ProviderRefuses(l) ==
    /\ SignInAt(l, "code") /\ l \notin ByDirectory
    /\ SignInGo(l, "refused")
    /\ UNCHANGED <<now, accounts, tickets, redeemed, reboots>>

(***************************************************************************)
(* ldapLogin.  The service account searches for the name; one entry must   *)
(* carry it, and the password is tried on that entry.  A directory that is *)
(* configured in part or does not answer refuses as well.                  *)
(***************************************************************************)
FindUser(l) ==
    /\ SignInAt(l, "code") /\ l \in ByDirectory
    /\ \E entries \in FoundUnder[l] :
          SignInGo(l, IF entries = {IdentityOf[l]} THEN "own entry"
                      ELSE IF \E i \in Identities : entries = {i} THEN "other's entry"
                      ELSE "refused")
    /\ UNCHANGED <<now, accounts, tickets, redeemed, reboots>>

VerifyUserPassword(l) ==
    /\ SignInAt(l, "own entry")
    /\ SignInGo(l, "verified")
    /\ UNCHANGED <<now, accounts, tickets, redeemed, reboots>>

DirectoryFails(l) ==
    /\ \/ l \in ByDirectory /\ SignInAt(l, "code")
       \/ SignInAt(l, "own entry") \/ SignInAt(l, "other's entry")
    /\ SignInGo(l, "refused")
    /\ UNCHANGED <<now, accounts, tickets, redeemed, reboots>>

\* syncUser: findAll, and the user among them.
FindAccount(l) ==
    /\ \/ SignInAt(l, "code") /\ l \notin ByForm \cup ByDirectory
       \/ SignInAt(l, "verified")
    /\ SignInGo(l, IF accounts[IdentityOf[l]] > 0 THEN "user" ELSE "unknown")
    /\ UNCHANGED <<now, accounts, tickets, redeemed, reboots>>

\* UsersService.create: the name is looked up, the empty password hashed.
FindName(l) ==
    /\ SignInAt(l, "unknown")
    /\ SignInGo(l, IF accounts[IdentityOf[l]] > 0 THEN "refused" ELSE "unnamed")
    /\ UNCHANGED <<now, accounts, tickets, redeemed, reboots>>

\* The row; uq_users_tenant_username lets a name in once.
InsertAccount(l) == accounts' = [accounts EXCEPT ![IdentityOf[l]] = @ + 1]
SaveAccountUnchecked(l) ==  \* without the unique index
    /\ SignInAt(l, "unnamed")
    /\ InsertAccount(l) /\ SignInGo(l, "user")
    /\ UNCHANGED <<now, tickets, redeemed, reboots>>
SaveAccount(l) ==
    /\ SignInAt(l, "unnamed")
    /\ \/ accounts[IdentityOf[l]] = 0 /\ InsertAccount(l) /\ SignInGo(l, "user")
       \/ accounts[IdentityOf[l]] > 0 /\ SignInGo(l, "refused") /\ UNCHANGED accounts
    /\ UNCHANGED <<now, tickets, redeemed, reboots>>

\* ssoAuthorizeSubmit: a login by password.
Authorize(l) ==
    /\ SignInAt(l, "code") /\ l \in ByForm
    /\ SignInGo(l, "user")
    /\ UNCHANGED <<now, accounts, tickets, redeemed, reboots>>

\* The tokens of ldapLogin are in its answer.
AnswerTokens(l) ==
    /\ SignInAt(l, "user") /\ l \in ByDirectory
    /\ SignInGo(l, "answered")
    /\ UNCHANGED <<now, accounts, tickets, redeemed, reboots>>

\* SsoTicketService.create, and the redirect with the ticket in it.
CreateTicket(l) ==
    /\ SignInAt(l, "user") /\ l \notin ByDirectory
    /\ tickets' = [tickets EXCEPT ![l] = now + TicketLife]
    /\ SignInGo(l, "redirected")
    /\ UNCHANGED <<now, accounts, redeemed, reboots>>

(***************************************************************************)
(* sso/exchange: a ticket that is there and fresh is handed out; either    *)
(* way it is gone.  Clients say what they do with the tokens.              *)
(***************************************************************************)
TicketGood(l) == tickets[l] # NoTicket /\ tickets[l] >= now
ConsumeKeeps(l) ==  \* a ticket that may be used until it expires
    /\ redeemed' = [redeemed EXCEPT ![l] = IF TicketGood(l) THEN @ + 1 ELSE @]
    /\ UNCHANGED <<now, signIn, accounts, tickets, reboots>>
Consume(l) ==
    /\ tickets' = [tickets EXCEPT ![l] = NoTicket]
    /\ redeemed' = [redeemed EXCEPT ![l] = IF TicketGood(l) THEN @ + 1 ELSE @]
    /\ UNCHANGED <<now, signIn, accounts, reboots>>

\* The web page exchanges the ticket of its own URL; its effect may run again
\* before the URL is replaced, and the page may be reloaded.
WebExchange(l) == SignInAt(l, "redirected") /\ Consume(l)

\* A ticket is in memory only, and so is a sign-in under way.
ServerReboots ==
    /\ reboots < MaxReboots
    /\ reboots' = reboots + 1
    /\ tickets' = [l \in SignIns |-> NoTicket]
    /\ signIn' = [l \in SignIns |->
          IF SignInAt(l, "redirected") \/ SignInAt(l, "answered") THEN signIn[l] ELSE "refused"]
    /\ UNCHANGED <<now, accounts, redeemed>>

ClockTicks == now < MaxNow /\ now' = now + 1 /\ UNCHANGED <<signIn, accounts, tickets, redeemed, reboots>>

SignInInit ==
    /\ now = 1
    /\ signIn = [l \in SignIns |-> "code"]
    /\ accounts \in [Identities -> {0, 1}]
    /\ tickets = [l \in SignIns |-> NoTicket]
    /\ redeemed = [l \in SignIns |-> 0] /\ reboots = 0

SignInServer ==
    \/ \E l \in SignIns :
          \/ ProviderRefuses(l) \/ DirectoryFails(l) \/ FindUser(l) \/ VerifyUserPassword(l)
          \/ FindAccount(l) \/ FindName(l) \/ SaveAccount(l)
          \/ Authorize(l) \/ AnswerTokens(l) \/ CreateTicket(l)
    \/ ServerReboots \/ ClockTicks

(***************************************************************************)
(* Properties.                                                             *)
(***************************************************************************)
SignInTypeOK ==
    /\ now \in 1..MaxNow /\ reboots \in 0..MaxReboots
    /\ signIn \in [SignIns -> {"code", "own entry", "other's entry", "verified", "unknown",
                              "unnamed", "user", "redirected", "answered", "refused"}]
    /\ accounts \in [Identities -> Nat] /\ redeemed \in [SignIns -> Nat]
    /\ tickets \in [SignIns -> Times]
    /\ \A l \in SignIns : tickets[l] # NoTicket => SignInAt(l, "redirected")

\* However many first sign-ins of one person overlap, the person has one account
\* in the end; and a ticket, whoever presents it and however often, gives out its
\* tokens once (docs/API_REFERENCE.md:190).
OnceEach ==
    /\ \A i \in Identities : accounts[i] <= 1
    /\ \A l \in SignIns : redeemed[l] <= 1
=============================================================================
