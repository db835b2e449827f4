------------------------------ MODULE CliProfiles ------------------------------
(***************************************************************************)
(* The command line client.  Each command is a process of its own: it      *)
(* reads the whole file of profiles, talks to the server with what it      *)
(* read, and writes the whole file back with one profile replaced.         *)
(***************************************************************************)
EXTENDS SignIn, Sequences, SequencesExt

CONSTANTS
    Commands,     \* processes
    CommandKind,  \* what each of them is
    Profiles,     \* names in the file
    ProfileOf,    \* the profile of a command
    TicketOf,     \* the sign-in whose ticket a command presents
    FirstFile,    \* files to begin with
    LocalSkew     \* isExpired: 30 s, in the unit of the clock

VARIABLES
    stateFile,    \* auth.json
    cmd           \* the commands

cliVars == <<signInVars, stateFile, cmd>>

CommandKinds == {"login", "sso", "configure", "call", "upload", "token", "session", "client", "set", "logout"}
CredentialOrder == <<"access", "capability", "session", "key">>
SlotNames == ToSet(CredentialOrder) \cup {"refresh"}

ASSUME CliAssumption ==
    /\ CommandKind \in [Commands -> CommandKinds] /\ ProfileOf \in [Commands -> Profiles]
    /\ TicketOf \in [Commands -> SignIns]
    /\ FirstFile \subseteq [Profiles -> [SlotNames -> Times]]
    /\ LocalSkew \in Nat

NoCredential == [slot |-> "none", until |-> 0]
NotStarted == [pc |-> "none", read |-> <<>>, mine |-> <<>>, sent |-> NoCredential, attempt |-> 1, alone |-> TRUE]
CmdAt(c, pc) == cmd[c].pc = pc
CommandsRunning == {c \in Commands : cmd[c].pc \notin {"none", "done", "failed", "lost"}}

\* isExpired, by the clock of the client.
IsExpired(until, skew) == now + skew >= until
Present(profile, s) == profile[s] # 0
StillGood(profile, s) == Present(profile, s) /\ (s = "key" \/ ~IsExpired(profile[s], LocalSkew))

\* applyProfileCredential: the first that will do.
ProfileCredential(profile) ==
    LET usable == SelectSeq(CredentialOrder, LAMBDA s : StillGood(profile, s))
    IN IF usable = <<>> THEN NoCredential ELSE [slot |-> usable[1], until |-> profile[usable[1]]]

\* saveProfile, on the file as it was read.
SaveOnly(c, profile) ==  \* the profile alone
    [p \in Profiles |-> IF p = ProfileOf[c] THEN profile ELSE [s \in SlotNames |-> 0]]
SaveProfile(c, profile) == [cmd[c].read EXCEPT ![ProfileOf[c]] = profile]

WithTokens(profile, pair) ==
    [profile EXCEPT !["access"] = pair.accessToken, !["refresh"] = pair.refreshToken]

EndCommand(c, pc) == cmd' = [cmd EXCEPT ![c].pc = pc]
CliFails(c) == EndCommand(c, "failed") /\ UNCHANGED <<signInVars, stateFile>>

(***************************************************************************)
(* The beginning: readProfile, and ensureAccessToken for what calls the    *)
(* interface.  A request takes its credential when it is sent.             *)
(***************************************************************************)
CanRefresh(profile) == Present(profile, "refresh") /\ ~IsExpired(profile["refresh"], 0)
FirstPlace(c, profile) ==
    CASE CommandKind[c] = "login" -> "login"
      [] CommandKind[c] = "configure" -> "browser"
      [] CommandKind[c] \in {"set", "logout"} -> "write"
      [] StillGood(profile, "access") \/ ~CanRefresh(profile) -> "sent"
      [] OTHER -> "refresh"

Start(c) ==
    /\ CmdAt(c, "none")
    /\ LET profile == stateFile[ProfileOf[c]] IN
       cmd' = [d \in Commands |->
            IF d = c THEN [pc |-> FirstPlace(c, profile), read |-> stateFile, mine |-> profile,
                           sent |-> ProfileCredential(profile), attempt |-> 1, alone |-> CommandsRunning = {}]
            ELSE IF d \in CommandsRunning THEN [cmd[d] EXCEPT !.alone = FALSE] ELSE cmd[d]]
    /\ UNCHANGED <<signInVars, stateFile>>

(***************************************************************************)
(* refreshAccessToken.  The server answers a good token of a user who is   *)
(* there with a new pair, in the envelope; the client looks for the tokens *)
(* at the top of what it gets.                                             *)
(***************************************************************************)
RefreshReply(c) ==
    IF cmd[c].mine["refresh"] > now THEN SuccessResponse(IssueTokenPair) ELSE [message |-> "refused"]
HasTokens(payload) == {"accessToken", "refreshToken"} \subseteq DOMAIN payload
RefreshAnswered(c) ==
    /\ CmdAt(c, "refresh")
    /\ LET payload == RefreshReply(c)
           mine == WithTokens(cmd[c].mine, payload)
       IN /\ stateFile' = IF HasTokens(payload) THEN SaveProfile(c, mine) ELSE stateFile
          /\ cmd' = [cmd EXCEPT ![c] =
                IF HasTokens(payload)
                THEN [@ EXCEPT !.pc = "sent", !.mine = mine, !.sent = ProfileCredential(mine)]
                ELSE [@ EXCEPT !.pc = "failed"]]
    /\ UNCHANGED signInVars

\* The credential of a request is good if it is a token the server still takes
\* (the key is asked for by some endpoints only); anyone may exchange a ticket.
Taken(c) ==
    \/ CommandKind[c] = "sso"
    \/ cmd[c].sent.slot # "none" /\ cmd[c].sent.until > now

\* A refusal: once more with a refreshed profile, where there is a refresh token.
Unauthorized(c) ==
    /\ CmdAt(c, "sent") /\ ~Taken(c)
    /\ LET again == /\ CommandKind[c] # "upload" /\ cmd[c].attempt = 1
                    /\ CanRefresh(cmd[c].mine)
       IN cmd' = [cmd EXCEPT ![c].pc = IF again THEN "refresh" ELSE "failed", ![c].attempt = 2]
    /\ UNCHANGED <<signInVars, stateFile>>

\* callApi and uploadMultipartApi for a command that keeps nothing.
Called(c) ==
    /\ CmdAt(c, "sent") /\ Taken(c) /\ CommandKind[c] \in {"call", "upload"}
    /\ EndCommand(c, "done")
    /\ UNCHANGED <<signInVars, stateFile>>

\* token-exchange, session-exchange and client-credentials with --save: the new
\* credential goes into the profile as it was read, before any refresh.
IssuedTo(c) ==
    CASE CommandKind[c] = "token" -> "capability"
      [] CommandKind[c] = "session" -> "session"
      [] CommandKind[c] = "client" -> "key"
Exchanged(c) ==
    /\ CmdAt(c, "sent") /\ Taken(c) /\ CommandKind[c] \in {"token", "session", "client"}
    /\ stateFile' = SaveProfile(c, [cmd[c].read[ProfileOf[c]] EXCEPT ![IssuedTo(c)] = now + AccessLife])
    /\ EndCommand(c, "done")
    /\ UNCHANGED signInVars

\* login: the profile is the server and the tokens, nothing else.
LoggedIn(c) ==
    /\ CmdAt(c, "login")
    /\ stateFile' = SaveProfile(c, WithTokens([s \in SlotNames |-> 0], SuccessResponse(IssueTokenPair).data))
    /\ EndCommand(c, "done")
    /\ UNCHANGED signInVars

\* sso, and configure with the ticket of its browser: the tokens in the ticket
\* are as old as the ticket.
TicketTokens(l) ==
    LET made == tickets[l] - TicketLife
    IN [accessToken |-> made + AccessLife, refreshToken |-> made + RefreshLife]
TicketExchanged(c) ==
    LET l == TicketOf[c] IN
    /\ \/ CmdAt(c, "sent") /\ CommandKind[c] = "sso"
       \/ CmdAt(c, "exchange")
    /\ SignInAt(l, "redirected") /\ Consume(l)
    /\ IF TicketGood(l)
       THEN /\ stateFile' = SaveProfile(c, WithTokens(cmd[c].read[ProfileOf[c]], TicketTokens(l)))
            /\ EndCommand(c, "done")
       ELSE EndCommand(c, "failed") /\ UNCHANGED stateFile

\* waitForOAuthCallback: the browser comes back, with a ticket or an error, or
\* the timer fires; the first of them settles it.
BrowserReturns(c) ==
    /\ CmdAt(c, "browser")
    /\ \/ SignInAt(TicketOf[c], "redirected") /\ EndCommand(c, "exchange")
       \/ SignInAt(TicketOf[c], "refused") /\ EndCommand(c, "failed")
    /\ UNCHANGED <<signInVars, stateFile>>
CallbackTimeout(c) == CmdAt(c, "browser") /\ CliFails(c)

\* removeProfileCredentials, and configure or config set without a browser, in
\* the step that read the file; but reading and writing are two calls, and
\* another process may come between.
LogOut(c) ==
    /\ CmdAt(c, "write") /\ CommandKind[c] = "logout"
    /\ stateFile' = SaveProfile(c, [s \in SlotNames |-> 0])
    /\ EndCommand(c, "done")
    /\ UNCHANGED signInVars
SetKey(c) ==
    /\ CmdAt(c, "write") /\ CommandKind[c] = "set"
    /\ stateFile' = SaveProfile(c, [cmd[c].read[ProfileOf[c]] EXCEPT !["key"] = MaxNow + 1])
    /\ EndCommand(c, "done")
    /\ UNCHANGED signInVars

\* The server or the network fails.
RequestLost(c) ==
    /\ cmd[c].pc \in {"login", "refresh", "sent", "exchange"}
    /\ EndCommand(c, "lost")
    /\ UNCHANGED <<signInVars, stateFile>>

CliInit ==
    /\ SignInInit
    /\ stateFile \in FirstFile
    /\ cmd = [c \in Commands |-> NotStarted]

RunCommand(c) ==
    \/ Start(c) \/ RefreshAnswered(c) \/ Unauthorized(c) \/ Called(c) \/ Exchanged(c) \/ LoggedIn(c)
    \/ TicketExchanged(c) \/ BrowserReturns(c) \/ CallbackTimeout(c) \/ LogOut(c) \/ SetKey(c)
    \/ RequestLost(c)

CliNext ==
    \/ SignInServer /\ UNCHANGED <<stateFile, cmd>>
    \/ (\E l \in SignIns : WebExchange(l)) /\ UNCHANGED <<stateFile, cmd>>
    \/ \E c \in Commands : RunCommand(c)

CliSpec == CliInit /\ [][CliNext]_cliVars

(***************************************************************************)
(* Properties.                                                             *)
(***************************************************************************)
CliTypeOK ==
    /\ SignInTypeOK
    /\ stateFile \in [Profiles -> [SlotNames -> Times]]
    /\ \A c \in Commands :
          /\ cmd[c].pc \in {"none", "login", "browser", "write", "refresh", "sent", "exchange", "done", "failed", "lost"}
          /\ cmd[c].attempt \in {1, 2}
          /\ cmd[c].sent.slot \in {"none"} \cup ToSet(CredentialOrder)

\* A command that no other has overlapped leaves the other profiles alone, and
\* its own as well where it fails.
AloneKeepsOthers ==
    [][\A c \in CommandsRunning : cmd[c].alone /\ cmd'[c].pc # cmd[c].pc =>
          /\ \A p \in Profiles \ {ProfileOf[c]} : stateFile'[p] = cmd[c].read[p]
          /\ cmd'[c].pc \in {"failed", "lost"} => stateFile' = cmd[c].read]_cliVars
=============================================================================
