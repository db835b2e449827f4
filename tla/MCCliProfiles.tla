----------------------------- MODULE MCCliProfiles -----------------------------
(***************************************************************************)
(* Instances of CliProfiles for TLC: commands of each kind on the profile  *)
(* p1, an upload on p2.                                                    *)
(***************************************************************************)
EXTENDS CliProfiles

CONSTANTS p1, p2, t1, t2, t3, t4, login, sso, configure, call, sendFile, token, clientKey, keySet, logout

CliKinds == [c \in Commands |->
    CASE c = login -> "login" [] c = sso -> "sso" [] c = configure -> "configure"
      [] c = call -> "call" [] c = sendFile -> "upload" [] c = token -> "token"
      [] c = clientKey -> "client" [] c = keySet -> "set" [] OTHER -> "logout"]
CliProfilesOf == [c \in Commands |-> IF c = sendFile THEN p2 ELSE p1]
FirstTicket == [c \in Commands |-> t1]
\* One person at the provider, and one in the directory.
CONSTANTS i1, i2
TwoPersons == [l \in SignIns |-> IF l \in ByDirectory THEN i2 ELSE i1]
AnyEntries == [l \in SignIns |-> SUBSET Identities]

\* Signed in, with an exchanged token that outlives none of it; and a key.
Empty == [s \in SlotNames |-> 0]
OneFile == {[p \in Profiles |->
    IF p = p1 THEN [Empty EXCEPT !["access"] = 3, !["refresh"] = 4, !["capability"] = 4]
    ELSE [Empty EXCEPT !["session"] = 3, !["key"] = 4]]}

\* Two commands and one ticket in a behaviour.
TwoCommands ==
    /\ Cardinality({c \in Commands : cmd[c].pc # "none"}) <= 2
    /\ \A l \in SignIns \ {t1} : SignInAt(l, "code")
CliSpecOfTwo == CliInit /\ [][CliNext /\ TwoCommands']_cliVars
=============================================================================
