----------------------------- MODULE MCLocalFiles -----------------------------
(***************************************************************************)
(* Files on a disk: those of an import on the server, one task of each     *)
(* kind of source and an upload of two files; and those a command of the   *)
(* client writes on a computer.                                            *)
(***************************************************************************)
EXTENDS ImportFiles, AgentSetup

CONSTANTS k1, kbDir, tenantDir, o1, o2, o3, o4, o5

TaskSource == [f \in Fetches |->
    CASE f = o1 -> "git" [] f = o2 -> "document" [] f = o3 -> "local" [] f = o4 -> "address" [] OTHER -> "other"]
FirstUpload == [f \in Fetches |-> <<k1, 1>>]
TwoFiles == [b \in Batches |-> 2]
UploadPaths ==
    [d \in {k1, kbDir, tenantDir, UploadRoot} |->
        CASE d = k1 -> kbDir [] d = kbDir -> tenantDir [] OTHER -> UploadRoot]
TwoAddresses == [f \in Fetches |-> IF f = o1 THEN 2 ELSE 1]

\* One run in a behaviour, the upload only beside the run that reads it, and the
\* sweep only beside a run with files.
OneFetch ==
    /\ Cardinality({f \in Fetches : fetch[f] # NotFetched}) <= 1
    /\ \A f \in Fetches : fetch[f] # NotFetched =>
          /\ dirs # {} \/ (\E b \in Batches : batch[b].pc # "none") => SourceOf[f] = "local"
          /\ sweep # NoSweep => SourceOf[f] \in {"local", "git"}

SomeKeys == [api : {0}, session : {0}, live : {TRUE}, jwt : BOOLEAN, url : {TRUE}]
SomeEditors == {<<"claude">>, <<"codex">>, <<"claude", "codex">>}

\* A behaviour is about the keys of a profile, or about one kind of file.
SetupAims == {"keys", "json", "toml", "prompt"}
PlainSetup == setup.given = "none" /\ setup.prefers = "api" /\ ~setup.browser /\ ~setup.skillsToo
Aimed(aim) ==
    IF aim = "keys" THEN touches' = 0 /\ setupKills' = 0 /\ setup'.editors \in {<<>>, <<"claude", "codex">>}
    ELSE /\ PlainSetup' /\ profileKeys'.live = profileKeys.live
         /\ setup'.does \subseteq (IF aim = "prompt" THEN {"init"} ELSE {"setup"})
         /\ aim # "json" => json' = json
         /\ aim # "toml" => toml' = toml
         /\ IF aim = "prompt" THEN touches' + setupKills' <= 2 ELSE prompt' = prompt
===============================================================================
