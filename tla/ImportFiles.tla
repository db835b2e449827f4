------------------------------ MODULE ImportFiles ------------------------------
(***************************************************************************)
(* How the worker gets hold of what a task imports, and what that leaves   *)
(* on the server's disk: the uploads of local tasks, the archives of git   *)
(* tasks, and the retention that removes both by age.                      *)
(*                                                                         *)
(* ImportTasks has the tasks' rows and their races; here a run is one      *)
(* invocation of processTask after its UPDATE to RUNNING, and the rows are *)
(* left out.  Nobody cancels or deletes a task meanwhile.                  *)
(***************************************************************************)
EXTENDS Naturals, FiniteSets

CONSTANTS
    Batches, FilesIn,     \* uploads, each a directory, and how many files each brings
    BaseDirs, TenantDirs, \* the directories of knowledge bases and of tenants
    UploadRoot,           \* openviking-local-imports
    InDir,                \* the directory each of them is in
    Fetches, SourceOf,    \* tasks, and what kind of source each has
    UploadOf,             \* the file of a local task: its upload and number
    AddressesOf,          \* how many addresses a task may name: its own and the fallbacks
    KeepsUploads,         \* LOCAL_IMPORT_KEEP_FILES_AFTER_DONE
    Retention,            \* LOCAL_IMPORT_RETENTION_DAYS, in the unit of the clock
    ArchiveDir,           \* openviking-git-archives
    MaxTries, MaxDiskTime, MaxDiskCrashes  \* bounds: runs of a task, the clock, restarts

VARIABLES
    diskTime,    \* the clock
    onDisk,      \* files: when each was last written, 0 for none
    dirs,        \* directories below the root of uploads
    batch,       \* the calls of createLocalUpload
    fetch,       \* the runs
    sweep,       \* cleanupExpiredManagedFiles
    strays,      \* files that only the retention will remove
    hollowed,    \* uploads that lost files with a directory found empty before they came
    diskCrashes

diskVars == <<diskTime, onDisk, dirs, batch, fetch, sweep, strays, hollowed, diskCrashes>>

SourceKinds == {"git", "document", "local", "address", "other"}
UploadFiles == UNION {{b} \X (1 .. FilesIn[b]) : b \in Batches}
Archives == Fetches \X (1 .. MaxTries) \X {"api", "cli"}
Folders == Batches \cup BaseDirs \cup TenantDirs
UpFrom(d) == {d, InDir[d], InDir[InDir[d]]} \ {UploadRoot}
DirsBelow(d) == {e \in dirs : d \in UpFrom(e)}
Addresses(f) == 1 .. AddressesOf[f]
FilesOf(b) == {b} \X (1 .. FilesIn[b])

ASSUME ImportFilesAssumption ==
    /\ FilesIn \in [Batches -> Nat \ {0}]
    /\ SourceOf \in [Fetches -> SourceKinds]
    /\ \A f \in Fetches : SourceOf[f] = "local" => UploadOf[f] \in UploadFiles
    /\ AddressesOf \in [Fetches -> Nat \ {0}]
    /\ \A f \in Fetches : SourceOf[f] # "git" => AddressesOf[f] = 1
    /\ Retention \in Nat \ {0} /\ KeepsUploads \in BOOLEAN
    /\ MaxTries \in Nat \ {0} /\ MaxDiskTime \in Nat /\ MaxDiskCrashes \in Nat
    /\ Batches \cap (BaseDirs \cup TenantDirs) = {} /\ BaseDirs \cap TenantDirs = {}
    /\ {UploadRoot, ArchiveDir} \cap Folders = {} /\ UploadRoot # ArchiveDir
    /\ InDir \in [Folders \cup {UploadRoot} -> BaseDirs \cup TenantDirs \cup {UploadRoot}]
    /\ \A b \in Batches : InDir[b] \in BaseDirs
    /\ \A d \in BaseDirs : InDir[d] \in TenantDirs
    /\ \A d \in TenantDirs \cup {UploadRoot} : InDir[d] = UploadRoot

(***************************************************************************)
(* An upload: the files one after the other in a new directory, under that *)
(* of its tenant and its knowledge base, then the tasks in a transaction;  *)
(* what fails takes back the files that are whole.                         *)
(***************************************************************************)
NotUploaded == [pc |-> "none", next |-> 1, since |-> 0]
BatchAt(b, pc) == batch[b].pc = pc
BatchGoto(b, pc) == batch' = [batch EXCEPT ![b].pc = pc]

\* mkdir makes what is missing of the path, from above; it may not get to the end.
MakeParents(b) ==
    /\ BatchAt(b, "none")
    /\ \E d \in UpFrom(InDir[b]) : dirs' = dirs \cup UpFrom(d)
    /\ UNCHANGED <<diskTime, onDisk, batch, fetch, sweep, strays, hollowed, diskCrashes>>

SaveFiles(b) ==
    /\ BatchAt(b, "none")
    /\ batch' = [batch EXCEPT ![b] = [pc |-> "writing", next |-> 1, since |-> diskTime]]
    /\ dirs' = dirs \cup UpFrom(b)
    /\ UNCHANGED <<diskTime, onDisk, fetch, sweep, strays, hollowed, diskCrashes>>

\* Has the sweep found a directory empty that this upload writes below?
MeetsSweep(b) ==
    sweep' = IF sweep.pc = "empty" /\ sweep.at \in UpFrom(b)
             THEN [sweep EXCEPT !.into = @ \cup {b}] ELSE sweep

WriteFile(b) ==
    /\ BatchAt(b, "writing") /\ b \in dirs
    /\ onDisk' = [onDisk EXCEPT ![<<b, batch[b].next>>] = diskTime]
    /\ batch' = [batch EXCEPT ![b].next = @ + 1,
                              ![b].pc = IF batch[b].next = FilesIn[b] THEN "stored" ELSE "writing"]
    /\ MeetsSweep(b)
    /\ UNCHANGED <<diskTime, dirs, fetch, strays, hollowed, diskCrashes>>

\* The directory is gone, or the disk is full: part of the file may stay.
WriteFails(b) ==
    /\ BatchAt(b, "writing") /\ BatchGoto(b, "undo")
    /\ \/ UNCHANGED <<onDisk, strays, sweep>>
       \/ /\ b \in dirs
          /\ onDisk' = [onDisk EXCEPT ![<<b, batch[b].next>>] = diskTime]
          /\ strays' = strays \cup {<<b, batch[b].next>>}
          /\ MeetsSweep(b)
    /\ UNCHANGED <<diskTime, dirs, fetch, hollowed, diskCrashes>>

CreateTasks(b) ==
    /\ BatchAt(b, "stored")
    /\ BatchGoto(b, "created") \/ BatchGoto(b, "undo")
    /\ UNCHANGED <<diskTime, onDisk, dirs, fetch, sweep, strays, hollowed, diskCrashes>>

\* deleteBySourceUrl of each file that was stored: a failure is only logged.
UndoFiles(b) ==
    /\ BatchAt(b, "undo") /\ BatchGoto(b, "failed")
    /\ LET stored == {file \in FilesOf(b) : file[2] < batch[b].next} IN
       \E kept \in SUBSET {file \in stored : onDisk[file] # 0} :
          /\ onDisk' = [file \in DOMAIN onDisk |-> IF file \in stored \ kept THEN 0 ELSE onDisk[file]]
          /\ strays' = strays \cup kept
    /\ UNCHANGED <<diskTime, dirs, fetch, sweep, hollowed, diskCrashes>>

(***************************************************************************)
(* A run, up to the answer of the injection.                               *)
(***************************************************************************)
NotFetched == [pc |-> "idle", try |-> 1, way |-> "api", address |-> 0, answered |-> 0,
               since |-> 0, named |-> FALSE, injected |-> 0, lost |-> 0]
FetchAt(f, pc) == fetch[f].pc = pc
FetchGoto(f, pc) == fetch' = [fetch EXCEPT ![f].pc = pc]
ArchiveOf(f) == <<f, fetch[f].try, fetch[f].way>>
IsGit(f) == SourceOf[f] = "git"
OnlyFetches == UNCHANGED <<diskTime, dirs, batch, sweep, hollowed, diskCrashes>>
KeepsDisk == UNCHANGED <<onDisk, strays>>

\* An integration that no strategy supports is neither resolved nor injected.
FirstFetchPlace(f) ==
    CASE SourceOf[f] = "git" -> "api"
      [] SourceOf[f] = "document" -> "document"
      [] SourceOf[f] = "local" -> "read"
      [] SourceOf[f] = "address" -> "inject"
      [] OTHER -> "injected"
BeginFetch(f) ==
    /\ FetchAt(f, "idle")
    /\ SourceOf[f] = "local" => batch[UploadOf[f][1]].pc = "created"
    /\ fetch' = [fetch EXCEPT ![f] =
          [@ EXCEPT !.pc = FirstFetchPlace(f), !.way = "api", !.answered = 0,
                    !.address = IF SourceOf[f] = "address" THEN 1 ELSE 0,
                    !.injected = 0, !.lost = 0]]
    /\ KeepsDisk /\ OnlyFetches

\* The user's retry of a failed task.
FetchAgain(f) ==
    /\ FetchAt(f, "failed") /\ fetch[f].try < MaxTries
    /\ fetch' = [fetch EXCEPT ![f].pc = "idle", ![f].try = @ + 1]
    /\ KeepsDisk /\ OnlyFetches

\* resolveConfig of a repository: its archive by the interface, then by the
\* command line tool, then the addresses with the token in them.
NextWay(f) ==
    fetch' = [fetch EXCEPT ![f] =
        IF @.way = "api" THEN [@ EXCEPT !.pc = "cli", !.way = "cli"]
        ELSE [@ EXCEPT !.pc = "inject", !.address = 1]]

\* The address, the status, the length it announces or the time it takes; no tool.
WayRefused(f) ==
    /\ FetchAt(f, "api") \/ FetchAt(f, "cli")
    /\ NextWay(f)
    /\ KeepsDisk /\ OnlyFetches

OpenArchive(f) ==
    /\ FetchAt(f, "api") \/ FetchAt(f, "cli")
    /\ fetch' = [fetch EXCEPT ![f].pc = "stream", ![f].since = diskTime]
    /\ onDisk' = [onDisk EXCEPT ![ArchiveOf(f)] = diskTime]
    /\ UNCHANGED strays /\ OnlyFetches

\* What is written to a file that was removed is lost with it.
ArchiveChunk(f) ==
    /\ FetchAt(f, "stream") /\ onDisk[ArchiveOf(f)] # 0
    /\ onDisk' = [onDisk EXCEPT ![ArchiveOf(f)] = diskTime]
    /\ UNCHANGED <<fetch, strays>> /\ OnlyFetches

ArchiveEnds(f) ==
    /\ FetchAt(f, "stream") /\ FetchGoto(f, "name")
    /\ KeepsDisk /\ OnlyFetches

\* The stream breaks, or brings more than GIT_ARCHIVE_MAX_BYTES.
ArchiveBreaks(f) ==
    /\ FetchAt(f, "stream") /\ NextWay(f)
    /\ onDisk' = [onDisk EXCEPT ![ArchiveOf(f)] = 0]
    /\ UNCHANGED strays /\ OnlyFetches

\* resolveConfig of a document: token, title (or node) and content.
DocumentAnswers(f) ==
    /\ FetchAt(f, "document")
    /\ fetch' = [fetch EXCEPT ![f].answered = @ + 1, ![f].pc = IF fetch[f].answered = 2 THEN "name" ELSE @]
    /\ KeepsDisk /\ OnlyFetches
DocumentRefused(f) ==
    /\ FetchAt(f, "document") /\ FetchGoto(f, "failed")
    /\ KeepsDisk /\ OnlyFetches

\* rememberTaskSourceName: an UPDATE, once; when it throws, the archive stays.
RememberName(f) ==
    /\ FetchAt(f, "name")
    /\ fetch' = [fetch EXCEPT ![f].pc = "send", ![f].named = TRUE]
    /\ KeepsDisk /\ OnlyFetches
NameLost(f) ==
    /\ FetchAt(f, "name") /\ ~fetch[f].named /\ FetchGoto(f, "failed")
    /\ strays' = IF IsGit(f) /\ onDisk[ArchiveOf(f)] # 0 THEN strays \cup {ArchiveOf(f)} ELSE strays
    /\ UNCHANGED onDisk /\ OnlyFetches

\* uploadLocalTempFile reads the whole file first.
ReadUpload(f) ==
    /\ FetchAt(f, "read")
    /\ FetchGoto(f, IF onDisk[UploadOf[f]] # 0 THEN "send" ELSE "failed")
    /\ KeepsDisk /\ OnlyFetches

\* temp_upload: an archive is read while it is sent, and removed either way.
SendTempFile(f) ==
    /\ FetchAt(f, "send")
    /\ \/ (IsGit(f) => onDisk[ArchiveOf(f)] # 0) /\ FetchGoto(f, "inject")
       \/ FetchGoto(f, "failed")
    /\ onDisk' = IF IsGit(f) THEN [onDisk EXCEPT ![ArchiveOf(f)] = 0] ELSE onDisk
    /\ UNCHANGED strays /\ OnlyFetches

\* injectResourceWithPaths: with the temporary file (address 0), or the addresses
\* one after the other until OpenViking takes one; an answer that does not come
\* in time may be that of a request it has taken.
InjectFetched(f) ==
    /\ FetchAt(f, "inject")
    /\ LET more == fetch[f].address \in Addresses(f) \ {AddressesOf[f]}
           next == [fetch[f] EXCEPT !.pc = IF more THEN "inject" ELSE "failed",
                                    !.address = IF more THEN @ + 1 ELSE @]
       IN \E run \in {[fetch[f] EXCEPT !.pc = "injected", !.injected = @ + 1],
                      next,
                      [next EXCEPT !.injected = @ + 1, !.lost = @ + 1]} :
             fetch' = [fetch EXCEPT ![f] = run]
    /\ KeepsDisk /\ OnlyFetches

\* What follows may throw; else the task is done and cleanupLocalFileAfterDone
\* removes its upload.
FinishFetch(f) ==
    /\ FetchAt(f, "injected") /\ FetchGoto(f, "done")
    /\ \/ /\ SourceOf[f] = "local" /\ ~KeepsUploads
          /\ \/ onDisk' = [onDisk EXCEPT ![UploadOf[f]] = 0] /\ UNCHANGED strays
             \/ onDisk[UploadOf[f]] # 0 /\ strays' = strays \cup {UploadOf[f]} /\ UNCHANGED onDisk
       \/ (SourceOf[f] = "local" => KeepsUploads) /\ KeepsDisk
    /\ OnlyFetches
FinishThrows(f) ==
    /\ FetchAt(f, "injected") /\ FetchGoto(f, "failed")
    /\ KeepsDisk /\ OnlyFetches

(***************************************************************************)
(* Retention: a walk down from the root of uploads, then the archives.  It *)
(* lists each directory when it gets there, takes the old files, goes down *)
(* into the directories, and looks again, as one that is empty then goes.  *)
(***************************************************************************)
NoSweep == [pc |-> "off", cutoff |-> 0, at |-> ArchiveDir, todo |-> {}, files |-> {}, into |-> {}]
FilesUnder(d) == IF d = ArchiveDir THEN Archives ELSE IF d \in Batches THEN FilesOf(d) ELSE {}
OnDiskIn(files) == {file \in files : onDisk[file] # 0}
DirsIn(d) == {e \in Folders : InDir[e] = d}
SweepAlone == UNCHANGED <<diskTime, batch, fetch, diskCrashes>>
SweepChangesNothing == UNCHANGED <<onDisk, dirs, strays, hollowed>> /\ SweepAlone

SweepStarts ==
    /\ sweep.pc = "off"
    /\ sweep' = [NoSweep EXCEPT !.pc = "list", !.at = UploadRoot,
                                !.cutoff = IF diskTime > Retention THEN diskTime - Retention ELSE 0]
    /\ SweepChangesNothing

\* Back in the directory above, or on to the archives.
SweepGoesUp ==
    IF sweep.at = ArchiveDir THEN sweep' = NoSweep
    ELSE IF sweep.at = UploadRoot THEN sweep' = [sweep EXCEPT !.pc = "list", !.at = ArchiveDir]
    ELSE sweep' = [sweep EXCEPT !.pc = "entries", !.at = InDir[@]]

\* A directory that cannot be listed, or is gone, is passed over.
SweepLists ==
    /\ sweep.pc = "list"
    /\ \/ sweep' = [sweep EXCEPT !.pc = "entries", !.todo = @ \cup (DirsIn(sweep.at) \cap dirs),
                                   !.files = OnDiskIn(FilesUnder(sweep.at))]
       \/ SweepGoesUp
    /\ SweepChangesNothing

SweepEnters ==
    /\ sweep.pc = "entries"
    /\ \E d \in sweep.todo \cap DirsIn(sweep.at) :
          sweep' = [sweep EXCEPT !.pc = "list", !.at = d, !.todo = @ \ {d}]
    /\ SweepChangesNothing

\* A file that stat does not find, or finds young, stays.
SweepFile ==
    /\ sweep.pc = "entries"
    /\ \E file \in sweep.files :
          /\ sweep' = [sweep EXCEPT !.files = @ \ {file}]
          /\ \/ /\ onDisk[file] <= sweep.cutoff
                /\ onDisk' = [onDisk EXCEPT ![file] = 0] /\ strays' = strays \ {file}
             \/ KeepsDisk
    /\ UNCHANGED <<dirs, hollowed>> /\ SweepAlone

\* rm of a file throws: the cleanup is given up.
SweepThrows ==
    /\ sweep.pc = "entries" /\ sweep.files # {}
    /\ sweep' = NoSweep
    /\ SweepChangesNothing

Bare(d) == DirsIn(d) \cap dirs = {} /\ OnDiskIn(FilesUnder(d)) = {}
\* A mutant: only files count.
BareOfFiles(d) == OnDiskIn(FilesUnder(d)) = {}

\* Is it empty?  One that cannot be listed now counts as empty.
SweepLooks ==
    /\ sweep.pc = "entries" /\ sweep.files = {} /\ sweep.todo \cap DirsIn(sweep.at) = {}
    /\ \/ sweep.at \in Folders /\ Bare(sweep.at) /\ sweep' = [sweep EXCEPT !.pc = "empty", !.into = {}]
       \/ /\ sweep.at \in Folders
          /\ sweep' = [sweep EXCEPT !.pc = "empty", !.into = {b \in Batches : sweep.at \in UpFrom(b)}]
       \/ (sweep.at \in Folders => ~Bare(sweep.at)) /\ SweepGoesUp
    /\ SweepChangesNothing

\* Then it is removed with whatever has come into it meanwhile, on any level;
\* rm may throw half way, which ends the cleanup.
SweepRemoves ==
    /\ sweep.pc = "empty"
    /\ \E gone \in SUBSET DirsBelow(sweep.at),
          lost \in SUBSET OnDiskIn(UNION {FilesUnder(d) : d \in DirsBelow(sweep.at)}) :
          /\ \A d \in gone : DirsBelow(d) \subseteq gone /\ OnDiskIn(FilesUnder(d)) \subseteq lost
          /\ dirs' = dirs \ gone
          /\ onDisk' = [file \in DOMAIN onDisk |-> IF file \in lost THEN 0 ELSE onDisk[file]]
          /\ strays' = strays \ lost
          /\ hollowed' = hollowed \cup {b \in sweep.into : FilesOf(b) \cap lost # {}}
          /\ IF sweep.at \in dirs \ gone THEN sweep' = NoSweep ELSE SweepGoesUp
    /\ SweepAlone

(***************************************************************************)
(* The clock, and a restart: runs are queued again (recoverZombieTasks),   *)
(* uploads are gone with their requests.                                   *)
(***************************************************************************)
DiskTick ==
    /\ diskTime < MaxDiskTime /\ diskTime' = diskTime + 1
    /\ UNCHANGED <<onDisk, dirs, batch, fetch, sweep, strays, hollowed, diskCrashes>>

Resting == {"idle", "done", "failed"}
InHand(f) == IsGit(f) /\ fetch[f].pc \in {"stream", "name", "send"}
DiskCrash ==
    /\ diskCrashes < MaxDiskCrashes /\ diskCrashes' = diskCrashes + 1
    /\ \A f \in Fetches : fetch[f].pc \notin Resting => fetch[f].try < MaxTries
    /\ fetch' = [f \in Fetches |->
          IF fetch[f].pc \in Resting THEN fetch[f]
          ELSE [fetch[f] EXCEPT !.pc = "idle", !.try = @ + 1]]
    /\ batch' = [b \in Batches |->
          IF batch[b].pc \in {"writing", "stored", "undo"} THEN [batch[b] EXCEPT !.pc = "failed"] ELSE batch[b]]
    /\ strays' = strays \cup
          {file \in DOMAIN onDisk : onDisk[file] # 0 /\
              \/ \E f \in Fetches : InHand(f) /\ file = ArchiveOf(f)
              \/ \E b \in Batches : batch[b].pc \in {"writing", "stored", "undo"} /\ file \in FilesOf(b)}
    /\ sweep' = NoSweep
    /\ UNCHANGED <<diskTime, onDisk, dirs, hollowed>>

DiskInit ==
    /\ diskTime = 1 /\ diskCrashes = 0
    /\ onDisk = [file \in UploadFiles \cup Archives |-> 0]
    /\ dirs = {} /\ strays = {} /\ hollowed = {}
    /\ batch = [b \in Batches |-> NotUploaded]
    /\ fetch = [f \in Fetches |-> NotFetched]
    /\ sweep = NoSweep

Uploading(b) == MakeParents(b) \/ SaveFiles(b) \/ WriteFile(b) \/ WriteFails(b) \/ CreateTasks(b) \/ UndoFiles(b)
Fetching(f) ==
    \/ BeginFetch(f) \/ FetchAgain(f) \/ WayRefused(f) \/ OpenArchive(f) \/ ArchiveChunk(f)
    \/ ArchiveEnds(f) \/ ArchiveBreaks(f) \/ DocumentAnswers(f) \/ DocumentRefused(f)
    \/ RememberName(f) \/ NameLost(f) \/ ReadUpload(f) \/ SendTempFile(f) \/ InjectFetched(f)
    \/ FinishFetch(f) \/ FinishThrows(f)
Sweeping ==
    \/ SweepStarts \/ SweepLists \/ SweepEnters \/ SweepFile \/ SweepThrows \/ SweepLooks \/ SweepRemoves

DiskNext ==
    \/ \E b \in Batches : Uploading(b)
    \/ \E f \in Fetches : Fetching(f)
    \/ Sweeping \/ DiskTick \/ DiskCrash

DiskSpec == DiskInit /\ [][DiskNext]_diskVars

(***************************************************************************)
(* Properties.                                                             *)
(***************************************************************************)
FilesTypeOK ==
    /\ onDisk \in [UploadFiles \cup Archives -> 0 .. diskTime]
    /\ dirs \subseteq Folders /\ (\A d \in dirs : UpFrom(d) \subseteq dirs) /\ hollowed \subseteq Batches
    /\ strays \subseteq {file \in DOMAIN onDisk : onDisk[file] # 0}
    /\ sweep.cutoff < diskTime

\* docs/IMPORT_PIPELINE.md says that an archive is removed as soon as it was
\* sent: one on disk belongs to the run that writes or sends it, or it is one
\* that a restart or a name that could not be stored has left behind.
ArchivesOwned ==
    \A f \in Fetches, try \in 1 .. MaxTries, way \in {"api", "cli"} :
        onDisk[<<f, try, way>>] # 0 /\ <<f, try, way>> \notin strays =>
            InHand(f) /\ <<f, try, way>> = ArchiveOf(f)

\* An upload that was refused leaves none of its files, but for parts of files
\* and those that could not be removed.
RefusedLeavesNothing ==
    \A b \in Batches : BatchAt(b, "failed") => \A file \in FilesOf(b) : onDisk[file] # 0 => file \in strays

\* What a run has yet to read is there until the retention has passed: neither
\* the sweep nor the run of another task takes it earlier.  The exception is an
\* upload that wrote into a directory, its own, its knowledge base's or its
\* tenant's, between the sweep's finding that one empty (or being unable to
\* list it again) and its removal.
FilesLast ==
    /\ \A b \in Batches : BatchAt(b, "created") /\ diskTime < batch[b].since + Retention =>
          \A file \in FilesOf(b) :
             onDisk[file] # 0 \/ b \in hollowed
             \/ \E f \in Fetches : SourceOf[f] = "local" /\ UploadOf[f] = file /\ FetchAt(f, "done")
    /\ \A f \in Fetches : InHand(f) /\ diskTime < fetch[f].since + Retention => onDisk[ArchiveOf(f)] # 0

\* A task that is done was taken by OpenViking, but for one whose integration no
\* strategy supports; and it was taken twice only if an answer was lost.
DoneWasTaken ==
    \A f \in Fetches :
        /\ FetchAt(f, "done") /\ SourceOf[f] # "other" => fetch[f].injected >= 1
        /\ fetch[f].injected <= fetch[f].lost + 1

\* Together.
FilesHold == ArchivesOwned /\ RefusedLeavesNothing /\ FilesLast /\ DoneWasTaken
===============================================================================
