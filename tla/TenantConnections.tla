-------------------------- MODULE TenantConnections --------------------------
(***************************************************************************)
(* The pool of connections to the control database, and who takes them: a  *)
(* request behind the tenant guard, a WebDAV request and the import worker *)
(* hold one for as long as they work, with its search_path set for their   *)
(* tenant, and borrow a second one for each query of a control table (the  *)
(* audit log, users, settings), whose repositories never use the first.    *)
(*                                                                         *)
(* A connection keeps its search_path when it goes back to the pool.  The  *)
(* tenants are of level SMALL, who want public, or MEDIUM, who want their  *)
(* schema.                                                                 *)
(***************************************************************************)
EXTENDS Naturals

CONSTANTS
    Callers,      \* requests and worker invocations in flight
    Connections,  \* the pool
    Nobody,       \* a connection in the pool is held by nobody,
    Lost,         \* one that will not come back by Lost
    NoConnection,
    Public,       \* the search_path of a new connection
    SchemaOf,     \* the search_path of each caller's tenant
    Guarded,      \* callers that come through the tenant guard
    Checked,      \* of those, the ones with another guard behind it
    Worker,       \* invocations of the import worker
    SetMayFail    \* the SET of a search_path may throw

VARIABLES
    holder,       \* who holds a connection
    searchPath,   \* the search_path of a connection
    caller        \* the callers: the place they are at, their connection

connVars == <<holder, searchPath, caller>>

ASSUME ConnectionsAssumption ==
    /\ Nobody \notin Callers /\ Lost \notin Callers
    /\ NoConnection \notin Connections
    /\ Checked \subseteq Guarded /\ Worker \cap Guarded = {}
    /\ SetMayFail \in BOOLEAN

Away == [pc |-> "away", connection |-> NoConnection]
Waits(r, pc) == caller[r].pc = pc
Free == {c \in Connections : holder[c] = Nobody}
Leave(r) == caller' = [caller EXCEPT ![r] = Away]
Take(r, c) == holder' = [holder EXCEPT ![c] = r]
Drop(r) == holder' = [holder EXCEPT ![caller[r].connection] = Nobody]
Forget(r) == holder' = [holder EXCEPT ![caller[r].connection] = Lost]

\* canActivate, attachTenantContext, createTenantTaskContext: a worker of a
\* SMALL tenant takes no connection of its own.
OwnConnection(r) == ~(r \in Worker /\ SchemaOf[r] = Public)
Arrive(r) ==
    /\ Waits(r, "away")
    /\ caller' = [caller EXCEPT ![r].pc = IF OwnConnection(r) THEN "connect" ELSE "work"]
    /\ UNCHANGED <<holder, searchPath>>

Acquire(r) ==
    /\ Waits(r, "connect")
    /\ \E c \in Free :
        /\ Take(r, c)
        /\ caller' = [caller EXCEPT ![r] = [pc |-> "set", connection |-> c]]
    /\ UNCHANGED searchPath

\* connectionTimeoutMillis: who waits too long for any connection gives up.
FirstTimeout(r) ==  \* a second connection is waited for without a limit
    /\ Free = {}
    /\ Waits(r, "connect") /\ Leave(r)
    /\ UNCHANGED <<holder, searchPath>>
Timeout(r) ==
    /\ Free = {}
    /\ \/ Waits(r, "connect") /\ Leave(r)
       \/ Waits(r, "borrow") /\ caller' = [caller EXCEPT ![r].pc = "leave"]
    /\ UNCHANGED <<holder, searchPath>>

\* SET search_path, to public too: the connection may come from another tenant.
SetSchemaOnly(r) ==  \* public is taken for granted
    /\ Waits(r, "set")
    /\ searchPath' = IF SchemaOf[r] = Public THEN searchPath
                     ELSE [searchPath EXCEPT ![caller[r].connection] = SchemaOf[r]]
    /\ caller' = [caller EXCEPT ![r].pc = IF r \in Guarded THEN "guards" ELSE "work"]
    /\ UNCHANGED holder
SetPath(r) ==
    /\ Waits(r, "set")
    /\ searchPath' = [searchPath EXCEPT ![caller[r].connection] = SchemaOf[r]]
    /\ caller' = [caller EXCEPT ![r].pc = IF r \in Guarded THEN "guards" ELSE "work"]
    /\ UNCHANGED holder

\* A SET that throws: nobody knows the connection yet, so nobody releases it.
SetFails(r) ==
    /\ Waits(r, "set") /\ SetMayFail
    /\ Forget(r)
    /\ Leave(r)
    /\ UNCHANGED searchPath

\* The guards behind the tenant guard: one that refuses ends the request
\* before any interceptor sees it.
Admit(r) ==
    /\ Waits(r, "guards")
    /\ caller' = [caller EXCEPT ![r].pc = "work"]
    /\ UNCHANGED <<holder, searchPath>>

Refuse(r) ==
    /\ Waits(r, "guards") /\ r \in Checked
    /\ Forget(r)
    /\ Leave(r)
    /\ UNCHANGED searchPath

\* A query of the tenant's tables on the own connection changes nothing here;
\* one of a control table waits for a second connection and gives it back.
Borrow(r) ==
    /\ Waits(r, "work")
    /\ caller' = [caller EXCEPT ![r].pc = "borrow"]
    /\ UNCHANGED <<holder, searchPath>>

Borrowed(r) ==
    /\ Waits(r, "borrow") /\ Free # {}
    /\ caller' = [caller EXCEPT ![r].pc = "leave"]
    /\ UNCHANGED <<holder, searchPath>>

\* finalize of the interceptor, finally of WebDAV and of the worker, which
\* alone sets the search_path back, if it can.
Release(r) ==
    /\ caller[r].pc \in {"work", "leave"}
    /\ IF ~OwnConnection(r) THEN UNCHANGED <<holder, searchPath>>
       ELSE /\ Drop(r)
            /\ \/ r \in Worker /\ searchPath' = [searchPath EXCEPT ![caller[r].connection] = Public]
               \/ UNCHANGED searchPath
    /\ Leave(r)

(***************************************************************************)
(* The specification.  A caller goes on; a timer for connections runs.     *)
(***************************************************************************)
ConnectionsInit ==
    /\ holder = [c \in Connections |-> Nobody]
    /\ searchPath = [c \in Connections |-> Public]
    /\ caller = [r \in Callers |-> Away]

Proceed(r) ==
    \/ Acquire(r) \/ Timeout(r) \/ SetPath(r) \/ SetFails(r)
    \/ Admit(r) \/ Refuse(r) \/ Borrowed(r) \/ Release(r)

ConnectionsNext == \E r \in Callers : Arrive(r) \/ Borrow(r) \/ Proceed(r)

ConnectionsSpec ==
    /\ ConnectionsInit /\ [][ConnectionsNext]_connVars
    /\ \A r \in Callers : WF_connVars(Proceed(r))

(***************************************************************************)
(* Properties.                                                             *)
(***************************************************************************)
ConnectionsTypeOK ==
    /\ holder \in [Connections -> Callers \cup {Nobody, Lost}]
    /\ searchPath \in [Connections -> {Public} \cup {SchemaOf[r] : r \in Callers}]
    /\ caller \in [Callers -> [pc : {"away", "connect", "set", "guards", "work", "borrow", "leave"},
                               connection : Connections \cup {NoConnection}]]

\* Whoever used a connection before, and whatever search_path it left there:
\* who works on a connection of its own finds its own schema.
OwnSchemaFirst ==
    \A r \in Callers : caller[r].pc \in {"guards", "work", "borrow", "leave"} /\ OwnConnection(r)
        => /\ holder[caller[r].connection] = r
           /\ searchPath[caller[r].connection] = SchemaOf[r]

\* Callers that hold one connection each and wait for another, with none left,
\* nevertheless come to an end.
CallersEnd == \A r \in Callers : caller[r].pc # "away" ~> caller[r].pc = "away"
=============================================================================
