------------------------------ MODULE SyncHandles ------------------------------
(***************************************************************************)
(* Handles of sync objects for a 32-bit program (wine/unix/unix_wow64.c).  *)
(* The core names a sync object by its address, which it may take again    *)
(* for a later one (core/api/query.mm); the table gives each a handle.     *)
(* Creation and deletion each make several calls, a step each here: the    *)
(* table's lock and the core's are held for a call only.                   *)
(***************************************************************************)
EXTENDS LowMemory

CONSTANTS
    SyncCallers,  \* threads
    Addresses,    \* of sync objects
    MaxSyncs      \* sync objects made in all

VARIABLES
    syncs,    \* the table: handle -> address, or NoSync
    objects,  \* in the core: address -> the sync object there, or 0
    created,  \* sync objects made, numbered in that order
    during,   \* what each thread is in the middle of
    given     \* handles the program has: of which sync object
handlesVars == <<syncs, objects, created, during, given>>

NotInSync == [at |-> "program"]
NoSync == 0
Handles == 1..MaxSyncs

HandlesInit ==
    /\ syncs = [h \in Handles |-> NoSync]
    /\ objects = [a \in Addresses |-> 0]
    /\ created = 0
    /\ during = [t \in SyncCallers |-> NotInSync]
    /\ given = [h \in Handles |-> 0]

\* glFenceSync, in the core: an object at some free address.
CreateSync(t, a) ==
    /\ during[t] = NotInSync /\ created < MaxSyncs /\ objects[a] = 0
    /\ created' = created + 1
    /\ objects' = [objects EXCEPT ![a] = created + 1]
    /\ during' = [during EXCEPT ![t] = [at |-> "name", address |-> a]]
    /\ UNCHANGED <<syncs, given>>

\* sync_handle: the first free slot. (The table grows: there is always one.)
Name(t) ==
    LET free == {h \in Handles : syncs[h] = NoSync}
        h == CHOOSE f \in free : \A g \in free : f <= g
        a == during[t].address
    IN  /\ during[t].at = "name" /\ free # {}
        /\ syncs' = [syncs EXCEPT ![h] = a]
        /\ given' = [given EXCEPT ![h] = objects[a]]
        /\ during' = [during EXCEPT ![t] = NotInSync]
        /\ UNCHANGED <<objects, created>>

\* glDeleteSync of a handle the program has: the address, the core's
\* deletion, the core asked whether there is a sync object, and, if there is
\* none, the handle released.
Delete(t, h) ==
    /\ during[t] = NotInSync /\ given[h] # 0
    /\ given' = [given EXCEPT ![h] = 0]
    /\ during' = [during EXCEPT ![t] = [at |-> "delete", handle |-> h, address |-> syncs[h]]]
    /\ UNCHANGED <<syncs, objects, created>>
DeleteInCore(t) ==
    /\ during[t].at = "delete"
    /\ objects' = [objects EXCEPT ![during[t].address] = 0]
    /\ during' = [during EXCEPT ![t].at = "ask"]
    /\ UNCHANGED <<syncs, created, given>>
Ask(t) ==
    LET h == during[t].handle
        gone == objects[during[t].address] = 0
    IN  /\ during[t].at = "ask"
        /\ during' = [during EXCEPT ![t] = IF gone THEN [@ EXCEPT !.at = "release"] ELSE NotInSync]
        /\ UNCHANGED <<syncs, objects, created, given>>

Release(t) ==
    /\ during[t].at = "release"
    /\ syncs' = [syncs EXCEPT ![during[t].handle] = NoSync]
    /\ during' = [during EXCEPT ![t] = NotInSync]
    /\ UNCHANGED <<objects, created, given>>

HandlesNext ==
    \E t \in SyncCallers :
        \/ \E a \in Addresses : CreateSync(t, a)
        \/ \E h \in Handles : Delete(t, h)
        \/ Name(t) \/ DeleteInCore(t) \/ Ask(t) \/ Release(t)

HandlesSpec == HandlesInit /\ [][HandlesNext]_handlesVars

-----------------------------------------------------------------------------
HandlesAssumption == NoSync \notin Addresses /\ MaxSyncs \in Nat

HandlesTypeOK ==
    /\ syncs \in [Handles -> Addresses \cup {NoSync}]
    /\ objects \in [Addresses -> Nat] /\ created \in Nat /\ given \in [Handles -> Nat]
    /\ during \in [SyncCallers ->
          {NotInSync} \cup [at : {"name"}, address : Addresses]
          \cup [at : {"delete", "ask", "release"}, handle : Handles, address : Addresses]]

\* A sync object is held by the handle the program has of it, by the thread
\* that has yet to name it or by the one that is to delete it.
Holds(t) == during[t].at \in {"name", "delete"}
OneHolder ==
    /\ \A h \in Handles : given[h] # 0 => syncs[h] # NoSync /\ objects[syncs[h]] = given[h]
    /\ \A t \in SyncCallers : Holds(t) => objects[during[t].address] # 0
    /\ \A g, h \in Handles : given[g] # 0 /\ given[h] # 0 /\ syncs[g] = syncs[h] => g = h
    /\ \A t, u \in SyncCallers : Holds(t) /\ Holds(u) /\ during[t].address = during[u].address => t = u
    /\ \A t \in SyncCallers, h \in Handles : Holds(t) /\ given[h] # 0 => syncs[h] # during[t].address

\* A handle on its way out is the program's no more, and stays taken.
Deletes(t) == during[t].at \in {"delete", "ask", "release"}
GoingOut ==
    /\ \A t \in SyncCallers : Deletes(t) =>
          given[during[t].handle] = 0 /\ syncs[during[t].handle] = during[t].address
    /\ \A t, u \in SyncCallers :
          Deletes(t) /\ Deletes(u) /\ during[t].handle = during[u].handle => t = u

HandlesIInv == HandlesTypeOK /\ OneHolder /\ GoingOut

-----------------------------------------------------------------------------
\* A handle the program has names the sync object it was created for, whatever
\* other threads make and delete meanwhile and whatever addresses come again.
HandlesExact == \A h \in Handles : given[h] # 0 => syncs[h] # NoSync /\ objects[syncs[h]] = given[h]

\* What a 32-bit program relies on: its memory, its strings and its handles.
Wow64Sound == PiecesApart /\ NothingLeaks /\ StringsStay /\ HandlesExact
=============================================================================
