----------------------------- MODULE Directory -----------------------------
(***************************************************************************)
(* What identity resolution promises: a directory of persons, each known   *)
(* by one email address, and of the subjects (a provider and its id for    *)
(* somebody) bound to them.  An address and a subject belong to one person *)
(* at most, a binding lasts until it is dissolved, and a person with no    *)
(* password always keeps a subject to log in with.                         *)
(***************************************************************************)
CONSTANTS Persons, Subjects, Addresses

VARIABLES
    mail,      \* mail[u]: the address of person u, {} for a free id
    owner,     \* owner[s]: the persons subject s is bound to
    external   \* the persons with no password

directoryVars == <<mail, owner, external>>

DirectoryInit ==
    /\ mail = [u \in Persons |-> {}]
    /\ owner = [s \in Subjects |-> {}]
    /\ external = {}

Free(u, e) == mail[u] = {} /\ \A w \in Persons : e \notin mail[w]

Join(u, e) ==
    /\ Free(u, e)
    /\ mail' = [mail EXCEPT ![u] = {e}]
    /\ UNCHANGED <<owner, external>>

Bind(s, u) ==
    /\ mail[u] # {}
    /\ owner[s] = {}
    /\ owner' = [owner EXCEPT ![s] = {u}]
    /\ UNCHANGED <<mail, external>>

JoinBound(s, u, e) ==
    /\ Free(u, e)
    /\ owner[s] = {}
    /\ mail' = [mail EXCEPT ![u] = {e}]
    /\ owner' = [owner EXCEPT ![s] = {u}]
    /\ external' = external \cup {u}

Unbind(s) ==
    /\ \A u \in owner[s] \cap external : \E t \in Subjects \ {s} : u \in owner[t]
    /\ owner' = [owner EXCEPT ![s] = {}]
    /\ UNCHANGED <<mail, external>>

DirectoryNext ==
    \/ \E u \in Persons, e \in Addresses : Join(u, e)
    \/ \E s \in Subjects, u \in Persons : Bind(s, u)
    \/ \E s \in Subjects, u \in Persons, e \in Addresses : JoinBound(s, u, e)
    \/ \E s \in Subjects : Unbind(s)

DirectorySpec == DirectoryInit /\ [][DirectoryNext]_directoryVars

-----------------------------------------------------------------------------
(* What that comes to: an address names one person, a subject belongs to   *)
(* one person at most, who is there, and a person with no password has a   *)
(* subject to log in with.                                                 *)
DirectoryWhole ==
    /\ \A u \in Persons : \A e \in mail[u], f \in mail[u] : e = f
    /\ \A u \in Persons, w \in Persons : mail[u] \cap mail[w] # {} => u = w
    /\ \A s \in Subjects : \A u \in owner[s], w \in owner[s] : u = w
    /\ \A s \in Subjects : \A u \in owner[s] : mail[u] # {}
    /\ \A u \in external : mail[u] # {} /\ \E s \in Subjects : u \in owner[s]

=============================================================================
