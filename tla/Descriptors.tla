---------------------------- MODULE Descriptors ----------------------------
(***************************************************************************)
(* Which descriptor of the process is whose, as far as cache_file.c deals  *)
(* with them: a file opens one to map it, and closes the one in file->fd   *)
(* when it is freed, a field that is assigned nowhere.  The server has     *)
(* those of its clients.                                                   *)
(***************************************************************************)
EXTENDS Integers, FiniteSetsExt

CONSTANTS
    Files,      \* the addresses of a cache_file_t
    Conns,      \* the clients
    Fds,        \* the descriptors the process may have
    Standard,   \* those it has to begin with
    Garbage,    \* what an int of a malloc'ed block may hold
    NULL        \* no file, no descriptor, nobody

VARIABLES
    owner,      \* per descriptor: the file or client it was opened for
    fd,         \* per address: file->fd, NULL if there is no file
    conn        \* per client: the descriptor the server knows it by

vars == <<owner, fd, conn>>

Init ==
    /\ owner = [d \in Fds |-> IF d \in Standard THEN "standard" ELSE NULL]
    /\ fd = [f \in Files |-> NULL]
    /\ conn = [c \in Conns |-> NULL]

Unused == {d \in Fds : owner[d] = NULL}

\* The kernel gives out the lowest descriptor there is.
Opens(x) == /\ Unused # {}
            /\ owner' = [owner EXCEPT ![Min(Unused)] = x]

\* Closing a descriptor that is not open is an error without effect.
Closes(d) == owner' = [e \in Fds |-> IF e = d THEN NULL ELSE owner[e]]

\* cache_file_new and cache_file_tmp open the file, map it and allocate the
\* cache_file_t.  If they cannot, nothing remains open.
CacheFileNew(f) ==
    /\ fd[f] = NULL
    /\ Opens(f)
    /\ \E g \in Garbage : fd' = [fd EXCEPT ![f] = g]
    /\ UNCHANGED conn

\* cache_file_free closes file->fd unless it is -1.
CacheFileFree(f) ==
    /\ fd[f] # NULL
    /\ IF fd[f] # -1 THEN Closes(fd[f]) ELSE UNCHANGED owner
    /\ fd' = [fd EXCEPT ![f] = NULL]
    /\ UNCHANGED conn

\* The server accepts a client, and closes its connection.
Accept(c) ==
    /\ conn[c] = NULL
    /\ Opens(c)
    /\ conn' = [conn EXCEPT ![c] = Min(Unused)]
    /\ UNCHANGED fd

Disconnect(c) ==
    /\ conn[c] # NULL
    /\ Closes(conn[c])
    /\ conn' = [conn EXCEPT ![c] = NULL]
    /\ UNCHANGED fd

Next ==
    \/ \E f \in Files : CacheFileNew(f) \/ CacheFileFree(f)
    \/ \E c \in Conns : Accept(c) \/ Disconnect(c)

Spec == Init /\ [][Next]_vars

------------------------------------------------------------------------------
(* Properties *)

\* A file that is freed closes its own descriptor (cache_file.h:12: "open fd
\* of the file, -1 if fd not available"), never that of a client, whose
\* descriptor stays open until the server closes it (cache_file.c:34).
ClientsKeepTheirs == \A c \in Conns : conn[c] # NULL => owner[conn[c]] = c
==============================================================================
