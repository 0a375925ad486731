------------------------------- MODULE Router --------------------------------
(***************************************************************************)
(* From a request to its answer: how _mkp_stage_30 (cache.c) tells calls   *)
(* of the API from files, which key and which path it takes from a URI,    *)
(* where strings are cut, and which MIME type goes with the answer         *)
(* (mime_map.c, utils.c), with what cache_file.c does to the table.        *)
(*                                                                         *)
(* A URI, a path and a key are sequences of tokens such as "/cache" or     *)
(* "/a", and their lengths count tokens.  Requests come one at a time and  *)
(* end at once; CacheFile has their interleavings, and the files that      *)
(* outlive their place in the table.                                       *)
(***************************************************************************)
EXTENDS BufVec, FiniteSets, SequencesExt

CONSTANTS
    Uris,           \* the URIs that are asked for
    Data,           \* the bodies that are sent to /cache/add
    Root, ConfDir,  \* the paths of the document root and of conf_dir
    OnDisk,         \* the paths of non-empty files
    MaxUri,         \* MAX_URI_LEN
    MaxPath,        \* MAX_PATH_LEN
    Configs,        \* the MIMETYPES sections there may be: <<ext, mime>> each
    MimeInit,       \* cells of the MIME map to begin with
    Ext(_),         \* the extension of a token
    Files,          \* the addresses of a cache_file_t
    NULL            \* no file, no body

\* What cache_file_t keeps of it here; a path stands for the file there.
CacheFile == [uri: Seq(STRING), body: Data \cup Seq(STRING), evictable: BOOLEAN]

ASSUME RouterAssumption ==
    /\ Uris \subseteq Seq(STRING) \ {<<>>}
    /\ Root \in Seq(STRING) /\ ConfDir \in Seq(STRING)
    /\ MaxUri \in Nat \ {0} /\ MaxPath \in Nat \ {0}
    /\ MimeInit \in Nat \ {0}
    /\ \A c \in Configs : c \in Seq(STRING \X STRING)
    /\ NULL \notin Files \cup Data \cup CacheFile

VARIABLES
    config,         \* the entries of the section MIMETYPES
    mime_map,       \* the array made of them
    table,          \* key -> file, for the keys it has
    file,           \* per address: the cache_file_t there
    answer,         \* the last answer
    \* what the properties remember
    overlay,        \* URI -> body, for the resources that were added
    cut             \* a URI came that does not fit file->uri

vars == <<config, mime_map, table, file, answer, overlay, cut>>

None == [uri |-> <<>>, kind |-> "none", body |-> NULL, type |-> "none"]

Init ==
    /\ config \in Configs
    /\ mime_map = buf_init(MimeInit)
    /\ table = <<>>
    /\ file = [f \in Files |-> NULL]
    /\ answer = None
    /\ overlay = <<>>
    /\ cut = FALSE

\* mime_map_init, before any request.
MimeMapInit ==
    /\ mime_map.size < Len(config)
    /\ mime_map' = buf_push(mime_map, config[mime_map.size + 1])
    /\ UNCHANGED <<config, table, file, answer, overlay, cut>>

Ready == mime_map.size = Len(config)

------------------------------------------------------------------------------
(* Strings *)

Least(a, b) == IF a < b THEN a ELSE b
Cut(s, n) == SubSeq(s, 1, Least(Len(s), n))

\* Mutant: the last entry for an extension counts.
MimeMapGetLast(path) ==
    LET is(j) == path # <<>> /\ buf_get(mime_map, j)[1] = Ext(path[Len(path)])
        found == {j \in 0 .. mime_map.size - 1 : is(j)}
    IN  IF found = {} THEN "text/plain"
        ELSE buf_get(mime_map, CHOOSE j \in found :
                                 \A k \in found : j >= k)[2]

\* mime_map_get: the first entry for the extension of the path.
MimeMapGet(path) ==
    LET is(j) == path # <<>> /\ buf_get(mime_map, j)[1] = Ext(path[Len(path)])
        found == {j \in 0 .. mime_map.size - 1 : is(j)}
    IN  IF found = {} THEN "text/plain"
        ELSE buf_get(mime_map, CHOOSE j \in found :
                                 \A k \in found : j <= k)[2]

------------------------------------------------------------------------------
(* cache_file.c, for files that no request holds *)

\* The table is a function on the keys it has.
Has(key) == key \in DOMAIN table
Without(f, x) == [y \in DOMAIN f \ {x} |-> f[y]]
With(f, x, v) == [y \in DOMAIN f \cup {x} |-> IF y = x THEN v ELSE f[y]]

\* Mutant: no room is left for the terminator.
KeyLonger(uri) == Cut(uri, MaxUri)

\* file->uri, which becomes the key of the file.
Key(uri) == Cut(uri, MaxUri - 1)

FreeFile(f) == /\ f \in Files /\ file[f] = NULL

\* The file is stored under its own URI; what the table had there is lost.
AddFile(f, uri, body, evictable) ==
    /\ FreeFile(f)
    /\ file' = [file EXCEPT ![f] = [uri |-> Key(uri), body |-> body,
                                    evictable |-> evictable]]
    /\ table' = With(table, Key(uri), f)

FileTableReset(key) ==
    /\ file' = IF Has(key) THEN [file EXCEPT ![table[key]] = NULL] ELSE file
    /\ table' = Without(table, key)

\* Mutant: what the key held is not reset first.
CacheFileTmpOver(key, d) == \E f \in Files : AddFile(f, key, d, FALSE)

\* cache_file_tmp: resets the key, and adds the body under it, unless the
\* file cannot be made.
CacheFileTmp(key, d) ==
    LET freed == IF Has(key) THEN [file EXCEPT ![table[key]] = NULL] ELSE file
    IN  \E f \in Files :
          /\ freed[f] = NULL
          /\ file' = [freed EXCEPT ![f] = [uri |-> Key(key), body |-> d,
                                           evictable |-> FALSE]]
          /\ table' = With(table, Key(key), f)

Stat(path) == path \in OnDisk

------------------------------------------------------------------------------
(* _mkp_stage_30 *)

Answer(uri, kind, body, type) ==
    answer' = [uri |-> uri, kind |-> kind, body |-> body, type |-> type]

\* What the request is about: the URI and the path, cut, and for a GET the
\* file of that URI.  The terminator of a URI that fills its array goes one
\* past it, where the first byte of the path may be.
UriOf(u) == Cut(u, MaxUri)
PathsOf(u) == {Cut(Root \o u, MaxPath)}
              \cup (IF Len(u) >= MaxUri THEN {<<>>} ELSE {})
Hit(u, get) == get /\ Has(UriOf(u))

\* The URI starts with API_PREFIX, and goes on with these tokens.
Call(u) == IF UriOf(u) # <<>> /\ UriOf(u)[1] = "/cache"
           THEN Tail(UriOf(u)) ELSE <<>>
IsAdd(u) == Len(Call(u)) > 1 /\ Call(u)[1] = "/add"
IsStats(u) == Call(u) # <<>> /\ Call(u)[1] = "/stats"
IsReset(u) == Len(Call(u)) > 1 /\ Call(u)[1] = "/reset"
IsWebui(u) == Call(u) # <<>> /\ Call(u)[1] = "/webui"
IsApi(u) == IsStats(u) \/ IsReset(u)

\* The key that an added or a reset file has.
Named(u) == Tail(Call(u))

\* The file's body is sent, with the type of the path.
ServeFile(u, f, path) ==
    Answer(u, "file", f.body, MimeMapGet(path))

ServeHit(u, path) ==
    /\ Hit(u, TRUE)
    /\ ServeFile(u, file[table[UriOf(u)]], path)
    /\ UNCHANGED <<table, file, overlay, cut>>

\* serve_add; the answer is the same when the file cannot be made.
ServeAdd(u, get, d) ==
    /\ ~Hit(u, get) /\ IsAdd(u)
    /\ Answer(u, "added", d, MimeMapGet(<<".txt">>))
    /\ \/ /\ CacheFileTmp(Named(u), d)
          /\ overlay' = With(overlay, Tail(Tail(u)), d)
       \/ /\ FileTableReset(Named(u))
          /\ overlay' = Without(overlay, Tail(Tail(u)))
    /\ UNCHANGED cut

\* Mutant: resets the whole URI of the call.
ServeResetWhole(u, get) ==
    /\ ~Hit(u, get) /\ IsReset(u)
    /\ FileTableReset(UriOf(u))
    /\ Answer(u, "reset", NULL, MimeMapGet(<<".txt">>))
    /\ overlay' = Without(overlay, Tail(Tail(u)))
    /\ UNCHANGED cut

ServeReset(u, get) ==
    /\ ~Hit(u, get) /\ IsReset(u)
    /\ FileTableReset(Named(u))
    /\ Answer(u, "reset", NULL, MimeMapGet(<<".txt">>))
    /\ overlay' = Without(overlay, Tail(Tail(u)))
    /\ UNCHANGED cut

ServeStats(u, get) ==
    /\ ~Hit(u, get) /\ IsStats(u)
    /\ Answer(u, "stats", NULL, MimeMapGet(<<".json">>))
    /\ UNCHANGED <<table, file, overlay, cut>>

\* cache_file_new serves the file that the table has by now for the key, or
\* opens the one at the path.
ServeNew(u, path, uri) ==
    /\ Stat(path)
    /\ \/ /\ Has(uri)
          /\ ServeFile(u, file[table[uri]], path)
          /\ UNCHANGED <<table, file, cut>>
       \/ /\ ~Has(uri)
          /\ \E f \in Files : AddFile(f, uri, path, TRUE)
          /\ Answer(u, "file", path, MimeMapGet(path))
          /\ cut' = (cut \/ Len(uri) >= MaxUri)
    /\ UNCHANGED overlay

\* cache_file_new returns no file: there is none at the path, or open, mmap
\* or table_add fails.
MayFail(path, uri) == ~Stat(path) \/ ~Has(uri)

WebPath(u) == ConfDir \o Call(u)

\* A file of the web UI is stored under its URI without the prefix; when that
\* fails the same path is tried again, for the whole URI.
ServeWebui(u, get) ==
    /\ ~Hit(u, get) /\ IsWebui(u)
    /\ \/ ServeNew(u, WebPath(u), Call(u))
       \/ MayFail(WebPath(u), Call(u)) /\ ServeNew(u, WebPath(u), UriOf(u))

ServeSite(u, get, path) ==
    /\ ~Hit(u, get) /\ ~IsApi(u) /\ ~IsWebui(u)
    /\ ServeNew(u, path, UriOf(u))

\* There is no file to serve: the server goes on without the plugin.
NotMe(u, get, path) ==
    /\ ~Hit(u, get) /\ ~IsApi(u)
    /\ IF IsWebui(u)
       THEN MayFail(WebPath(u), Call(u)) /\ MayFail(WebPath(u), UriOf(u))
       ELSE MayFail(path, UriOf(u))
    /\ Answer(u, "not_me", NULL, "none")
    /\ UNCHANGED <<table, file, overlay, cut>>

\* Only an addition has to have a body; without one its URI is as any other.
Stage30(u, get) ==
    /\ Ready
    /\ \/ \E d \in Data : ServeAdd(u, get, d)
       \/ ServeReset(u, get) \/ ServeStats(u, get) \/ ServeWebui(u, get)
       \/ \E path \in PathsOf(u) :
            (get /\ ServeHit(u, path)) \/ ServeSite(u, get, path) \/ NotMe(u, get, path)
    /\ UNCHANGED <<config, mime_map>>

\* cache_file_tick_cb: a file that was not asked for is reset by its URI.
Evict(key) ==
    /\ file[table[key]].evictable
    /\ FileTableReset(file[table[key]].uri)
    /\ UNCHANGED <<config, mime_map, answer, overlay, cut>>

Next ==
    \/ MimeMapInit
    \/ \E u \in Uris, get \in BOOLEAN : Stage30(u, get)
    \/ \E key \in DOMAIN table : Evict(key)

Spec == Init /\ [][Next]_vars

------------------------------------------------------------------------------
(* Properties *)

\* Types; a record's key is its file's URI, by which the eviction removes
\* it, and the array of MIME types is never written beyond its end
\* (cache_file.c:86, 246; utils.c:41-48).
TypeOK ==
    /\ mime_map.size \in 0 .. cap(mime_map)
    /\ \A f \in Files : file[f] # NULL => Len(file[f].uri) < MaxUri
    /\ \A key \in DOMAIN table :
         table[key] \in Files /\ file[table[key]] # NULL
           /\ file[table[key]].uri = key

\* The URIs whose keys those of the web UI are.
Web(u) == "/webui" \in {u[j] : j \in DOMAIN u}

\* A URI below the length at which calls about it are cut, and outside of the
\* web UI, is answered with the body that was added for it and not reset
\* since, otherwise with the file at its own path, if that fits: eviction,
\* additions over files and over calls of the API, and cut URIs of others
\* notwithstanding (cache.c:322-396, cache_file.c:214-215).
RightBody ==
    LET u == answer.uri
    IN  answer.kind = "file" /\ Len(u) + 2 < MaxUri /\ ~Web(u) =>
          IF u \in DOMAIN overlay
          THEN answer.body = overlay[u]
          ELSE Len(Root \o u) <= MaxPath => answer.body = Root \o u

\* The type of an answer is that of the first entry the configuration has for
\* the extension of the URI, for a URI and a path that fit their arrays, and
\* however often the map has grown (mime_map.c:21-45, utils.c:41-48).
RightType ==
    answer.kind = "file" /\ Len(answer.uri) < MaxUri
                         /\ Len(Root \o answer.uri) <= MaxPath =>
        LET e == Ext(answer.uri[Len(answer.uri)])
            fits == {j \in DOMAIN config : config[j][1] = e}
        IN  answer.type = IF fits = {} THEN "text/plain"
                          ELSE config[CHOOSE j \in fits :
                                        \A k \in fits : j <= k][2]

\* No file is lost: each one is in the table until it is freed, unless a URI
\* came that does not fit file->uri, which is never found and stored anew
\* each time (cache_file.c:192, 214-215, 246).
NoneLost ==
    cut \/ \A f \in Files : file[f] # NULL => f \in {table[k] : k \in DOMAIN table}
==============================================================================
