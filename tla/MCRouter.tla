------------------------------ MODULE MCRouter -------------------------------
(* Instances of Router for TLC. *)
EXTENDS Router, TLC

CONSTANTS f1, f2, f3, d1, d2

A == "/a"
Css == "/x.css"

As(n) == [j \in 1..n |-> A]

\* With MaxUri = 5: URIs that fit file->uri, the longest that does not, and
\* one that does not fit the array either.
SiteUris == {As(1), As(2), As(4), As(5), As(6), <<A, Css>>}

\* Calls about them, an addition over a call, and calls that are cut.
Calls == {<<"/cache", "/add">> \o As(n) : n \in {1, 2, 4}}
         \cup {<<"/cache", "/reset">> \o As(n) : n \in {1, 4}}
         \cup {<<"/cache", "/stats">>, <<"/cache", "/add", "/cache", "/stats">>,
               <<"/cache">>, <<"/cache", "/add">>}

\* The web UI, and a page of the site with the key of one of its files.
WebUris == {<<"/cache", "/webui", A>>, <<"/webui", A>>}

MCUris == SiteUris \cup Calls \cup WebUris

MCRoot == <<"/root">>
MCConfDir == <<"/conf">>
MCOnDisk == {MCRoot \o u : u \in SiteUris \ {As(2)}}
            \cup {MCConfDir \o <<"/webui", A>>, MCRoot \o <<"/webui", A>>}

MCExt(token) == CASE token = Css -> "css"
                  [] token = ".txt" -> "txt"
                  [] token = ".json" -> "json"
                  [] OTHER -> "none"

\* An empty section, and one that makes the map grow twice and has two
\* entries for an extension.
MCConfigs == {<<>>,
              << <<"css", "text/css">>, <<"txt", "text/x">>,
                 <<"css", "text/old">> >>}

Symmetry == {p @@ q : p \in Permutations(Files), q \in Permutations(Data)}
=============================================================================
