--------------------------- MODULE MC_HttpServer ---------------------------
(* A small file system for the viewer host.                                *)
EXTENDS HttpServer, TLC

\* Targets of up to five characters over "/", ".", two name letters, the
\* query mark and a space: enough for "//wx" and "/../x", for "?" and for
\* a target that starts with the space before "HTTP/1.1".
MCChars == {"/", ".", "w", "x", "?", " "}

\* The web root is /w (web_root_ "./web" canonicalized), holding the viewer
\* page /w/x (index.html).  Beside it sit the file /wx (a sibling whose
\* name extends the root's, such as an archive web.tar) and /x (any other
\* file, such as /etc/passwd).
MCWebRoot == << <<"w">> >>
MCDirs == {<< >>, << <<"w">> >>}
MCFiles == {<< <<"w">>, <<"x">> >>, << <<"w", "x">> >>, << <<"x">> >>}
=============================================================================
