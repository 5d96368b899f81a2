------------------------------- MODULE MCVfs -------------------------------
(* Instances of Vfs for TLC. *)
EXTENDS Vfs, TLC

DirEntry(ino, name) == [ino |-> ino, name |-> name]

\* The root, i-node 2, has two blocks; its entry "a" is a directory that
\* holds itself as "." and a file "a"; "b" is a file.
MCTree ==
    (2 :> << <<DirEntry(2, <<".">>), DirEntry(2, <<".", ".">>), DirEntry(3, <<"a">>)>>,
             <<DirEntry(4, <<"b">>)>> >>)
    @@ (3 :> << <<DirEntry(3, <<".">>), DirEntry(5, <<"a">>)>> >>)

\* Both blocks of the root, a directory that holds itself, names that are not
\* there or are in another directory, slashes twice and at the end, and
\* relative paths.
MCPaths ==
    {<<"/">>, <<"/", "a">>, <<"/", "b">>, <<"/", "/", "b">>, <<"/", "a", "/">>, <<"/", "c">>,
     <<"/", "a", "/", "a">>, <<"/", "a", "/", "b">>, <<"/", ".", "/", "b">>,
     <<"/", "a", "/", ".", "/", "a">>, <<"a">>, <<"a", "b">>}

MCFsTypes == <<FALSE, TRUE>>
=============================================================================
