---------------------------- MODULE MCFileSystem ----------------------------
(* FileSystem with a few names for TLC.                                    *)
EXTENDS FileSystem

a == <<"a">>

(* Names and special arguments, among them a name that holds a slash.      *)
PathArgs == {a, <<"b">>, DotDot, Slash, <<"a", "/", "b">>}
=============================================================================
