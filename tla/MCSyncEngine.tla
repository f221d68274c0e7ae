---------------------------- MODULE MCSyncEngine ----------------------------
(* Instances of SyncEngine for TLC: the paths and the trees the runs start
   from.  The other constants, and the bounds, are in each .cfg. *)
EXTENDS SyncEngine

a  == <<"a">>
b  == <<"b">>
ba == <<"b", "a">>
bb == <<"b", "b">>

file(p, h, s) == [path |-> p, hash |-> h, scope |-> s]
dir(p, s)     == [path |-> p, hash |-> NoHash, scope |-> s]

\* one file
OneFile    == <<file(a, "c0", 0)>>
OneFileAt  == {a}

\* a folder with a file
OneFolder   == <<dir(b, 0), file(ba, "c0", 0)>>
OneFolderAt == {a, b, ba}

\* two scopes: a file in the first, a folder with another file in the second
TwoScopes   == <<file(a, "c0", 0), dir(b, 1), file(ba, "c1", 1)>>
TwoScopesAt == {a, ba}

\* two scopes with one file each, under one name
SamePath   == <<file(a, "c0", 0), file(a, "c1", 1)>>
=============================================================================
