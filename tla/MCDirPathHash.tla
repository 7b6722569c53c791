---------------------------- MODULE MCDirPathHash ----------------------------
(***************************************************************************)
(* Small instances of DirPathHash for TLC: the calls of the handlers in    *)
(* falcon/metadb/meta_handle.c and falcon/utils/path_parse.c.              *)
(***************************************************************************)
EXTENDS DirPathHash, TLC

CONSTANTS k1, k2

C(o, k, m, n) == [op |-> o, key |-> k, mode |-> m, need |-> n]

\* PathParseTreeInsert of a directory on the way; the check of rename's source.
Lookup(k) == <<C("search", k, "shared", "any")>>

Peek(k) == <<C("search", k, "none", "any")>>

\* FalconMkdirHandle and FalconMkdirSubMkdirHandle.
Mkdir(k) == <<C("search", k, "exclusive", "absent"), C("insert", k, "none", "any")>>

SubMkdir(k) == <<C("insert", k, "exclusive", "any")>>

\* FalconRmdirHandle and FalconRmdirSubRmdirHandle.
Rmdir(k) == <<C("search", k, "exclusive", "present"), C("delete", k, "none", "any")>>

\* FalconRenameSubRenameLocallyHandle; the locks are taken in path order.
SubRename == <<C("delete", k1, "exclusive", "any"), C("insert", k2, "exclusive", "any")>>

SubRenameBack == <<C("insert", k1, "exclusive", "any"), C("delete", k2, "exclusive", "any")>>

OnWorker == {Lookup(k1), Lookup(k2), SubMkdir(k1), Rmdir(k1), SubRename, SubRenameBack}

OnCN == {Lookup(k1), Mkdir(k1), Rmdir(k1), Lookup(k2)}

Crowded == {Peek(k1), Lookup(k1), Lookup(k2), SubMkdir(k1), Rmdir(k1)}

OneKey == {Lookup(k1), SubMkdir(k1), Rmdir(k1)}

Symmetry == Permutations(Procs) \cup Permutations(Slots)
=============================================================================
