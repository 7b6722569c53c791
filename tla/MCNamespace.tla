---------------------------- MODULE MCNamespace ----------------------------
(***************************************************************************)
(* Small instances of Namespace for TLC: two backends of the CN and one of *)
(* a worker, each with one request, on a tree of two directories and a     *)
(* file.  Name 1 belongs to the first worker, name 2 to the second.        *)
(***************************************************************************)
EXTENDS Namespace, TLC

CONSTANTS w1, w2, s1, s2, s3

HomeOf == (1 :> w1) @@ (2 :> w2)
Sites == (s1 :> CN) @@ (s2 :> CN) @@ (s3 :> w1)

\* /1 and /2 are directories, /2/1 is a file.
SmallTree ==
    [dir |-> (<<Root, 1>> :> 1) @@ (<<Root, 2>> :> 2),
     inode |-> (<<Root, 1>> :> [id |-> 1, isDir |-> TRUE]) @@
               (<<Root, 2>> :> [id |-> 2, isDir |-> TRUE]) @@
               (<<2, 1>> :> [id |-> 3, isDir |-> FALSE]),
     next |-> 4]
SmallTrees == {SmallTree}

Req(op, paths) == [op |-> op, paths |-> paths]

\* No mkdir names the source of a rename.  The two sides meet in every pair of
\* operations whose paths overlap.
Requests1 ==
    {Req("mkdir", <<<<1, 2>>>>), Req("rmdir", <<<<1>>>>),
     Req("rename", <<<<1>>, <<2, 2>>>>), Req("rename", <<<<1>>, <<1, 1>>>>)}

Requests2 ==
    {Req("mkdir", <<<<1, 2, 1>>, <<1, 2>>>>), Req("rmdir", <<<<2>>>>), Req("rmdir", <<<<1, 2>>>>),
     Req("rename", <<<<2>>, <<1, 2>>>>),
     Req("rename", <<<<2, 1>>, <<1, 2>>>>), Req("rename", <<<<2, 1>>, <<1, 1>>>>)}

WorkerRequests ==
    {Req("create", <<<<1, 1>>, <<1, 2, 1>>>>), Req("create", <<<<1, 2>>>>),
     Req("unlink", <<<<2, 1>>>>), Req("mkdir", <<<<1, 1>>>>)}

\* A rename of /2/1, which does not exist, while it is made and removed.
RaceTrees == {[SmallTree EXCEPT !.inode = [k \in DOMAIN @ \ {<<2, 1>>} |-> @[k]]]}
RaceSites == [s \in {s1, s2, s3} |-> CN]
RaceRequests ==
    (s1 :> {Req("rename", <<<<2, 1>>, <<1, 1>>>>)}) @@ (s2 :> {Req("mkdir", <<<<2, 1>>>>)})
    @@ (s3 :> {Req("rmdir", <<<<2, 1>>>>)})

AllRequests == (s1 :> Requests1) @@ (s2 :> Requests2) @@ (s3 :> WorkerRequests)
=============================================================================
