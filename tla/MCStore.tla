------------------------------- MODULE MCStore -------------------------------
(* One file in the storage, one in the cache as well, one to create, and a    *)
(* disk of five blocks, so that a load or a write must evict.                 *)
EXTENDS Store

J(kind, i, remote, fail) == [kind |-> kind, inode |-> i, remote |-> remote, nodeFail |-> fail]
S(p, j1, j2, j3) == [persist |-> p, job |-> [u1 |-> j1, u2 |-> j2, u3 |-> j3]]

Readers == {J("read", "a", FALSE, FALSE), J("small", "a", FALSE, FALSE), J("small", "a", TRUE, FALSE)}
Writers == {J("write", "a", FALSE, FALSE), J("write", "a", TRUE, FALSE)}
Creator == J("create", "c", FALSE, FALSE)

MCJobs ==
    {S(TRUE, r, w, Creator) : r \in Readers, w \in Writers}
    \cup {S(TRUE, J("read", "b", TRUE, TRUE), J("write", "b", TRUE, FALSE), Creator),
          S(TRUE, J("small", "b", FALSE, FALSE), J("write", "a", TRUE, FALSE), J("delete", "b", FALSE, FALSE)),
          S(TRUE, J("read", "a", FALSE, FALSE), J("read", "a", TRUE, FALSE), J("delete", "a", FALSE, FALSE)),
          S(FALSE, J("read", "a", FALSE, FALSE), J("write", "b", FALSE, FALSE), J("delete", "b", FALSE, FALSE)),
          S(TRUE, J("read", "a", FALSE, FALSE), J("small", "a", FALSE, FALSE), J("read", "b", FALSE, FALSE))}
=============================================================================
