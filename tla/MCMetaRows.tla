----------------------------- MODULE MCMetaRows -----------------------------
(* Three backends and five names in two shards: one reads the directory or    *)
(* updates a row, two send batches.                                          *)
EXTENDS MetaRows

MCNames == 1..5
MCPart == <<1, 2, 1, 2, 1>>
MCShardOf == <<1, 1, 1, 2, 1>>
R(op, items) == [op |-> op, items |-> items]

MCRequests ==
    [s1 |-> {R("readdir", <<>>), R("chmod", <<1>>), R("utimens", <<3>>), R("chown", <<2>>),
             R("kvput", <<1>>), R("kvdel", <<1>>), R("fetch", <<2>>), R("slicedel", <<1, 2>>),
             R("stat", <<2>>), R("open", <<1>>), R("sliceget", <<1>>), R("unlink", <<5>>)},
     s2 |-> {R("create", <<4, 2, 2, 3>>), R("unlink", <<1, 4>>),
             R("close", <<1, 3>>), R("fetch", <<1>>), R("kvget", <<1>>),
             R("slicedel", <<2, 1>>)},
     s3 |-> {R("create", <<2, 4>>), R("unlink", <<4, 1>>),
             R("kvput", <<1>>), R("sliceput", <<1>>)}]
MCOldNames == {1, 3}
MCOldDirs == {5}
=============================================================================
