---------------------------- MODULE MCNameSpace -----------------------------
(***************************************************************************)
(* Small instance of NameSpace.  Below the root are the directories d, e   *)
(* and x; f and g are in d, and h is in f (for gfal2_mkdir_rec, where all  *)
(* are directories).                                                       *)
(***************************************************************************)
EXTENDS NameSpace

MCParent == [d |-> "/", e |-> "/", x |-> "/", f |-> "d", g |-> "d", h |-> "f"]

Tree(ds, fs) == [p \in Paths |-> IF p \in ds THEN "dir" ELSE IF p \in fs THEN "file" ELSE "absent"]

MCFirstTree ==
    [core |-> {Tree({}, {}), Tree({"d"}, {}), Tree({"d"}, {"f"})},
     srm  |-> {Tree({"d", "x"}, {"f", "g"})},
     http |-> {Tree({"d"}, {"f"}), Tree({}, {})},
     keys |-> {Tree({}, {})},
     sftp |-> {Tree({"d"}, {"f"})},
     gridftp |-> {Tree({}, {})}]

MCContested ==
    [core |-> {"d", "f", "h"}, srm |-> {"f", "x"}, http |-> {"f"}, sftp |-> {"g"}]
MCMaxMeddling == [core |-> 3, srm |-> 1, http |-> 1, sftp |-> 1]

-----------------------------------------------------------------------------
(* SRM: a URL with a credential of its own (x), one that does not parse    *)
(* (bad) and a full SURL of f.                                             *)

MCPathOf ==
    [d |-> "d", e |-> "e", f |-> "f", g |-> "g", x |-> "x", fullf |-> "f", bad |-> "x"]
MCFormOf == [u \in Urls |-> IF u = "fullf" THEN "full" ELSE IF u = "bad" THEN "bad" ELSE "short"]
MCHostOf == [u \in Urls |-> IF u = "x" THEN "h2" ELSE "h1"]
MCBdii == [h1 |-> {}, h2 |-> {<<<<"srm_v1", "e3">>, <<"srm_v2", "e2">>>>, <<<<"srm_v1", "e3">>>>}]
MCDefault == [h1 |-> "e1", h2 |-> "e1"]
MCMaxCalls == [t1 |-> 3, t2 |-> 2]

On(ops, u) == {<<op, u>> : op \in ops}
Menu(a, b) == [t \in Threads |-> IF t = "t1" THEN a ELSE b]

MCMenus ==
    {\* the cache under changes, also under another name
     Menu(On({"stat", "chmod", "unlink", "status"}, "f") \cup On({"unlink"}, "fullf"),
          On({"stat"}, "f")),
     \* a directory is listed while its files are looked at
     Menu(On({"opendir"}, "d") \cup On({"stat", "unlink"}, "f") \cup On({"stat", "type"}, "bad"),
          On({"stat"}, "g") \cup On({"access"}, "x")),
     \* a directory that has lost its lock is read while one in it is removed
     Menu(On({"opendir"}, "d") \cup On({"stat"}, "bad") \cup On({"unlink"}, "f"),
          On({"mkdir", "rmdir"}, "f")),
     \* several endpoints and credentials
     Menu(On({"opendir", "stat", "type"}, "x"), On({"access"}, "d") \cup On({"space"}, "bad")),
     Menu(On({"rename"}, "f") \cup On({"rename", "stat"}, "d"), On({"stat"}, "g")),
     Menu(On({"rmdir", "mkdir", "stat"}, "x"), On({"mkdirp", "stat"}, "x")),
     \* files, and what is asked of a replica
     Menu(On({"read"}, "f") \cup On({"opendir"}, "d"), On({"write"}, "e")),
     Menu(On({"geturl"}, "f"), On({"checksum"}, "f"))}

MCOrder == <<"f", "g">>
MCWindows == {<<0, 0>>, <<0, 1>>, <<1, 1>>}
MCRenames == {<<"f", "g">>, <<"d", "e">>}

-----------------------------------------------------------------------------
(* HTTP: d/ is d with its slash, d/r the reserved name in it.              *)

MCCredOrder == <<"d/r", "g", "f", "d/", "d", "/">>
MCUp == ("d/r" :> "d/") @@ ("g" :> "d/") @@ ("f" :> "d/") @@ ("d/" :> "d") @@ ("d" :> "/")
MCSlash == [d |-> "d/"]
MCReserved == [d |-> "d/r"]
MCBaseOf == [f |-> "d/"]
MCMoves == {<<"f", "g">>}

Setting(scheme, retrieves, issues, fallback) ==
    [scheme |-> scheme, retrieves |-> retrieves, issues |-> issues, fallback |-> fallback,
     tape |-> <<"v1", "v2", "", "latest">>]
MCSettings ==
    {Setting("https", TRUE, {"macaroon"}, NoToken), Setting("https", TRUE, {"oauth"}, NoToken),
     Setting("https", FALSE, {"macaroon"}, UserToken), Setting("http", TRUE, {"macaroon"}, NoToken),
     Setting("cloud", TRUE, {}, NoToken), Setting("cs3", FALSE, {}, UserToken),
     Setting("signed", TRUE, {"macaroon"}, UserToken)}

MCHttpMenus ==
    {[calls |-> On({"stat", "mkdir", "rmdir", "opendir"}, "d") \cup On({"write"}, "f"),
      sets |-> {"/"}],
     [calls |-> On({"read", "update", "unlink", "rename"}, "f") \cup On({"access"}, "d"),
      sets |-> {"f", "d"}],
     [calls |-> On({"push", "pull"}, "f") \cup On({"stat", "mkdir"}, "d"), sets |-> {"g"}],
     [calls |-> On({"checksum", "qos", "change", "target"}, "f") \cup On({"classes"}, "d")
                    \cup On({"transitions"}, "/") \cup On({"tape"}, "/"),
      sets |-> {"d"}]}

-----------------------------------------------------------------------------
(* Cloud keys: the groups of a bucket's host, of the host, and of all.     *)

MCGroups == <<"S3:BUCKET.HOST", "S3:HOST", "S3">>
AwsOptions == {"SECRET_KEY", "ACCESS_KEY", "ACCESS_TOKEN", "ACCESS_TOKEN_SECRET"}
MCKeyConfs ==
    [Range(MCGroups) -> SUBSET AwsOptions]
        \cup {[g \in Range(MCGroups) |-> IF g = "S3" THEN o ELSE {"OS_TOKEN", "TOKEN"}] :
              o \in SUBSET {"JSON_AUTH_FILE", "JSON_AUTH_STRING", "TOKEN"}}

-----------------------------------------------------------------------------
(* SFTP: two servers, one of which lets nobody in with a password.         *)

MCSftpMenus ==
    {{<<"open", "f", "s1">>, <<"opendir", "d", "s1">>, <<"stat", "f", "s2">>, <<"mkdir", "e", "s1">>},
     {<<"open", "f", "s1">>, <<"rename", "f", "s2">>, <<"chmod", "f", "s1">>, <<"readlink", "f", "s1">>},
     {<<"unlink", "f", "s1">>, <<"rmdir", "d", "s2">>, <<"symlink", "f", "s2">>, <<"stat", "d", "s3">>}}
MCOffered == [s1 |-> {"publickey", "password"}, s2 |-> {"password"}, s3 |-> {"password"}]
MCWorking == [s1 |-> {"publickey"}, s2 |-> {"password"}, s3 |-> {}]

-----------------------------------------------------------------------------
(* A GridFTP file: blocks above 100 were there before it is opened.        *)

MCBefore == {<<101, 102>>, <<101, 102, 103>>}
=============================================================================
