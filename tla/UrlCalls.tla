------------------------------ MODULE UrlCalls ------------------------------
(***************************************************************************)
(* The calls of the file API on URLs and handles: gfal2_* of               *)
(* src/core/file/gfal2_standard_file_operations.c and                      *)
(* gfal2_directory_operations.c over gfal_plugin_*G of gfal_plugin.c, as   *)
(* the sets of outcomes they may have: the value returned (0, or -1) and   *)
(* the code of the GError that is set, if one is.                          *)
(*                                                                         *)
(* A plugin may answer anything, but sets an error when it fails           *)
(* (gfal_plugin_interface.h).                                              *)
(***************************************************************************)
EXTENDS Plugins

CONSTANTS
    Codes,     \* what a plugin may fail with
    Urls,
    NoUrl      \* a NULL argument

ASSUME CodesOK == "none" \notin Codes

Ok == [ret |-> 0, err |-> "none"]
Fails(code) == [ret |-> -1, err |-> code]
PluginAnswers == {Ok} \cup {Fails(c) : c \in Codes}

\* gfal_find_plugin: why no plugin was found.
FindError(t, u) ==
    IF pc[t] = "failed" THEN "ELIBBAD"
    ELSE IF \E i \in 1..number[t] : <<plugins[t][i], u>> \in Confused
    THEN "EINVAL" ELSE "EPROTONOSUPPORT"

-----------------------------------------------------------------------------
(* gfal_plugin.c                                                           *)

\* gfal_plugins_accessG to gfal_plugin_chmodG
UrlOp(t, op, u) ==
    IF FindPlugin(t, op, u) = 0 THEN {Fails(FindError(t, u))} ELSE PluginAnswers

\* gfal_plugin_renameG, gfal_plugin_symlinkG: between two plugins the call
\* fails and sets no error.
TwoUrlOp(t, op, u, v) ==
    LET src == FindPlugin(t, op, u)
        dst == FindPlugin(t, op, v)
    IN  IF src = 0 THEN {Fails(FindError(t, u))}
        ELSE IF dst = src THEN PluginAnswers
        ELSE {Fails(IF dst = 0 THEN FindError(t, v) ELSE "none")}

\* gfal_plugin_mkdirp: with pflag a directory that exists will do.
MkdirpOp(t, u, pflag) ==
    {IF pflag /\ r.err = "EEXIST" THEN Ok ELSE r : r \in UrlOp(t, "mkdir", u)}

\* gfal_plugin_rmdirG
RmdirOp(t, u) == UrlOp(t, "rmdir", u)

\* gfal_plugin_readdirG, gfal_plugin_readdirppG: the handle says which plugin.
HandleOp(t, op, name) ==
    LET p == MapFileHandle(t, name) IN
    IF p = 0 THEN {Fails(IF number[t] > 0 THEN "EBADF" ELSE "EINVAL")}
    ELSE IF op = "readdirpp" /\ op \notin Serves[plugins[t][p]].ops
    THEN {Fails("EPROTONOSUPPORT")} ELSE PluginAnswers

\* gfal2_checksum; the digits of an Adler-32 are filled up to eight.
ChecksumOp(t, u) == IF u = NoUrl THEN {Fails("EFAULT")} ELSE UrlOp(t, "checksum", u)

\* gfal_plugin_getxattrG: a checksum the plugin does not have is computed.
GetxattrOp(t, u, checksum) ==
    UNION {IF r.ret < 0 /\ checksum THEN ChecksumOp(t, u) ELSE {r} :
           r \in UrlOp(t, "getxattr", u)}

\* gfal_plugin_listxattrG, gfal_plugin_setxattrG
AttrOp(t, op, u) == UrlOp(t, op, u)

\* gfal_plugin_unlinkG to gfal_plugin_release_fileG
RequestOp(t, op, u) == UrlOp(t, op, u)

\* gfal_plugin_unlink_listG to gfal_plugin_archive_poll_listG: the plugin of
\* the first URL gets them all, one by one if it has no bulk call, and every
\* file has an error of its own: here, that of the first which failed.
ListOp(t, op, us) ==
    LET p == FindPlugin(t, op, us[1])
        bulk == op \in Serves[plugins[t][p]].bulk
    IN  IF p = 0 THEN {Fails(FindError(t, us[1]))}
        ELSE IF bulk \/ op # "archive" THEN PluginAnswers
        ELSE {Fails("EPROTONOSUPPORT")}

\* gfal_plugin_token_retrieveG
TokenOp(t, u) == UrlOp(t, "token", u)

-----------------------------------------------------------------------------
(* gfal2_standard_file_operations.c, gfal2_directory_operations.c          *)

WithUrl(u, outcomes) == IF u = NoUrl THEN {Fails("EFAULT")} ELSE outcomes

\* gfal2_access to gfal2_stat
Gfal2Url(t, op, u, v) ==
    WithUrl(u, IF op = "rename" THEN WithUrl(v, TwoUrlOp(t, op, u, v))
                                ELSE UrlOp(t, op, u))

\* Mutant: the error of the fall back is freed as well.
Gfal2LstatSilent(t, u) ==
    UNION {IF r.err = "EPROTONOSUPPORT"
           THEN {[s EXCEPT !.err = "none"] : s \in UrlOp(t, "stat", u)} ELSE {r} :
           r \in WithUrl(u, UrlOp(t, "lstat", u))}

\* gfal2_lstat: stat where there is no lstat.
Gfal2Lstat(t, u) ==
    UNION {IF r.err = "EPROTONOSUPPORT" THEN UrlOp(t, "stat", u) ELSE {r} :
           r \in WithUrl(u, UrlOp(t, "lstat", u))}

\* gfal2_mkdir (gfal2_mkdir_rec is in MkdirRec)
Gfal2Mkdir(t, u) == WithUrl(u, MkdirpOp(t, u, FALSE))

\* gfal2_rmdir
Gfal2Rmdir(t, u) == WithUrl(u, RmdirOp(t, u))

\* gfal2_symlink, gfal2_getxattr, gfal2_readlink, gfal2_unlink
Gfal2Link(t, op, u, v) ==
    WithUrl(u, CASE op = "symlink"  -> WithUrl(v, TwoUrlOp(t, op, u, v))
                 [] op = "getxattr" -> UNION {GetxattrOp(t, u, c) : c \in BOOLEAN}
                 [] op = "readlink" -> UrlOp(t, op, u)
                 [] op = "unlink"   -> RequestOp(t, op, u))

\* gfal2_listxattr, gfal2_setxattr
Gfal2Attr(t, op, u) == WithUrl(u, AttrOp(t, op, u))

\* gfal2_qos_check_classes to gfal2_token_retrieve
Gfal2Qos(t, op, u) ==
    WithUrl(u, IF op = "token" THEN TokenOp(t, u) ELSE RequestOp(t, op, u))

\* gfal2_readdir
Gfal2Readdir(t, name) == HandleOp(t, "readdir", name)

\* gfal2_readdirpp: readdir and stat of the entry, here of any URL, where the
\* plugin has no readdirpp.
Gfal2Readdirpp(t, name) ==
    UNION {IF r.err # "EPROTONOSUPPORT" THEN {r}
           ELSE UNION {IF s.ret < 0 THEN {s} ELSE UNION {UrlOp(t, "stat", u) : u \in Urls} :
                       s \in HandleOp(t, "readdir", name)} :
           r \in HandleOp(t, "readdirpp", name)}

=============================================================================
