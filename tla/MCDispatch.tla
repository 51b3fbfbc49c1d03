----------------------------- MODULE MCDispatch -----------------------------
\* Two threads over an empty directory, one with two plugins, a module that does
\* not open and a text file, and one with a module without the entry symbol; a
\* client's plugin has the name of a loaded one.
EXTENDS PosixThreads

MCMaxLoads == [t \in Threads |-> IF t \in Busy THEN 3 ELSE 1]

MCDirs == {<<>>, <<"readme", "http", "torn", "file">>, <<"empty">>}

MCKind == [f \in {"readme", "http", "torn", "file", "empty", "mine"} |->
             CASE f = "readme" -> "text"
               [] f = "torn"   -> "broken"
               [] f = "empty"  -> "nosymbol"
               [] OTHER        -> "plugin"]

MCConfused == {<<"mine", "u1">>}
MCName == [http |-> "http", file |-> "file", mine |-> "file"]
MCPriority == [http |-> 0, file |-> 0, mine |-> 1]

Basic == {"access", "chmod", "rename", "stat", "mkdir", "rmdir", "open", "opendir",
          "readdir", "symlink", "getxattr", "readlink", "unlink", "listxattr",
          "setxattr", "checksum"}

MCServes ==
    [http |-> [ops |-> Basic \cup {"qos", "token", "archive", "abort"},
               urls |-> {"u1", "u2"}, bulk |-> {"archive"}],
     file |-> [ops |-> Basic \cup {"lstat", "readdirpp"}, urls |-> {"u2"}, bulk |-> {}],
     mine |-> [ops |-> Basic \cup {"archive"}, urls |-> {"u2"}, bulk |-> {}]]

=============================================================================
