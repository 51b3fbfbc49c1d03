----------------------------- MODULE NameSpace ------------------------------
(***************************************************************************)
(* Name space calls, files and credentials of the library over a storage   *)
(* server that somebody else changes at the same time.  In each behaviour  *)
(* one part is at work: gfal2_mkdir_rec of core, the SRM, the HTTP or the  *)
(* SFTP plugin, the look-up of cloud keys, or a file of the GridFTP        *)
(* plugin; the state of the others stays as it is.                         *)
(***************************************************************************)
EXTENDS MkdirRec, SrmFiles, HttpNames, HttpKeys, SftpSessions, GridFtpFile

srmState == <<srm, file>>
httpState == <<tokens, httpCalls>>

vars == <<plugin, server, mkdirRec, srmState, httpState, keyState, sftpState, gftpState>>

Init ==
    /\ plugin \in {"core", "srm", "http", "keys", "sftp", "gridftp"}
    /\ NsInit
    /\ MkdirRecInit
    /\ SessionInit /\ FilesInit
    /\ TokensInit /\ HttpInit
    /\ KeysInit
    /\ SftpInit
    /\ GftpInit

Next ==
    /\ UNCHANGED plugin
    /\ \/ /\ plugin = "core"
          /\ MkdirRecNext
          /\ UNCHANGED <<srmState, httpState, keyState, sftpState, gftpState>>
       \/ /\ plugin = "srm"
          /\ SrmNext
          /\ UNCHANGED <<mkdirRec, httpState, keyState, sftpState, gftpState>>
       \/ /\ plugin = "http"
          /\ HttpNext
          /\ UNCHANGED <<mkdirRec, srmState, keyState, sftpState, gftpState>>
       \/ /\ plugin = "keys"
          /\ ReadKeys
          /\ UNCHANGED <<server, mkdirRec, srmState, httpState, sftpState, gftpState>>
       \/ /\ plugin = "sftp"
          /\ SftpNext
          /\ UNCHANGED <<mkdirRec, srmState, httpState, keyState, gftpState>>
       \/ /\ plugin = "gridftp"
          /\ GftpNext
          /\ UNCHANGED <<mkdirRec, srmState, httpState, keyState, sftpState>>

Spec == Init /\ [][Next]_vars
=============================================================================
