----------------------------- MODULE GridFtpFile ----------------------------
(***************************************************************************)
(* A file opened by the GridFTP plugin (src/plugins/gridftp/gridftp_io.cpp *)
(* and the streams of gridftpwrapper.cpp).  Opening starts a GET or a PUT  *)
(* of the whole file, the main operation, and calls that follow on one     *)
(* another use it; all others make a partial GET or PUT on a session of    *)
(* their own.  The mutex of the descriptor is held through read, write and *)
(* lseek.  Contents are sequences of blocks, offsets count blocks.         *)
(* The data of a GET come as Globus delivers them: in stream mode from the *)
(* start to the end, in extended block mode in pieces of any order.  The   *)
(* second is that of a session recycled from a copy with several streams   *)
(* (gridftp_filecopy.cpp:443), whose mode get_session leaves as it is.     *)
(***************************************************************************)
EXTENDS NsState

CONSTANTS
    Flags,      \* ways to open, of those below
    Before,     \* what is in the file at the start
    Offsets,    \* that the application seeks, preads and pwrites at
    Counts,     \* blocks asked for by a read
    MaxIoCalls  \* bound: calls

VARIABLES
    remote,  \* the file at the server
    main,    \* the main operation, as long as it runs at Globus
    request, \* GridFTPRequestState of the main operation
    stream,  \* its GridFTPStreamState; off once reset
    desc,    \* the rest of GridFTPFileDesc, and the call that is running
    ios,     \* calls made
    pos,     \* position of the application, that goes by what calls return
    image,   \* of an offset: the block the file should have there; 0 if unknown
    strange  \* history: a read that got its data in order returned others

gftpState == <<remote, main, request, stream, desc, ios, pos, image, strange>>

NoDesc == [at |-> "closed", flags |-> "", offset |-> 0, target |-> 0]

NoMain == [op |-> "none", aborted |-> FALSE]

\* The constructors of GridFTPRequestState and GridFTPStreamState
NewRequest == [done |-> FALSE, error |-> ""]
\* (torn is history: a piece came out of its place)
NewStream == [on |-> TRUE, offset |-> 0, eof |-> FALSE, error |-> FALSE, torn |-> FALSE]

Unknown == [o \in Offsets |-> 0]

GftpInit ==
    /\ remote \in PickFor("gridftp", Before)
    /\ main = NoMain /\ request = NewRequest /\ stream = NewStream
    /\ desc = NoDesc
    /\ ios = 0 /\ pos = 0 /\ image = Unknown /\ strange = FALSE

\* is_read_only, is_write_only: O_CREAT counts as the latter.
IsReadOnly(f) == f \in {"rdonly", "rdonly+creat"}
IsWriteOnly(f) == f \in {"wronly", "rdwr+creat", "rdonly+creat"}

\* What the application itself means by the flags
MayRead(f) == f # "wronly"
MayWrite(f) == f \notin {"rdonly", "rdonly+creat"}

Called(at) == desc.at = at /\ ios < MaxIoCalls /\ ios' = ios + 1

-----------------------------------------------------------------------------
(* The main operation, as Globus drives it.                                *)

\* globus_ftp_client_done_callback: all data has gone through.
MainEnds ==
    /\ main.op # "none" /\ stream.on /\ stream.eof
    /\ main' = NoMain
    /\ request' = [request EXCEPT !.done = TRUE]
    /\ UNCHANGED <<remote, stream, desc, ios, pos, image, strange>>

\* The same after a failure or an abort.  The server may drop what a PUT has
\* brought.
MainBreaks ==
    /\ main.op # "none"
    /\ main' = NoMain
    /\ request' = [done |-> TRUE, error |-> IF main.aborted THEN "ECANCELED" ELSE "ECOMM"]
    /\ remote' \in {remote} \cup (IF main.op = "put" THEN {<<>>} ELSE {})
    /\ UNCHANGED <<stream, desc, ios, pos, image, strange>>

\* globus_ftp_client_abort; it does nothing when no operation runs.
Aborted == IF main.op = "none" THEN main ELSE [main EXCEPT !.aborted = TRUE]

-----------------------------------------------------------------------------
(* open, read and write.                                                   *)

\* GridFTPModule::open.  It fails if no session can be had, if the file to be
\* read is not there, or if the operation does not start.
GftpOpen(f) ==
    LET op == IF IsReadOnly(f) THEN "get" ELSE IF IsWriteOnly(f) THEN "put" ELSE "none" IN
    /\ Called("closed")
    /\ \/ UNCHANGED <<remote, main, stream, desc>>
       \/ /\ desc' = [NoDesc EXCEPT !.at = "open", !.flags = f]
          /\ main' = [NoMain EXCEPT !.op = op]
          /\ stream' = [stream EXCEPT !.on = op # "none"]
          /\ remote' = IF op = "put" THEN <<>> ELSE remote
    /\ UNCHANGED <<request, pos, image, strange>>

\* is_not_seeked
IsNotSeeked == stream.on /\ desc.offset = stream.offset

BlocksAt(o, n) == SubSeq(remote, o + 1, Min({o + n, Len(remote)}))
WrittenAt(o, b) ==
    [i \in 1..Max({Len(remote), o + 1}) |->
        IF i = o + 1 THEN b ELSE IF i <= Len(remote) THEN remote[i] ELSE 0]

\* A read has asked for the file from o on and returns data, which did not come
\* in one piece and at its place if torn.
Returned(data, o, torn) ==
    strange' = (\/ strange
                \/ ~torn /\ data # BlocksAt(o, Len(data))
                \/ data = <<>> /\ o < Len(remote))

\* gridftp_read_stream and its callback, on the main GET.  The callback adds the
\* length of the piece and ignores its offset q in the file.
StreamRead(n) ==
    \/ /\ stream.eof
       /\ Returned(<<>>, pos, stream.torn)
       /\ UNCHANGED <<main, stream, desc, pos>>
    \/ /\ ~stream.eof /\ ~stream.error /\ main.op = "get"
       /\ \E k \in 0..n, q \in 0..Len(remote), eof \in BOOLEAN :
            LET end == stream.offset + k
                torn == stream.torn \/ q # stream.offset
            IN
            /\ end <= Len(remote) /\ q + k <= Len(remote)
            /\ k = 0 => eof
            /\ eof => end = Len(remote)
            /\ Returned(BlocksAt(q, k), pos, torn)
            /\ stream' = [stream EXCEPT !.offset = end, !.eof = eof, !.torn = torn]
            /\ desc' = [desc EXCEPT !.offset = @ + k]
            /\ pos' = pos + k
       /\ UNCHANGED main
    \/ /\ ~stream.eof
       /\ \E k \in 0..n :
            /\ stream.offset + k <= Len(remote) /\ (k > 0 => main.op = "get")
            /\ stream' = [stream EXCEPT !.offset = @ + k, !.error = @ \/ main.op = "get"]
       /\ main' \in {main, Aborted}
       /\ UNCHANGED <<desc, pos, strange>>

\* A buffer that got the piece x and then the piece y, both at its start
Overlaid(x, y) ==
    [i \in 1..(Len(x) + Len(y)) |->
        IF i <= Len(y) THEN y[i] ELSE IF i <= Len(x) THEN x[i] ELSE 0]

\* gridftp_rw_internal_pread, gfal_griftp_stream_read_done_callback: the data
\* come whole, or torn, here in two pieces of either order; each is put at the
\* start of the buffer and their lengths are added up.
PartialGet(o, n, torn) ==
    LET all == BlocksAt(o, n)
        first(k) == SubSeq(all, 1, k)
        rest(k) == SubSeq(all, k + 1, Len(all))
    IN  IF torn
        THEN UNION {{Overlaid(first(k), rest(k)), Overlaid(rest(k), first(k))} :
                        k \in 1..(Len(all) - 1)}
        ELSE {all}

\* GridFTPModule::read
GftpRead(n) ==
    /\ Called("open") /\ MayRead(desc.flags)
    /\ \/ /\ IsNotSeeked /\ IsReadOnly(desc.flags)
          /\ StreamRead(n)
       \/ /\ ~(IsNotSeeked /\ IsReadOnly(desc.flags))
          /\ \/ \E torn \in BOOLEAN : \E data \in PartialGet(desc.offset, n, torn) :
                /\ Returned(data, pos, torn)
                /\ desc' = [desc EXCEPT !.offset = @ + Len(data)]
                /\ pos' = pos + Len(data)
             \/ UNCHANGED <<desc, pos, strange>>
          /\ UNCHANGED <<main, stream>>
    /\ UNCHANGED <<remote, request, image>>

\* GridFTPModule::pread, on a session of its own
GftpPread(o, n) ==
    /\ Called("open") /\ MayRead(desc.flags)
    /\ \/ \E torn \in BOOLEAN : \E data \in PartialGet(o, n, torn) : Returned(data, o, torn)
       \/ UNCHANGED strange
    /\ UNCHANGED <<remote, main, request, stream, desc, pos, image>>

\* gridftp_write_stream, on the main PUT, of the block b at the end of the stream
StreamWrite(b) ==
    \/ /\ ~stream.error /\ ~stream.eof /\ main.op = "put"
       /\ remote' = WrittenAt(stream.offset, b)
       /\ stream' = [stream EXCEPT !.offset = @ + 1]
       /\ desc' = [desc EXCEPT !.offset = @ + 1]
       /\ pos' = pos + 1
       /\ image' = [image EXCEPT ![pos] = b]
       /\ UNCHANGED main
    \/ /\ \E k \in {0, 1} :
            /\ k > 0 => main.op = "put"
            /\ stream' = [stream EXCEPT !.offset = @ + k, !.error = @ \/ main.op = "put"]
       /\ remote' \in {remote} \cup (IF main.op = "put" THEN {WrittenAt(stream.offset, b)} ELSE {})
       /\ main' \in {main, Aborted}
       /\ image' = [image EXCEPT ![pos] = 0]
       /\ UNCHANGED <<desc, pos>>

\* gridftp_rw_internal_pwrite of the block b at o; one that fails may have
\* written it all the same.
PartialPut(o, b, ok) ==
    /\ remote' \in {WrittenAt(o, b)} \cup (IF ok THEN {} ELSE {remote})
    /\ image' = [image EXCEPT ![o] = IF ok THEN b ELSE 0]

\* GridFTPModule::write
GftpWrite ==
    /\ Called("open") /\ MayWrite(desc.flags) /\ pos \in Offsets
    /\ \/ /\ IsNotSeeked /\ IsWriteOnly(desc.flags)
          /\ StreamWrite(ios')
       \/ /\ ~(IsNotSeeked /\ IsWriteOnly(desc.flags))
          /\ \E ok \in BOOLEAN :
                /\ PartialPut(desc.offset, ios', ok)
                /\ desc' = IF ok THEN [desc EXCEPT !.offset = @ + 1] ELSE desc
                /\ pos' = IF ok THEN pos + 1 ELSE pos
          /\ UNCHANGED <<main, stream>>
    /\ UNCHANGED <<request, strange>>

\* GridFTPModule::pwrite
GftpPwrite(o) ==
    /\ Called("open") /\ MayWrite(desc.flags)
    /\ \E ok \in BOOLEAN : PartialPut(o, ios', ok)
    /\ UNCHANGED <<main, request, stream, desc, pos, strange>>

-----------------------------------------------------------------------------
(* lseek, with SEEK_SET or SEEK_CUR, others are refused: a main operation  *)
(* that runs is aborted and waited for.                                    *)

Sought(o) ==
    /\ stream' = [stream EXCEPT !.on = FALSE]
    /\ desc' = [desc EXCEPT !.at = "open", !.offset = o]
    /\ pos' = o

GftpLseek(o) ==
    /\ Called("open")
    /\ \/ o = desc.offset /\ pos' = o /\ UNCHANGED <<main, stream, desc>>
       \/ o # desc.offset /\ request.done /\ Sought(o) /\ UNCHANGED main
       \/ /\ o # desc.offset /\ ~request.done
          /\ desc' = [desc EXCEPT !.at = "seek", !.target = o]
          /\ main' = Aborted
          /\ UNCHANGED <<stream, pos>>
    /\ UNCHANGED <<remote, request, image, strange>>

\* GridFTPRequestState::wait: the request is done.
LseekWaits ==
    /\ desc.at = "seek" /\ request.done
    /\ IF request.error \in {"", "ECANCELED"} THEN Sought(desc.target)
       ELSE desc' = [desc EXCEPT !.at = "open"] /\ UNCHANGED <<stream, pos>>
    /\ UNCHANGED <<remote, main, request, ios, image, strange>>

\* It expires, as it always does where no operation was started.
WaitExpires ==
    /\ desc.at \in {"seek", "close"} /\ ~request.done
    /\ request' = [request EXCEPT !.error = "ECANCELED"]
    /\ main' = Aborted
    /\ desc' = [desc EXCEPT !.at = "open"]
    /\ UNCHANGED <<remote, stream, ios, pos, image, strange>>

\* gridftp_cancel, from gfal2_cancel
WaitCancelled ==
    /\ desc.at \in {"seek", "close"} /\ ~request.done
    /\ request' = [request EXCEPT !.error = "ECANCELED"]
    /\ main' = Aborted
    /\ UNCHANGED <<remote, stream, desc, ios, pos, image, strange>>

-----------------------------------------------------------------------------
(* close                                                                   *)

Gone == desc' = [desc EXCEPT !.at = "gone"]

\* gridftp_rw_commit_put: an empty write with the end of file
Commit ==
    IF IsWriteOnly(desc.flags) /\ stream.on /\ ~stream.eof
    THEN \/ /\ main.op = "put" /\ ~stream.error
            /\ stream' = [stream EXCEPT !.eof = TRUE]
            /\ desc' = [desc EXCEPT !.at = "close"]
            /\ UNCHANGED main
         \/ /\ stream' = [stream EXCEPT !.error = @ \/ main.op = "put"]
            /\ main' \in {main} \cup (IF main.op = "put" THEN {Aborted} ELSE {})
            /\ UNCHANGED desc
    ELSE /\ desc' = [desc EXCEPT !.at = "close"]
         /\ main' = IF IsWriteOnly(desc.flags) \/ request.done THEN main ELSE Aborted
         /\ UNCHANGED stream

\* GridFTPModule::close: with neither a GET nor a PUT there is nothing to do.
GftpClose ==
    /\ Called("open")
    /\ IF IsReadOnly(desc.flags) \/ IsWriteOnly(desc.flags) THEN Commit
       ELSE Gone /\ UNCHANGED <<main, stream>>
    /\ UNCHANGED <<remote, request, pos, image, strange>>

\* Mutant: nobody waits for the PUT after its last block.
ClosesEarly ==
    /\ desc.at = "close"
    /\ IF \/ request.error = ""
          \/ request.error = "ECANCELED" /\ ~IsWriteOnly(desc.flags)
       THEN Gone ELSE desc' = [desc EXCEPT !.at = "open"]
    /\ UNCHANGED <<remote, main, request, stream, ios, pos, image, strange>>

\* An aborted GET is no error, an aborted PUT is.  After an error the
\* descriptor stays.
CloseWaits ==
    /\ desc.at = "close" /\ request.done
    /\ IF \/ request.error = ""
          \/ request.error = "ECANCELED" /\ ~IsWriteOnly(desc.flags)
       THEN Gone ELSE desc' = [desc EXCEPT !.at = "open"]
    /\ UNCHANGED <<remote, main, request, stream, ios, pos, image, strange>>

GftpNext ==
    /\ \/ \E f \in Flags : GftpOpen(f)
       \/ \E n \in Counts : GftpRead(n)
       \/ \E o \in Offsets, n \in Counts : GftpPread(o, n)
       \/ GftpWrite
       \/ \E o \in Offsets : GftpPwrite(o) \/ GftpLseek(o)
       \/ LseekWaits \/ WaitExpires \/ WaitCancelled
       \/ GftpClose \/ CloseWaits
       \/ MainEnds \/ MainBreaks
    /\ UNCHANGED server

-----------------------------------------------------------------------------
(* Property.                                                               *)

\* Whether the calls went through the main operation, a partial one, or both
\* in turn, and whatever failed on the way: a read never returns nothing where
\* something is left to read, and what it returns is what the file has at the
\* position of the application, unless the data came in pieces: the callback
\* puts each at the start of the buffer and ignores its offset
\* (gridftpwrapper.cpp:825-872).  When close returns 0, every block that a write
\* reported as written, and no later one failed to replace, is in the file at
\* its place.
FileAsWritten ==
    /\ ~strange
    /\ desc.at = "gone" =>
        \A o \in Offsets : image[o] # 0 => BlocksAt(o, 1) = <<image[o]>>

-----------------------------------------------------------------------------
(* The inductive invariant of FileAsWritten.                               *)

ASSUME GftpAssumption ==
    /\ Flags \subseteq {"rdonly", "wronly", "rdwr", "rdwr+creat", "rdonly+creat"}
    /\ Before \subseteq Seq(Nat)
    /\ Offsets \subseteq Nat
    /\ Counts \subseteq Nat \ {0}

GftpTypeOK ==
    /\ remote \in Seq(Nat)
    /\ main \in [op : {"none", "get", "put"}, aborted : BOOLEAN]
    /\ request \in [done : BOOLEAN, error : {"", "ECANCELED", "ECOMM"}]
    /\ stream \in [on : BOOLEAN, offset : Nat, eof : BOOLEAN, error : BOOLEAN,
                   torn : BOOLEAN]
    /\ desc \in [at : {"closed", "open", "seek", "close", "gone"}, flags : Flags \cup {""},
                  offset : Nat, target : Nat]
    /\ ios \in Nat
    /\ image \in [Offsets -> Nat]

FreshAtFirst ==
    desc.at = "closed" =>
        /\ desc = NoDesc /\ main = NoMain /\ request = NewRequest /\ stream = NewStream
        /\ image = Unknown

\* The main operation is what the flags ask for, and over when its request is.
MainOfFlags ==
    /\ main.op = "get" => IsReadOnly(desc.flags)
    /\ main.op = "put" => IsWriteOnly(desc.flags) /\ ~IsReadOnly(desc.flags)
    /\ request.done \/ desc.at = "gone" => main.op = "none"

EndIsEnd == IsReadOnly(desc.flags) /\ stream.eof => stream.offset >= Len(remote)

\* A PUT that has failed or was aborted: its close will fail.
Ruined == IsWriteOnly(desc.flags) /\ request.error # ""

HasBlock(o, b) == o < Len(remote) /\ remote[o + 1] = b

ImageKept == Ruined \/ \A o \in Offsets : image[o] # 0 => HasBlock(o, image[o])

GftpInv ==
    IF plugin = "gridftp"
    THEN /\ GftpTypeOK /\ FreshAtFirst /\ MainOfFlags /\ EndIsEnd /\ ImageKept
         /\ pos = desc.offset
         /\ desc.at = "gone" => ~Ruined
         /\ ~strange
    ELSE desc.at = "closed" /\ ~strange
=============================================================================
