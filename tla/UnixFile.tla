------------------------------ MODULE UnixFile ------------------------------
(***************************************************************************)
(* The Unix file calls of one process: oldtree/kernel/phantom/unix/        *)
(* sys_file.c on the descriptor table, the working directory and the       *)
(* reference counts of struct uuprocess (include/unix/uuprocess.h).        *)
(*                                                                         *)
(* Several threads of the process enter the calls.  A call that changes   *)
(* u->fd[] is split where another thread can act on what it has read:      *)
(* between the test and the store of uu_find_fd(), between the two         *)
(* uu_find_fd() of usys_pipe(), between GETF and the locked part of        *)
(* usys_close(), and between the close and the store of usys_dup2().  A    *)
(* call that only uses the file is one step: it runs under f->mutex.       *)
(*                                                                         *)
(* A file is what its callbacks are: a kind says which of them are set.    *)
(* The callbacks themselves are environment; they return any of their      *)
(* results.  link_uufile, unlink_uufile, copy_uufile, uu_namei and         *)
(* pipefs_make_pipe are defined outside sys_file.c; the module takes them  *)
(* as counting references and creating files with one reference.  A file   *)
(* leaves the model when fs->close() has had it, or unlink_uufile() its    *)
(* last reference, and nothing in the process points to it any more.       *)
(***************************************************************************)
EXTENDS Integers, FiniteSets, FiniteSetsExt

CONSTANTS
    Threads,    \* threads of the process that enter the calls
    CwdThreads, \* the threads among them that change the working directory
    NoThread,   \* the holder of a free mutex
    MAX_UU_FD,  \* size of u->fd[]
    MaxFiles,   \* bound: struct uufile in the model at one time
    Kinds,      \* what uu_namei() can find
    NoKind,     \* the kind of a struct uufile that is not in use
    PipeKind,   \* what pipefs_make_pipe() creates
    Offsets,    \* offsets given to usys_lseek()
    MaxRefs,    \* bound: references of a file when usys_dup[2]() is entered
    MaxPos      \* bound: file positions

ASSUME NoThread \notin Threads /\ CwdThreads \subseteq Threads

VARIABLES
    fd,             \* u->fd[]
    cwd_file,       \* u->cwd_file
    cwd_path,       \* u->cwd_path: "root", "path" (set by a call) or "empty"
    file,           \* the struct uufile: kind (fs, ops, size), flags,
                    \* refcount, pos
    fd_find_mutex,  \* the thread inside uu_find_fd()
    pc,             \* where a thread is inside a call
    loc,            \* the locals of the call a thread is in
    result          \* return value and *err of the call that returned last

vars == <<fd, cwd_file, cwd_path, file, fd_find_mutex, pc, loc, result>>

process == <<fd, cwd_file, cwd_path>>

\* What the calls read: everything but the result, which is output only.
view == <<fd, cwd_file, cwd_path, file, fd_find_mutex, pc, loc>>

ENOENT == 2
EIO == 5
ENXIO == 6
EBADF == 9
ENOTDIR == 20
EINVAL == 22
EMFILE == 24
ENOTTY == 25
ESPIPE == 29
ENOSYS == 38
Errno == {ENOENT, EIO, ENXIO, EBADF, ENOTDIR, EINVAL, EMFILE, ENOTTY, ESPIPE, ENOSYS}

O_RDONLY == 0
O_RDWR == 2

Slots    == 0 .. MAX_UU_FD - 1
Files    == 1 .. MaxFiles
NoFile   == 0

Callbacks == {"read", "write", "chmod", "chown", "ioctl", "stat", "setsize",
              "getsize", "seek", "readdir", "unlink", "getpath",
              "setproperty", "getproperty", "listproperties"}

\* A kind: the file is a directory, f->fs and fs->open are set, f->ops is
\* set, the callbacks of f->ops that are set, what getsize() returns.
KindType == [dir : BOOLEAN, fs_open : BOOLEAN, has_ops : BOOLEAN,
             ops : SUBSET Callbacks, size : {-1} \cup Nat]

Unused == [kind |-> NoKind, flags |-> {}, refcount |-> 0, pos |-> 0]

LocType == [call : STRING, f : Files \cup {NoFile}, g : Files \cup {NoFile},
            d : -1 .. MAX_UU_FD, i : -1 .. MAX_UU_FD, err : {0} \cup Errno,
            then : STRING]

NoLoc == [call |-> "none", f |-> NoFile, g |-> NoFile, d |-> -1, i |-> -1,
          err |-> 0, then |-> "return"]

Panicked == \E t \in Threads : pc[t] = "panic"

-----------------------------------------------------------------------------
(* Helpers that sys_file.c takes from elsewhere.                           *)

\* CHECK_FD_RANGE and CHECK_FD: the descriptor is inside the table, and set.
CHECK_FD_RANGE(d) == d \in Slots
CHECK_FD(d) == CHECK_FD_RANGE(d) /\ fd[d] # NoFile

link_uufile(F, f)   == [F EXCEPT ![f].refcount = @ + 1]
unlink_uufile(F, f) == [F EXCEPT ![f].refcount = @ - 1]

\* uu_namei(), pipefs_make_pipe() and copy_uufile() hand out a new struct
\* uufile with one reference, held by the caller.
FreeFiles == {f \in Files : file[f] = Unused}
NewFile == Min(FreeFiles)
Created(F, f, k, fl) ==
    [F EXCEPT ![f] = [kind |-> k, flags |-> fl, refcount |-> 1, pos |-> 0]]

NameiFlags(k) == IF k.dir THEN {"DIR"} ELSE {}

\* What the process and the calls in progress point to.
Pointed ==
    ({fd[d] : d \in Slots} \cup {cwd_file}
        \cup {loc[t].f : t \in Threads} \cup {loc[t].g : t \in Threads})
    \ {NoFile}

\* F after the calls of the step are through with file g.
Gone(F, g) == IF g \in Pointed' THEN F ELSE [F EXCEPT ![g] = Unused]

\* unlink_uufile() of a reference the caller holds.
Released(F, g) ==
    IF F[g].refcount > 1 THEN unlink_uufile(F, g)
    ELSE Gone(unlink_uufile(F, g), g)

-----------------------------------------------------------------------------
(* How a call ends.                                                        *)

Return(t, rc, err) ==
    /\ pc' = [pc EXCEPT ![t] = "idle"]
    /\ loc' = [loc EXCEPT ![t] = NoLoc]
    /\ result' = [rc |-> rc, err |-> err]

Fail(t, err) == Return(t, -1, err)

\* rc of the calls that end with "return *err ? -1 : 0".
ErrRc(err) == IF err # 0 THEN -1 ELSE 0

\* A null pointer is followed in kernel mode: the kernel stops.
Panic(t) ==
    /\ pc' = [u \in Threads |-> "panic"]
    /\ UNCHANGED <<loc, result>>

Goto(t, label, l) ==
    /\ pc' = [pc EXCEPT ![t] = label]
    /\ loc' = [loc EXCEPT ![t] = l]
    /\ UNCHANGED result

Init ==
    /\ fd = [d \in Slots |-> NoFile]
    /\ cwd_file = NoFile
    /\ cwd_path = "root"
    /\ file = [f \in Files |-> Unused]
    /\ fd_find_mutex = NoThread
    /\ pc = [t \in Threads |-> "idle"]
    /\ loc = [t \in Threads |-> NoLoc]
    /\ result = [rc |-> 0, err |-> 0]

-----------------------------------------------------------------------------------------------------------------------------------------------------
(* uu_find_fd(): under fd_find_mutex, the first empty slot is tested and   *)
(* then stored into.  What follows the return is the caller's.  A caller   *)
(* enters it in the step of the call: what it did before (uu_namei(),      *)
(* fs->open(), link_uufile()) is on a file or a count no one else reads.   *)
(* l: the locals of the caller, F: the files as the caller left them.      *)

FreeSlots == {d \in Slots : fd[d] = NoFile}

\* Mutant: EMFILE without the unlink_uufile() of the reference.
found_or_emfile_kept(t, l, F, got) ==
    IF got < 0
    THEN Fail(t, EMFILE) /\ file' = F
    ELSE Return(t, got, 0) /\ file' = F

\* usys_open() and usys_dup() after uu_find_fd(): the descriptor, or EMFILE
\* and the reference goes back.
found_or_emfile(t, l, F, got) ==
    IF got < 0
    THEN Fail(t, EMFILE) /\ file' = Released(F, l.f)
    ELSE Return(t, got, 0) /\ file' = F

\* usys_pipe() after the first uu_find_fd(): the second one, whatever the
\* first returned.
usys_pipe_second(t, l, F, got) ==
    /\ Goto(t, "find_fd", [l EXCEPT !.call = "pipe2", !.f = l.g, !.g = l.f,
                                    !.d = got, !.i = -1])
    /\ file' = F

\* usys_pipe() after the second uu_find_fd().
usys_pipe_found(t, l, F, got) ==
    IF l.d < 0 \/ got < 0
    THEN Fail(t, EMFILE) /\ file' = Released(Released(F, l.g), l.f)
    ELSE Return(t, 0, 0) /\ file' = F

found_fd(t, l, F, got) ==
    \/ l.call \in {"open", "dup"} /\ found_or_emfile(t, l, F, got)
    \/ l.call = "pipe1" /\ usys_pipe_second(t, l, F, got)
    \/ l.call = "pipe2" /\ usys_pipe_found(t, l, F, got)


\* Mutant: the table is full and uu_find_fd() returns with the mutex held.
uu_find_fd_scan_locked(t, l, F) ==
    /\ fd_find_mutex = NoThread
    /\ \/ /\ FreeSlots # {}
          /\ fd_find_mutex' = t
          /\ Goto(t, "find_fd_store", [l EXCEPT !.i = Min(FreeSlots)])
          /\ file' = F
       \/ /\ FreeSlots = {}
          /\ fd_find_mutex' = t
          /\ found_fd(t, l, F, -1)

\* The lock and the scan.
uu_find_fd_scan(t, l, F) ==
    /\ fd_find_mutex = NoThread
    /\ \/ /\ FreeSlots # {}
          /\ fd_find_mutex' = t
          /\ Goto(t, "find_fd_store", [l EXCEPT !.i = Min(FreeSlots)])
          /\ file' = F
       \/ /\ FreeSlots = {}
          /\ UNCHANGED fd_find_mutex
          /\ found_fd(t, l, F, -1)

\* The second uu_find_fd() of usys_pipe().
uu_find_fd(t) ==
    /\ pc[t] = "find_fd"
    /\ UNCHANGED process
    /\ uu_find_fd_scan(t, loc[t], file)

uu_find_fd_store(t) ==
    /\ pc[t] = "find_fd_store"
    /\ fd' = [fd EXCEPT ![loc[t].i] = loc[t].f]
    /\ fd_find_mutex' = NoThread
    /\ UNCHANGED <<cwd_file, cwd_path>>
    /\ found_fd(t, loc[t], file, loc[t].i)

-----------------------------------------------------------------------------
(* Calls that create descriptors.                                          *)

OpenFlags(k, wr) ==
    NameiFlags(k) \cup {"OPEN"} \cup (IF wr THEN {} ELSE {"RDONLY"})

\* k is what uu_namei() found, e what fs->open() returns.  A file that
\* fails before uu_find_fd() is unlinked before the call returns.
usys_open(t, k, wr, e) ==
    /\ pc[t] = "idle"
    /\ UNCHANGED process
    /\ \/ Fail(t, ENOENT) /\ UNCHANGED <<file, fd_find_mutex>>
       \/ ~k.fs_open /\ Fail(t, 0) /\ UNCHANGED <<file, fd_find_mutex>>
       \/ k.fs_open /\ e # 0 /\ Fail(t, e) /\ UNCHANGED <<file, fd_find_mutex>>
       \/ /\ k.fs_open /\ e = 0 /\ FreeFiles # {}
          /\ uu_find_fd_scan(t, [NoLoc EXCEPT !.call = "open", !.f = NewFile],
                             Created(file, NewFile, k, OpenFlags(k, wr)))

usys_creat(t, k, e) == usys_open(t, k, TRUE, e)

usys_pipe(t) ==
    /\ pc[t] = "idle"
    /\ UNCHANGED process
    /\ Cardinality(FreeFiles) >= 2
    /\ LET f1 == NewFile
           f2 == Min(FreeFiles \ {f1})
       IN  uu_find_fd_scan(t, [NoLoc EXCEPT !.call = "pipe1", !.f = f1, !.g = f2],
                           Created(Created(file, f1, PipeKind, {"OPEN"}),
                                   f2, PipeKind, {"OPEN"}))

usys_dup(t, src_fd) ==
    /\ pc[t] = "idle"
    /\ UNCHANGED process
    /\ \/ ~CHECK_FD(src_fd) /\ Fail(t, EBADF) /\ UNCHANGED <<file, fd_find_mutex>>
       \/ /\ CHECK_FD(src_fd) /\ file[fd[src_fd]].refcount < MaxRefs
          /\ uu_find_fd_scan(t, [NoLoc EXCEPT !.call = "dup", !.f = fd[src_fd]],
                             link_uufile(file, fd[src_fd]))

\* The descriptor in dst_fd's place is closed by usys_close(), then the
\* file is linked and stored.
usys_dup2(t, src_fd, dst_fd) ==
    /\ pc[t] = "idle"
    /\ \/ ~(CHECK_FD_RANGE(dst_fd) /\ CHECK_FD(src_fd)) /\ Fail(t, EBADF)
       \/ /\ CHECK_FD_RANGE(dst_fd) /\ CHECK_FD(src_fd)
          /\ file[fd[src_fd]].refcount < MaxRefs
          /\ IF fd[dst_fd] # NoFile
             THEN Goto(t, "close", [NoLoc EXCEPT !.then = "dup2", !.f = fd[dst_fd],
                                              !.g = fd[src_fd], !.d = dst_fd])
             ELSE Goto(t, "dup2_store", [NoLoc EXCEPT !.f = fd[src_fd],
                                                      !.d = dst_fd])
    /\ UNCHANGED <<process, file, fd_find_mutex>>


\* Mutant: usys_dup2() stores the file without link_uufile().
usys_dup2_store_unlinked(t) ==
    /\ pc[t] = "dup2_store"
    /\ fd' = [fd EXCEPT ![loc[t].d] = loc[t].f]
    /\ Return(t, 0, loc[t].err)
    /\ UNCHANGED <<cwd_file, cwd_path, file, fd_find_mutex>>

usys_dup2_store(t) ==
    /\ pc[t] = "dup2_store"
    /\ file' = link_uufile(file, loc[t].f)
    /\ fd' = [fd EXCEPT ![loc[t].d] = loc[t].f]
    /\ Return(t, 0, loc[t].err)
    /\ UNCHANGED <<cwd_file, cwd_path, fd_find_mutex>>

-----
(* Calls on a descriptor.  They check the descriptor, read the file from   *)
(* the table and test its callbacks; the callback runs under f->mutex.     *)

\* The callback a call tests for before it takes the mutex.
Tested == [read |-> "read", write |-> "write", fchmod |-> "chmod",
           fchown |-> "chown", ioctl |-> "ioctl", fstat |-> "stat",
           ftruncate |-> "setsize"]

\* What a call answers when f->ops is null, and when the callback is null.
\* usys_fchmod() reads f->ops->chmod before it tests f->ops.
FAULT == -1
NullOpsErr == [c \in DOMAIN Tested |-> IF c = "fchmod" THEN FAULT ELSE ENXIO]
NoCallbackErr == [c \in DOMAIN Tested |->
                    CASE c = "fchmod" -> ENOSYS [] c = "ioctl" -> ENOTTY
                      [] OTHER -> ENXIO]

usys_readdir_check(f) ==
    IF "DIR" \notin file[f].flags THEN ENOTDIR
    ELSE IF ~file[f].kind.has_ops \/ file[f].kind.ops \cap {"readdir", "read"} = {}
         THEN ENXIO ELSE 0

Precheck(call, f) ==
    IF call = "write" /\ "RDONLY" \in file[f].flags THEN EBADF
    ELSE IF call = "readdir" THEN usys_readdir_check(f)
    ELSE IF call \notin DOMAIN Tested THEN 0
    ELSE IF ~file[f].kind.has_ops THEN NullOpsErr[call]
    ELSE IF Tested[call] \notin file[f].kind.ops THEN NoCallbackErr[call]
    ELSE 0

\* ok: what the call does with the file under f->mutex.
FdCall(t, call, d, ok) ==
    /\ pc[t] = "idle"
    /\ \/ ~CHECK_FD(d) /\ Fail(t, EBADF) /\ UNCHANGED <<fd, file>>
       \/ /\ CHECK_FD(d)
          /\ LET e == Precheck(call, fd[d]) IN
                \/ e = FAULT /\ Panic(t) /\ UNCHANGED <<fd, file>>
                \/ e > 0 /\ Fail(t, e) /\ UNCHANGED <<fd, file>>
                \/ e = 0 /\ ok
    /\ UNCHANGED <<cwd_file, cwd_path, fd_find_mutex>>

\* read and write return what the callback returns, EIO for a negative count.
count_call(t, ret) ==
    Return(t, ret, IF ret < 0 THEN EIO ELSE 0) /\ UNCHANGED <<fd, file>>

usys_read(t, d, ret)  == FdCall(t, "read", d, count_call(t, ret))
usys_write(t, d, ret) == FdCall(t, "write", d, count_call(t, ret))

\* The ioctl() callback returns its result and stores the errno itself.
usys_ioctl(t, d, ret, e) ==
    FdCall(t, "ioctl", d, Return(t, ret, e) /\ UNCHANGED <<fd, file>>)

\* fchmod, fchown, fstat and ftruncate return -1 when the callback fails.
errno_call(t, e) == Return(t, ErrRc(e), e) /\ UNCHANGED <<fd, file>>

usys_fchmod(t, d, e)    == FdCall(t, "fchmod", d, errno_call(t, e))
usys_fchown(t, d, e)    == FdCall(t, "fchown", d, errno_call(t, e))
usys_fstat(t, d, e)     == FdCall(t, "fstat", d, errno_call(t, e))
usys_ftruncate(t, d, e) == FdCall(t, "ftruncate", d, errno_call(t, e))

\* readdir() ends the directory with ENOENT; without it read() has to fill
\* one whole struct dirent (len: 0 nothing, 1 whole, -1 anything else).
usys_readdir_locked(t, f, e, len) ==
    /\ IF "readdir" \in file[f].kind.ops
       THEN Return(t, IF e = ENOENT THEN 0 ELSE IF e # 0 THEN -1 ELSE 1,
                      IF e = ENOENT THEN 0 ELSE e)
       ELSE Return(t, len, IF len < 0 THEN EIO ELSE 0)
    /\ UNCHANGED <<fd, file>>

usys_readdir(t, d, e, len) ==
    FdCall(t, "readdir", d, usys_readdir_locked(t, fd[d], e, len))

\* The property calls test the callback under the mutex, never f->ops, and
\* return the errno.
property_call(t, call, f, e) ==
    /\ \/ ~file[f].kind.has_ops /\ Panic(t)
       \/ file[f].kind.has_ops /\ call \notin file[f].kind.ops /\ Return(t, ENOTTY, ENOTTY)
       \/ file[f].kind.has_ops /\ call \in file[f].kind.ops /\ Return(t, e, e)
    /\ UNCHANGED <<fd, file>>

usys_setproperty(t, d, e) ==
    FdCall(t, "setproperty", d, property_call(t, "setproperty", fd[d], e))
usys_getproperty(t, d, e) ==
    FdCall(t, "getproperty", d, property_call(t, "getproperty", fd[d], e))
usys_listproperties(t, d, e) ==
    FdCall(t, "listproperties", d, property_call(t, "listproperties", fd[d], e))

\* SEEK_CUR has no break and runs into SEEK_END.  SEEK_SET reads f->ops only
\* after the test of the position, when f->pos is stored already.  e is the
\* answer of seek() or, where the file has no seek(), what *err held at the
\* call.  MaxPos bounds the positions of the model.
Whence == {"SEEK_SET", "SEEK_CUR", "SEEK_END"}
SeekPos(f, offset, whence) ==
    (IF whence = "SEEK_CUR" THEN offset + file[f].pos ELSE offset)
        + (IF whence = "SEEK_SET" THEN 0 ELSE file[f].kind.size)


\* Mutant: usys_lseek() stores the position without the test "pos < 0".
usys_lseek_locked_untested(t, f, offset, whence, e) ==
    LET k == file[f].kind
        sized == whence # "SEEK_SET"
        newpos == SeekPos(f, offset, whence)
        sizable == sized => k.has_ops /\ "getsize" \in k.ops
    IN  /\ \/ ~sizable /\ Panic(t) /\ UNCHANGED file
           \/ sizable /\ sized /\ k.size < 0 /\ Fail(t, ESPIPE) /\ UNCHANGED file
           \/ /\ sizable /\ (sized => k.size >= 0)
              /\ newpos <= MaxPos
              /\ file' = [file EXCEPT ![f].pos = newpos]
              /\ \/ ~k.has_ops /\ Panic(t)
                 \/ k.has_ops /\ Return(t, IF e # 0 THEN -1 ELSE newpos, e)
        /\ UNCHANGED fd

usys_lseek_locked(t, f, offset, whence, e) ==
    LET k == file[f].kind
        sized == whence # "SEEK_SET"
        newpos == SeekPos(f, offset, whence)
        sizable == sized => k.has_ops /\ "getsize" \in k.ops
    IN  /\ \/ ~sizable /\ Panic(t) /\ UNCHANGED file
           \/ sizable /\ sized /\ k.size < 0 /\ Fail(t, ESPIPE) /\ UNCHANGED file
           \/ /\ sizable /\ (sized => k.size >= 0)
              /\ newpos < 0
              /\ Fail(t, EINVAL) /\ UNCHANGED file
           \/ /\ sizable /\ (sized => k.size >= 0)
              /\ newpos \in 0..MaxPos
              /\ file' = [file EXCEPT ![f].pos = newpos]
              /\ \/ ~k.has_ops /\ Panic(t)
                 \/ k.has_ops /\ Return(t, IF e # 0 THEN -1 ELSE newpos, e)
        /\ UNCHANGED fd

usys_lseek(t, d, offset, whence, e) ==
    FdCall(t, "lseek", d, usys_lseek_locked(t, fd[d], offset, whence, e))

\* F_GETFL tests "f->flags | UU_FILE_FLAG_RDONLY".
GetFl(fl) == IF fl \cup {"RDONLY"} # {} THEN O_RDONLY ELSE O_RDWR
FcntlCmds == {"F_GETFD", "F_SETFD", "F_GETFL", "F_SETFL", "other"}

usys_fcntl_locked(t, f, cmd, arg) ==
    /\ \/ cmd = "F_GETFD" /\ Return(t, 0, 0)
       \/ cmd = "F_SETFD" /\ arg = 0 /\ Return(t, 0, 0)
       \/ cmd = "F_GETFL" /\ Return(t, GetFl(file[f].flags), 0)
       \/ (cmd \in {"F_SETFL", "other"} \/ (cmd = "F_SETFD" /\ arg # 0))
          /\ Fail(t, EINVAL)
    /\ UNCHANGED <<fd, file>>

usys_fcntl(t, d, cmd, arg) ==
    FdCall(t, "fcntl", d, usys_fcntl_locked(t, fd[d], cmd, arg))

\* usys_close() reads the file from the table, takes its mutex, and clears
\* the slot whatever fs->close() returns.  Its caller is the process,
\* usys_dup2() or uu_close_all().
usys_close(t, d) ==
    FdCall(t, "close", d,
           Goto(t, "close", [NoLoc EXCEPT !.f = fd[d], !.d = d])
           /\ UNCHANGED <<fd, file>>)

usys_close_locked(t, e) ==
    /\ pc[t] = "close"
    /\ fd' = [fd EXCEPT ![loc[t].d] = NoFile]
    /\ UNCHANGED <<cwd_file, cwd_path, fd_find_mutex>>
    /\ \/ loc[t].then = "return" /\ Return(t, ErrRc(e), e)
       \/ /\ loc[t].then = "dup2"
          /\ Goto(t, "dup2_store", [NoLoc EXCEPT !.f = loc[t].g, !.d = loc[t].d,
                                                 !.err = e])
       \/ /\ loc[t].then = "close_all"
          /\ Goto(t, "close_all", [NoLoc EXCEPT !.i = loc[t].i + 1])
    /\ file' = Gone(file, loc[t].f)

-----------------------------------------------------------------------------
(* Calls on a name.  uu_namei() gives the caller a reference; k is the     *)
(* kind of what it found, e what the callback returns.                     *)

\* stat, truncate and rm: the file uu_namei() found is private to the call.
\* After the callback unlink_uufile() takes it back; without the callback the
\* call returns ENXIO and leaves the file allocated, out of anyone's reach.
\* usys_rm() does not test f->ops.
name_call(t, k, callback, e) ==
    /\ pc[t] = "idle"
    /\ UNCHANGED <<process, fd_find_mutex>>
    /\ \/ Fail(t, ENOENT) /\ UNCHANGED file
       \/ ~k.has_ops /\ callback = "unlink" /\ Panic(t) /\ UNCHANGED file
       \/ /\ ~k.has_ops => callback # "unlink"
          /\ ~(k.has_ops /\ callback \in k.ops)
          /\ FreeFiles # {}
          /\ Fail(t, ENXIO)
          /\ file' = Created(file, NewFile, k, NameiFlags(k))
       \/ k.has_ops /\ callback \in k.ops /\ Return(t, ErrRc(e), e) /\ UNCHANGED file

usys_stat(t, k, e)     == name_call(t, k, "stat", e)
usys_truncate(t, k, e) == name_call(t, k, "setsize", e)
usys_rm(t, k, e)       == name_call(t, k, "unlink", e)

\* if(u->cwd_file) unlink_uufile( u->cwd_file ): the reference of the
\* directory the call found in u->cwd_file goes back.
Left(F, g) == IF g = NoFile THEN F ELSE Released(F, g)

\* usys_chdir() up to the test of u->cwd_file.  A path that does not
\* normalise returns ENOENT as the value, not in *err.
usys_chdir(t, k) ==
    /\ pc[t] = "idle"
    /\ UNCHANGED <<process, fd_find_mutex>>
    /\ \/ Return(t, ENOENT, 0) /\ UNCHANGED file
       \/ Fail(t, ENOENT) /\ UNCHANGED file
       \/ ~k.dir /\ Fail(t, ENOTDIR) /\ UNCHANGED file
       \/ /\ k.dir /\ FreeFiles # {}
          /\ file' = Created(file, NewFile, k, NameiFlags(k))
          /\ Goto(t, "cwd_store", [NoLoc EXCEPT !.call = "chdir", !.f = NewFile,
                                                !.g = cwd_file])

\* The unlink of the directory the test saw, and the store: u->cwd_file is
\* read and written without a lock.
usys_chdir_store(t) ==
    /\ pc[t] = "cwd_store" /\ loc[t].call = "chdir"
    /\ cwd_file' = loc[t].f
    /\ cwd_path' = "path"
    /\ Return(t, 0, 0)
    /\ UNCHANGED <<fd, fd_find_mutex>>
    /\ file' = Left(file, loc[t].g)

\* usys_fchdir() up to the test of u->cwd_file.  The test of the flags
\* refuses the descriptor of a directory.
usys_fchdir(t, d) ==
    /\ pc[t] = "idle"
    /\ UNCHANGED <<process, file, fd_find_mutex>>
    /\ \/ ~CHECK_FD(d) /\ Fail(t, EBADF)
       \/ CHECK_FD(d) /\ "DIR" \in file[fd[d]].flags /\ Fail(t, ENOTDIR)
       \/ /\ CHECK_FD(d) /\ "DIR" \notin file[fd[d]].flags /\ FreeFiles # {}
          /\ Goto(t, "cwd_store", [NoLoc EXCEPT !.call = "fchdir", !.f = fd[d],
                                                !.g = cwd_file])

\* u->cwd_file becomes a copy of the file GETF() read; its getpath() fills
\* the path that was emptied, through an ops pointer nobody tested.
usys_fchdir_store(t) ==
    /\ pc[t] = "cwd_store" /\ loc[t].call = "fchdir"
    /\ FreeFiles # {}
    /\ UNCHANGED <<fd, fd_find_mutex>>
    /\ LET f == file[loc[t].f] IN
          /\ cwd_file' = NewFile
          /\ cwd_path' = IF "getpath" \in f.kind.ops THEN "path" ELSE "empty"
          /\ \/ f.kind.has_ops /\ Return(t, 0, 0)
             \/ ~f.kind.has_ops /\ Panic(t)
          /\ file' = Left(Created(file, NewFile, f.kind, f.flags), loc[t].g)

\* fits: bufsize holds the path and its terminator.
usys_getcwd(t, fits) ==
    /\ pc[t] = "idle"
    /\ IF fits THEN Return(t, IF cwd_path = "empty" THEN 1 ELSE 2, 0)
       ELSE Fail(t, EINVAL)
    /\ UNCHANGED <<process, file, fd_find_mutex>>

\* symlink and mkdir are calls of the file system uu_findfs() finds.
fs_call(t, found, callback, e) ==
    /\ pc[t] = "idle"
    /\ \/ ~found /\ Fail(t, ENOENT)
       \/ found /\ ~callback /\ Fail(t, ENXIO)
       \/ found /\ callback /\ Return(t, ErrRc(e), e)
    /\ UNCHANGED <<process, file, fd_find_mutex>>

usys_symlink(t, found, callback, e) == fs_call(t, found, callback, e)
usys_mkdir(t, found, callback, e)   == fs_call(t, found, callback, e)

\* Process death: every descriptor that is set is closed by usys_close().
uu_close_all(t) ==
    /\ pc[t] = "idle"
    /\ Goto(t, "close_all", [NoLoc EXCEPT !.i = 0])
    /\ UNCHANGED <<process, file, fd_find_mutex>>


\* Mutant: the loop of uu_close_all() ends one slot early.
uu_close_all_loop_short(t) ==
    /\ pc[t] = "close_all"
    /\ LET i == loc[t].i IN
          \/ /\ i >= MAX_UU_FD - 1
             /\ pc' = [pc EXCEPT ![t] = "idle"]
             /\ loc' = [loc EXCEPT ![t] = NoLoc]
             /\ UNCHANGED result
          \/ /\ i < MAX_UU_FD - 1 /\ fd[i] = NoFile
             /\ Goto(t, "close_all", [loc[t] EXCEPT !.i = i + 1])
          \/ /\ i < MAX_UU_FD - 1 /\ fd[i] # NoFile
             /\ Goto(t, "close", [NoLoc EXCEPT !.f = fd[i], !.d = i, !.i = i,
                                                !.then = "close_all"])
    /\ UNCHANGED <<process, file, fd_find_mutex>>

uu_close_all_loop(t) ==
    /\ pc[t] = "close_all"
    /\ LET i == loc[t].i IN
          \/ /\ i = MAX_UU_FD
             /\ pc' = [pc EXCEPT ![t] = "idle"]
             /\ loc' = [loc EXCEPT ![t] = NoLoc]
             /\ UNCHANGED result
          \/ /\ i < MAX_UU_FD /\ fd[i] = NoFile
             /\ Goto(t, "close_all", [loc[t] EXCEPT !.i = i + 1])
          \/ /\ i < MAX_UU_FD /\ fd[i] # NoFile
             /\ Goto(t, "close", [NoLoc EXCEPT !.f = fd[i], !.d = i, !.i = i,
                                                !.then = "close_all"])
    /\ UNCHANGED <<process, file, fd_find_mutex>>

-----------------------------------------------------------------------------
CallbackErr == {0, EIO}

\* A thread enters a call.
Enter(t) ==
    \/ \E k \in Kinds, e \in CallbackErr :
          \/ \E wr \in BOOLEAN : usys_open(t, k, wr, e)
          \/ usys_creat(t, k, e)
          \/ usys_stat(t, k, e)
          \/ usys_truncate(t, k, e)
          \/ usys_rm(t, k, e)
          \/ t \in CwdThreads /\ usys_chdir(t, k)
    \/ \E d \in Slots \cup {MAX_UU_FD} :
          \/ \E ret \in {-1, 0, 1} :
                \/ usys_read(t, d, ret) \/ usys_write(t, d, ret)
                \/ \E e \in CallbackErr : usys_ioctl(t, d, ret, e)
          \/ \E e \in CallbackErr :
                \/ usys_fchmod(t, d, e) \/ usys_fchown(t, d, e)
                \/ usys_fstat(t, d, e) \/ usys_ftruncate(t, d, e)
                \/ usys_setproperty(t, d, e) \/ usys_getproperty(t, d, e)
                \/ usys_listproperties(t, d, e)
                \/ \E offset \in Offsets, whence \in Whence :
                      usys_lseek(t, d, offset, whence, e)
          \/ \E e \in CallbackErr \cup {ENOENT}, len \in {-1, 0, 1} :
                usys_readdir(t, d, e, len)
          \/ \E cmd \in FcntlCmds, arg \in {0, 1} : usys_fcntl(t, d, cmd, arg)
          \/ usys_close(t, d)
          \/ t \in CwdThreads /\ usys_fchdir(t, d)
          \/ usys_dup(t, d)
          \/ \E dst \in Slots \cup {MAX_UU_FD} : usys_dup2(t, d, dst)
    \/ usys_pipe(t)
    \/ \E fits \in BOOLEAN : usys_getcwd(t, fits)
    \/ \E found, callback \in BOOLEAN, e \in CallbackErr :
          usys_symlink(t, found, callback, e) \/ usys_mkdir(t, found, callback, e)
    \/ uu_close_all(t)

\* A thread goes on inside the call it is in.
Continue(t) ==
    \/ uu_find_fd(t)
    \/ uu_find_fd_store(t)
    \/ \E e \in CallbackErr : usys_close_locked(t, e)
    \/ usys_dup2_store(t)
    \/ usys_chdir_store(t) \/ usys_fchdir_store(t)
    \/ uu_close_all_loop(t)

Next == \E t \in Threads : Enter(t) \/ Continue(t)

\* The scheduler runs every thread that is inside a call; nothing makes a
\* thread enter one.
Fairness == \A t \in Threads : WF_vars(Continue(t))

Spec == Init /\ [][Next]_vars /\ Fairness

-----------------------------------------------------------------------------
PcLabels == {"idle", "find_fd", "find_fd_store", "close", "dup2_store",
             "cwd_store", "close_all", "panic"}

TypeOK ==
    /\ fd \in [Slots -> Files \cup {NoFile}]
    /\ cwd_file \in Files \cup {NoFile}
    /\ cwd_path \in {"root", "path", "empty"}
    /\ file \in [Files -> [kind : Kinds \cup {PipeKind, NoKind},
                           flags : SUBSET {"OPEN", "RDONLY", "DIR"},
                           refcount : 0 .. MaxRefs + Cardinality(Threads), pos : 0 .. MaxPos]]
    /\ fd_find_mutex \in Threads \cup {NoThread}
    /\ pc \in [Threads -> PcLabels]
    /\ loc \in [Threads -> LocType]
    /\ result \in [rc : -1 .. ENOSYS, err : {0} \cup Errno]

\* The descriptors and the working directory that hold file f.
Holders(f) ==
    Cardinality({d \in Slots : fd[d] = f}) + (IF cwd_file = f THEN 1 ELSE 0)

\* Every descriptor owns a reference: a file that usys_open(), usys_dup(),
\* usys_dup2(), usys_chdir() or usys_fchdir() put into u->fd[] or
\* u->cwd_file has at least as many references as places that hold it, in
\* every interleaving of the calls on u->fd[] (link_uufile() comes before
\* the store, unlink_uufile() only after a store that did not happen) with
\* the changes of directory of the threads in CwdThreads.  The ends of a
\* pipe are left to DescriptorsAreLive.
DescriptorsOwnReferences ==
    \A f \in Files : file[f].kind # PipeKind => file[f].refcount >= Holders(f)

\* No descriptor outlives its file: a slot of u->fd[] never holds a file
\* whose last reference unlink_uufile() took.  usys_pipe() unlinks both
\* ends when one uu_find_fd() fails.
DescriptorsAreLive ==
    \A d \in Slots : fd[d] # NoFile => file[fd[d]].refcount > 0

\* A store into u->fd[] finds the slot empty: uu_find_fd() stores into the
\* slot it tested under fd_find_mutex, and usys_dup2() stores into
\* dst_fd after it closed what was there ("TODO lock fd[] access").
StoreIntoEmptySlot ==
    [][\A d \in Slots : fd'[d] \notin {fd[d], NoFile} => fd[d] = NoFile]_vars

\* u->cwd_file owns one reference, and a call gives it back once: the
\* directory that usys_chdir() or usys_fchdir() hands to unlink_uufile() is
\* one that still has its reference, whichever threads of the process
\* change directory.  Both calls test u->cwd_file, unlink what they saw and
\* store the new directory with no lock held.
CwdIsUnlinkedOnce ==
    [][\A t \in Threads :
          (pc[t] = "cwd_store" /\ pc'[t] # "cwd_store" /\ loc[t].g # NoFile)
              => file[loc[t].g].refcount > 0]_vars

\* uu_close_all() leaves no descriptor behind: when the thread of a dying
\* process comes out of the loop, every slot of u->fd[] is empty, whatever
\* fs->close() returned for each of them.
CloseAllEmptiesTable ==
    [][\A t \in Threads :
          pc[t] = "close_all" /\ pc'[t] = "idle" => \A d \in Slots : fd'[d] = NoFile]_vars

\* No call hangs: a thread inside a call returns or comes to wait for
\* fd_find_mutex (or the kernel has stopped), and fd_find_mutex is given up
\* on both ways out of uu_find_fd(), the slot found and the table full.
NoCallHangs ==
    /\ \A t \in Threads :
          pc[t] \notin {"idle", "find_fd"} ~> pc[t] \in {"idle", "find_fd", "panic"}
    /\ \A t \in Threads : fd_find_mutex = t ~> fd_find_mutex # t


\* The files that are allocated and that neither the process nor a call in
\* progress points to: no unlink_uufile() will ever come for them.
LostFiles == {f \in Files : file[f] # Unused} \ Pointed

\* Calls made one after the other lose a reference in one way only:
\* usys_stat(), usys_truncate() and usys_rm() return ENXIO, for a file
\* without the callback, before their unlink_uufile(), and the file
\* uu_namei() handed out stays.  Every other way out of a call (ENOENT,
\* EMFILE after uu_find_fd() in usys_open(), usys_dup() and usys_pipe(), the
\* error of fs->open(), the slot that usys_close(), usys_dup2() or
\* uu_close_all() cleared, the directory that usys_chdir() or usys_fchdir()
\* replaced) gives back what the call took, for every kind of file and
\* after any sequence of calls.
ReferenceLostHasCause ==
    [][\A f \in LostFiles' \ LostFiles :
          file[f] = Unused /\ result' = [rc |-> -1, err |-> ENXIO]]_vars

=============================================================================
