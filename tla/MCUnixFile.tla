----------------------------- MODULE MCUnixFile -----------------------------
(***************************************************************************)
(* UnixFile for TLC: the threads, and the kinds of file that reach every   *)
(* branch of the calls.                                                    *)
(***************************************************************************)
EXTENDS UnixFile

CONSTANTS t1, t2

\* Two threads for the interleavings of the table, one for the calls taken
\* one by one over every kind of file.
MCThreads == {t1, t2}
MCOneThread == {t1}

\* A regular file of a file system that knows every call on a file.
Regular ==
    [dir |-> FALSE, fs_open |-> TRUE, has_ops |-> TRUE, size |-> 1,
     ops |-> {"read", "write", "chmod", "chown", "stat", "setsize", "getsize",
              "seek", "unlink", "getpath", "setproperty", "getproperty",
              "listproperties"}]

\* A directory that lists itself with readdir() and has no size.
Directory ==
    [dir |-> TRUE, fs_open |-> TRUE, has_ops |-> TRUE, size |-> -1,
     ops |-> {"readdir", "stat", "getpath"}]

\* A directory that is read as a file of struct dirent.
OldDirectory ==
    [dir |-> TRUE, fs_open |-> TRUE, has_ops |-> TRUE, size |-> 0,
     ops |-> {"read", "getsize"}]

\* A device: read, write and ioctl, no size.
Device ==
    [dir |-> FALSE, fs_open |-> TRUE, has_ops |-> TRUE, size |-> -1,
     ops |-> {"read", "write", "ioctl", "getsize"}]

\* A name whose file system sets neither fs->open nor f->ops.
Bare ==
    [dir |-> FALSE, fs_open |-> FALSE, has_ops |-> FALSE, size |-> -1,
     ops |-> {}]

\* A file that opens and has no f->ops.
Opaque ==
    [dir |-> FALSE, fs_open |-> TRUE, has_ops |-> FALSE, size |-> -1,
     ops |-> {}]

MCKinds == {Regular, Directory, OldDirectory, Device, Bare, Opaque}

\* What two threads open: the kind of a file does not change the order in
\* which the table is read and written.
MCFewKinds == {Regular}

\* What two threads that change directory open: usys_chdir() wants a
\* directory, usys_fchdir() takes anything else.
MCDirKinds == {Regular, Directory}

MCPipeKind ==
    [dir |-> FALSE, fs_open |-> FALSE, has_ops |-> TRUE, size |-> -1,
     ops |-> {"read", "write", "getsize"}]

MCOffsets == {-1, 1}

ASSUME MCPipeKind \notin MCKinds /\ MCKinds \cup {MCPipeKind} \subseteq KindType

=============================================================================
