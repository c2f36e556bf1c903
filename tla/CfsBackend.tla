----------------------------- MODULE CfsBackend -----------------------------
(***************************************************************************)
(* What a back-end of the Sancus file system promises its front-end (the   *)
(* interface src/access_control/sfs/cfs/cfs.h): a set of named files, and  *)
(* file descriptors that are open on one file each until they are closed,  *)
(* their file is removed, the back-end is formatted or the node restarts.  *)
(*                                                                         *)
(* A back-end may refuse to open or remove.  Reading, writing and seeking  *)
(* change neither the set of files nor the descriptors.                    *)
(***************************************************************************)
CONSTANTS
  Name, FD,
  NULL         \* no name

VARIABLES
  files,       \* the names of the existing files
  fds          \* [FD -> Name or NULL]: the file a descriptor is open on

NONE_OPEN == [fd \in FD |-> NULL]

Init == files = {} /\ fds = NONE_OPEN

\* The file is created if it does not exist.
cfs_open(name, fd) ==
  /\ fds[fd] = NULL
  /\ files' = files \cup {name}
  /\ fds' = [fds EXCEPT ![fd] = name]

\* No descriptor is returned; the file may have been created all the same.
cfs_open_refused(name) == files' = files \cup {name} /\ UNCHANGED fds

cfs_close(fd) == fds' = [fds EXCEPT ![fd] = NULL] /\ UNCHANGED files

\* The file is removed, and no descriptor is left on it.
cfs_remove(name) ==
  /\ files' = files \ {name}
  /\ fds' = [fd \in FD |-> IF fds[fd] = name THEN NULL ELSE fds[fd]]

cfs_format == files' = {} /\ fds' = NONE_OPEN

\* The restart of a back-end that keeps its files.
Restart == fds' = NONE_OPEN /\ UNCHANGED files

\* A restart within a call, whose effect on the files is there or not.
cfs_open_cut(name) == files' = files \cup {name} /\ fds' = NONE_OPEN
cfs_remove_cut(name) == files' = files \ {name} /\ fds' = NONE_OPEN

\* The calls that lose no file.
OpenOrClose ==
  \/ \E name \in Name : cfs_open_refused(name)
  \/ \E name \in Name, fd \in FD : cfs_open(name, fd)
  \/ \E fd \in FD : cfs_close(fd)

\* What may happen to a back-end that keeps its files over a restart.
Next ==
  \/ OpenOrClose
  \/ \E name \in Name : cfs_remove(name) \/ cfs_open_cut(name) \/ cfs_remove_cut(name)
  \/ cfs_format \/ Restart

Spec == Init /\ [][Next]_<<files, fds>>
=============================================================================
