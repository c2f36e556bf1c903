--------------------------------- MODULE Sfs ---------------------------------
(***************************************************************************)
(* The protected front-end of the Sancus file system                       *)
(* (src/access_control/sfs/sfs-ram.c): files with access control lists,    *)
(* built from two pools of structs, and a cache that maps the file         *)
(* descriptors of the CFS back-end to permissions.                         *)
(*                                                                         *)
(* A list is the sequence of the structs its next pointers visit, a struct *)
(* an index in its pool.  A freed struct is cleared, which the code does   *)
(* not do: NoDangling says that nothing refers to one.  The back-end is any*)
(* one that keeps files apart and hands out unused file descriptors; it may*)
(* refuse every open, write and remove.  Positions and bytes are left out: *)
(* of a file's content it is only known whether there is any.              *)
(***************************************************************************)
EXTENDS Integers, FiniteSets, Sequences, SequencesExt

CONSTANTS
  Name,               \* logical file names
  SM,                 \* the client modules
  MAX_NB_OPEN_FILES,  \* size of fd_cache
  MAX_NB_FILES,       \* size of file_pool
  MAX_NB_PERMS,       \* size of perm_pool
  NB_CFS_FDS,         \* file descriptors of the back-end
  Flags,              \* permissions passed to sfs_chmod
  Wanted,             \* permissions passed to sfs_open
  NO_CFS_FORMAT       \* built with -DNO_CFS_FORMAT

ASSUME SizesAssumption ==
  /\ MAX_NB_OPEN_FILES \in Nat \ {0} /\ NB_CFS_FDS \in Nat \ {0}
  /\ MAX_NB_FILES \in Nat \ {0} /\ MAX_NB_PERMS \in Nat \ {0}

VARIABLES
  perm_pool, file_pool,            \* the structs
  free_perm_list, free_file_list,  \* sequences of free structs
  open_file_list,                  \* sequence of the existing files
  fd_cache,                        \* [FD -> FILE_PERM or NULL]
  INIT_DONE,
  cfs_fd,                          \* back-end: the open file of each fd
  cfs_file,                        \* back-end: what is known of a file's content
  granted                          \* the access the last call was granted

backend == <<cfs_fd, cfs_file>>
vars == <<perm_pool, file_pool, free_perm_list, free_file_list,
          open_file_list, fd_cache, INIT_DONE, backend, granted>>

NULL == 0
NOBODY == <<>>
NOTHING == <<>>
Perm == 1 .. MAX_NB_PERMS
File == 1 .. MAX_NB_FILES
FD == 0 .. MAX_NB_OPEN_FILES - 1
CFS_FD == 0 .. NB_CFS_FDS - 1

\* Permissions are the sets of the bits of an int.  The byte of sfs.h:70 is not
\* enforced: there are permissions with more bits than the creator's.
Bit == 0 .. 15
SFS_NIL == {}
SFS_READ == {0}
SFS_WRITE == {1}
SFS_ROOT == 0 .. 6
SFS_CREATOR == 0 .. 7

ASSUME FlagsAssumption == Flags \cup Wanted \subseteq SUBSET Bit

ASSUME NullAssumption == NULL \notin SM \cup Name

CHK_PERM(have, want) == want \subseteq have

NoPerm == [sm_id |-> NULL, flags |-> {}, file |-> NULL]
NoFile == [name |-> NULL, open_count |-> 0, acl |-> <<>>]

TypeOK ==
  /\ perm_pool \in [Perm -> [sm_id : SM \cup {NULL}, flags : SUBSET Bit,
                             file : File \cup {NULL}]]
  /\ DOMAIN file_pool = File
  /\ \A f \in File :
       /\ file_pool[f].name \in Name \cup {NULL}
       /\ file_pool[f].open_count \in 0 .. MAX_NB_OPEN_FILES
       /\ file_pool[f].acl \in Seq(Perm)
  /\ free_perm_list \in Seq(Perm)
  /\ free_file_list \in Seq(File) /\ open_file_list \in Seq(File)
  /\ fd_cache \in [FD -> Perm \cup {NULL}]
  /\ INIT_DONE \in BOOLEAN
  /\ cfs_fd \in [CFS_FD -> Name \cup {NULL}]
  /\ cfs_file \in [Name -> {"absent", "empty", "data"}]

-----------------------------------------------------------------------------
(* The data a call works on.                                                *)

Data == [perm |-> perm_pool, file |-> file_pool,
         freePerms |-> free_perm_list, freeFiles |-> free_file_list,
         files |-> open_file_list, fds |-> fd_cache,
         cfs |-> cfs_fd, content |-> cfs_file]

\* init_data_structures, with the cfs_format of the back-end
InitialData ==
  [Data EXCEPT
     !.freePerms = [i \in Perm |-> i], !.freeFiles = [i \in File |-> i],
     !.files = <<>>, !.fds = [fd \in FD |-> NULL],
     !.content = IF NO_CFS_FORMAT THEN @ ELSE [name \in Name |-> "absent"]]

DO_INIT == IF INIT_DONE THEN Data ELSE InitialData

\* End of a call: the data is d and the caller was granted access.
Return(d, access) ==
  /\ perm_pool' = d.perm /\ file_pool' = d.file
  /\ free_perm_list' = d.freePerms /\ free_file_list' = d.freeFiles
  /\ open_file_list' = d.files /\ fd_cache' = d.fds
  /\ cfs_fd' = d.cfs /\ cfs_file' = d.content
  /\ INIT_DONE' = TRUE
  /\ granted' = access

FAILURE == Return(DO_INIT, NOTHING)

\* The position of sm in the access control list of file f, 0 if there is none.
Position(d, f, sm) ==
  SelectInSeq(d.file[f].acl, LAMBDA p : d.perm[p].sm_id = sm)

LOOKUP_PERM(d, f, sm) ==
  LET k == Position(d, f, sm) IN IF k = 0 THEN NULL ELSE d.file[f].acl[k]

\* The position of name in the list of files, 0 if there is none.
FilePosition(d, name) == SelectInSeq(d.files, LAMBDA f : d.file[f].name = name)

LOOKUP_FILE(d, name) ==
  LET k == FilePosition(d, name) IN IF k = 0 THEN NULL ELSE d.files[k]

\* two_phase_lookup: name exists and its entry for sm has the wanted flags.
two_phase_lookup(d, name, want, sm) ==
  LET f == LOOKUP_FILE(d, name)
      p == LOOKUP_PERM(d, f, sm)
  IN  f # NULL /\ p # NULL /\ CHK_PERM(d.perm[p].flags, want)

FREE_PERM(d, p) ==
  [d EXCEPT !.perm[p] = NoPerm, !.freePerms = <<p>> \o @]

-----------------------------------------------------------------------------
(* The CFS back-end: the possible outcomes of a call, as sets.              *)

\* A new descriptor, or none: then a file may have been created all the same.
cfs_open(d, name) ==
  LET created == [d EXCEPT !.content[name] = IF @ = "absent" THEN "empty" ELSE @]
  IN  {[fd |-> fd, d |-> [created EXCEPT !.cfs[fd] = name]] :
         fd \in {fd \in CFS_FD : d.cfs[fd] = NULL}}
      \cup {[fd |-> -1, d |-> d], [fd |-> -1, d |-> created]}

cfs_close(d, fd) == IF fd \in CFS_FD THEN [d EXCEPT !.cfs[fd] = NULL] ELSE d

\* The front-end does not look at the result: a file that could not be removed is
\* kept as it is.
cfs_remove(d, name) == {d, [d EXCEPT !.content[name] = "absent"]}

\* Mutation: the connection is not counted.
OpenNotCounted(d, name, p, access) ==
  \E r \in cfs_open(d, name) :
    IF r.fd \in FD
    THEN Return([r.d EXCEPT !.fds[r.fd] = p], access)
    ELSE Return(cfs_close(r.d, r.fd), NOTHING)

\* Mutation: a descriptor out of range is not given back.
OpenKeepsOutOfRange(d, name, p, access) ==
  \E r \in cfs_open(d, name) :
    IF r.fd \in FD
    THEN Return([r.d EXCEPT !.file[d.perm[p].file].open_count = @ + 1,
                            !.fds[r.fd] = p], access)
    ELSE Return(r.d, NOTHING)

open_back_end_file(d, name, p, access) ==
  \E r \in cfs_open(d, name) :
    IF r.fd \in FD
    THEN Return([r.d EXCEPT !.file[d.perm[p].file].open_count = @ + 1,
                            !.fds[r.fd] = p], access)
    ELSE Return(cfs_close(r.d, r.fd), NOTHING)

-----------------------------------------------------------------------------
(* Access control lists.                                                    *)

\* CLOSE_FD, for every descriptor in fds; all are connections on file f.
CLOSE_FDS(d, f, fds) ==
  [d EXCEPT !.file[f].open_count = @ - Cardinality(fds),
            !.fds = [fd \in FD |-> IF fd \in fds THEN NULL ELSE @[fd]],
            !.cfs = [fd \in CFS_FD |-> IF fd \in fds THEN NULL ELSE @[fd]]]

\* Take entry k out of a list: prev->next = cur->next, which for the first
\* entry (prev = cur) leaves the list as it is.
Unlink(list, k) == IF k = 1 THEN list ELSE RemoveAt(list, k)

\* Mutation: the connections of the module stay open.
RevokeKeepsFds(d, f, id) ==
  LET k == Position(d, f, id)
      p == d.file[f].acl[k]
  IN  CASE k = 0 -> d
        [] k # 0 /\ d.perm[p].flags = SFS_CREATOR -> d
        [] OTHER -> FREE_PERM([d EXCEPT !.file[f].acl = Unlink(@, k)], p)

\* The data after revoke_acl; it fails for a creator, without effect.
revoke_acl(d, f, id) ==
  LET k == Position(d, f, id)
      p == d.file[f].acl[k]
  IN  CASE k = 0 -> d
        [] k # 0 /\ d.perm[p].flags = SFS_CREATOR -> d
        [] OTHER -> FREE_PERM([CLOSE_FDS(d, f, {fd \in FD : d.fds[fd] = p})
                                 EXCEPT !.file[f].acl = Unlink(@, k)], p)

\* Mutation: the permissions of a creator are overridden.
AddOverridesCreator(d, f, id, flags) ==
  LET k == Position(d, f, id)
      new == Head(d.freePerms)
  IN  CASE k # 0 -> [d EXCEPT !.perm[d.file[f].acl[k]].flags = flags]
        [] k = 0 /\ (flags = SFS_CREATOR \/ d.freePerms = <<>>) -> d
        [] OTHER -> [d EXCEPT !.perm[new] = [sm_id |-> id, flags |-> flags, file |-> f],
                              !.freePerms = Tail(@), !.file[f].acl = Append(@, new)]

\* The data after add_acl; it fails without effect for a creator, for a new
\* entry with the creator's permissions, and when the pool is exhausted.
add_acl(d, f, id, flags) ==
  LET k == Position(d, f, id)
      old == d.file[f].acl[k]
      new == Head(d.freePerms)
  IN  CASE k # 0 -> IF d.perm[old].flags = SFS_CREATOR THEN d
                    ELSE [d EXCEPT !.perm[old].flags = flags]
        [] k = 0 /\ (flags = SFS_CREATOR \/ d.freePerms = <<>>) -> d
        [] OTHER -> [d EXCEPT !.perm[new] = [sm_id |-> id, flags |-> flags, file |-> f],
                              !.freePerms = Tail(@), !.file[f].acl = Append(@, new)]

-----------------------------------------------------------------------------
Init ==
  /\ perm_pool = [p \in Perm |-> NoPerm] /\ file_pool = [f \in File |-> NoFile]
  /\ free_perm_list = <<>> /\ free_file_list = <<>> /\ open_file_list = <<>>
  /\ fd_cache = [fd \in FD |-> NULL]
  /\ INIT_DONE = FALSE
  /\ cfs_fd = [fd \in CFS_FD |-> NULL]
  /\ cfs_file = [name \in Name |-> "absent"]
  /\ granted = NOTHING

\* sfs_init and sfs_dump
sfs_init == FAILURE

\* sfs_open of a name without a file: it is created in front of the list, and
\* stays when the back-end cannot open it.
sfs_open_new(sm, name) ==
  LET d == DO_INIT
      f == Head(d.freeFiles)
      p == Head(d.freePerms)
  IN  /\ LOOKUP_FILE(d, name) = NULL
      /\ d.freePerms # <<>> /\ d.freeFiles # <<>>
      /\ open_back_end_file(
           [d EXCEPT !.freeFiles = Tail(@), !.freePerms = Tail(@),
                     !.file[f] = [name |-> name, open_count |-> 0, acl |-> <<p>>],
                     !.perm[p] = [sm_id |-> sm, flags |-> SFS_CREATOR, file |-> f],
                     !.files = <<f>> \o @],
           name, p, <<"create", sm, name>>)

\* ... refused: the caller wants an existing file, or a pool is exhausted.
sfs_open_none(name, mayCreate) ==
  /\ LOOKUP_FILE(DO_INIT, name) = NULL
  /\ ~ mayCreate \/ DO_INIT.freePerms = <<>> \/ DO_INIT.freeFiles = <<>>
  /\ FAILURE

\* sfs_open of an existing file
sfs_open_existing(sm, name, want) ==
  LET p == LOOKUP_PERM(DO_INIT, LOOKUP_FILE(DO_INIT, name), sm)
  IN  /\ two_phase_lookup(DO_INIT, name, want, sm)
      /\ open_back_end_file(DO_INIT, name, p, <<"open", sm, name, want>>)

sfs_open_denied(sm, name, want) ==
  /\ LOOKUP_FILE(DO_INIT, name) # NULL
  /\ ~ two_phase_lookup(DO_INIT, name, want, sm)
  /\ FAILURE

\* CHK_FD: fd is a connection of sm.
CHK_FD(d, fd, sm) == d.fds[fd] # NULL /\ d.perm[d.fds[fd]].sm_id = sm

\* Mutation: the descriptor stays in the cache.
CloseKeepsCached(sm, fd) ==
  /\ CHK_FD(DO_INIT, fd, sm)
  /\ Return([Data EXCEPT !.file[perm_pool[fd_cache[fd]].file].open_count = @ - 1],
            NOTHING)

sfs_close(sm, fd) ==
  /\ CHK_FD(DO_INIT, fd, sm)
  /\ Return(CLOSE_FDS(DO_INIT, perm_pool[fd_cache[fd]].file, {fd}), NOTHING)

\* Mutation: only the creator's entry goes back to the pool.
RemoveFreesFirst(sm, name) ==
  LET d == DO_INIT
      f == LOOKUP_FILE(d, name)
  IN  /\ two_phase_lookup(d, name, SFS_ROOT, sm)
      /\ d.file[f].open_count = 0
      /\ \E e \in cfs_remove(d, name) :
           Return([FREE_PERM(e, d.file[f].acl[1]) EXCEPT
                     !.files = RemoveAt(@, FilePosition(d, name)),
                     !.file[f] = NoFile, !.freeFiles = <<f>> \o @], NOTHING)

\* sfs_remove: the front-end forgets the file whether or not cfs_remove fails.
sfs_remove(sm, name) ==
  LET d == DO_INIT
      f == LOOKUP_FILE(d, name)
      acl == d.file[f].acl
  IN  /\ two_phase_lookup(d, name, SFS_ROOT, sm)
      /\ d.file[f].open_count = 0
      /\ \E e \in cfs_remove(d, name) :
           Return([e EXCEPT
                     !.files = RemoveAt(@, FilePosition(d, name)),
                     !.perm = [p \in Perm |-> IF p \in ToSet(acl) THEN NoPerm ELSE @[p]],
                     !.freePerms = Reverse(acl) \o @,
                     !.file[f] = NoFile, !.freeFiles = <<f>> \o @], NOTHING)

sfs_remove_refused(sm, name) ==
  /\ two_phase_lookup(DO_INIT, name, SFS_ROOT, sm)
       => DO_INIT.file[LOOKUP_FILE(DO_INIT, name)].open_count # 0
  /\ FAILURE

\* What sm accesses through fd.
Accessed(op, sm, fd) == <<op, sm, file_pool[perm_pool[fd_cache[fd]].file].name>>

sfs_getc(sm, fd) ==
  /\ CHK_FD(DO_INIT, fd, sm)
  /\ CHK_PERM(perm_pool[fd_cache[fd]].flags, SFS_READ)
  /\ Return(DO_INIT, Accessed("read", sm, fd))

\* Mutation: only the owner of the descriptor is checked.
PutUnchecked(sm, fd) ==
  /\ CHK_FD(DO_INIT, fd, sm)
  /\ \/ Return([Data EXCEPT !.content[cfs_fd[fd]] = "data"],
               Accessed("write", sm, fd))
     \/ Return(Data, Accessed("write", sm, fd))

\* The back-end writes to the file descriptor, or returns an error.
sfs_putc(sm, fd) ==
  /\ CHK_FD(DO_INIT, fd, sm)
  /\ CHK_PERM(perm_pool[fd_cache[fd]].flags, SFS_WRITE)
  /\ \/ Return([Data EXCEPT !.content[cfs_fd[fd]] = "data"],
               Accessed("write", sm, fd))
     \/ Return(Data, Accessed("write", sm, fd))

\* sfs_seek needs no permission; seeking behind the end may extend the file.
sfs_seek(sm, fd) ==
  /\ CHK_FD(DO_INIT, fd, sm)
  /\ \/ Return([Data EXCEPT !.content[cfs_fd[fd]] = "data"], NOTHING)
     \/ Return(Data, NOTHING)

\* The calls on a descriptor that is not the caller's, or without permission.
fd_refused(sm, fd) ==
  /\ CHK_FD(DO_INIT, fd, sm)
       => ~ CHK_PERM(perm_pool[fd_cache[fd]].flags, SFS_READ \cup SFS_WRITE)
  /\ FAILURE

sfs_chmod(sm, name, id, flags) ==
  LET f == LOOKUP_FILE(DO_INIT, name)
  IN  /\ two_phase_lookup(DO_INIT, name, SFS_ROOT, sm)
      /\ \/ flags = SFS_NIL /\ Return(revoke_acl(DO_INIT, f, id), NOTHING)
         \/ flags # SFS_NIL /\ Return(add_acl(DO_INIT, f, id, flags), NOTHING)

sfs_chmod_denied(sm, name) ==
  /\ ~ two_phase_lookup(DO_INIT, name, SFS_ROOT, sm)
  /\ FAILURE

\* sfs_attest: without DO_INIT; before the initialisation there are no files.
sfs_attest(name, owner) ==
  /\ granted' = IF two_phase_lookup(Data, name, SFS_CREATOR, owner)
                THEN <<"attest", owner, name>> ELSE NOTHING
  /\ UNCHANGED <<perm_pool, file_pool, free_perm_list, free_file_list,
                 open_file_list, fd_cache, INIT_DONE, backend>>

\* The node restarts: the RAM of the SM is cleared, the back-end's files stay.
Reboot ==
  /\ perm_pool' = [p \in Perm |-> NoPerm] /\ file_pool' = [f \in File |-> NoFile]
  /\ free_perm_list' = <<>> /\ free_file_list' = <<>> /\ open_file_list' = <<>>
  /\ fd_cache' = [fd \in FD |-> NULL]
  /\ INIT_DONE' = FALSE
  /\ cfs_fd' = [fd \in CFS_FD |-> NULL]
  /\ granted' = NOTHING
  /\ UNCHANGED cfs_file

NameCall(sm, name) ==
  \/ sfs_open_new(sm, name)
  \/ \E want \in Wanted :
       sfs_open_existing(sm, name, want) \/ sfs_open_denied(sm, name, want)
  \/ sfs_remove(sm, name) \/ sfs_remove_refused(sm, name)
  \/ \E id \in SM, flags \in Flags : sfs_chmod(sm, name, id, flags)
  \/ sfs_chmod_denied(sm, name)
  \/ sfs_attest(name, sm)

FdCall(sm, fd) ==
  \/ sfs_close(sm, fd)
  \/ sfs_getc(sm, fd) \/ sfs_putc(sm, fd) \/ sfs_seek(sm, fd)
  \/ fd_refused(sm, fd)

Next ==
  \/ sfs_init
  \/ \E name \in Name, mayCreate \in BOOLEAN : sfs_open_none(name, mayCreate)
  \/ \E sm \in SM, name \in Name : NameCall(sm, name)
  \/ \E sm \in SM, fd \in FD : FdCall(sm, fd)
  \/ Reboot

Spec == Init /\ [][Next]_vars

-----------------------------------------------------------------------------
(* Safety properties.                                                       *)

Acl(f) == file_pool[f].acl
Files == ToSet(open_file_list)

\* No struct is lost or used twice, over any sequence of calls that create,
\* remove, assign and revoke (sfs-ram.c:138-157, 169-188): every FILE_PERM is
\* free or in the access control list of the file it points to, every OPEN_FILE
\* free or an existing file, and lists have no duplicates.
PoolPartition ==
  INIT_DONE =>
    /\ \A list \in {free_perm_list, free_file_list, open_file_list}
                     \cup {Acl(f) : f \in Files} : IsInjective(list)
    /\ \A f \in File : f \in Files <=> f \notin ToSet(free_file_list)
    /\ \A p \in Perm :
         \/ p \in ToSet(free_perm_list) /\ \A f \in Files : p \notin ToSet(Acl(f))
         \/ /\ p \notin ToSet(free_perm_list)
            /\ perm_pool[p].file \in Files
            /\ \A f \in File :
                 (f \in Files /\ p \in ToSet(Acl(f))) <=> f = perm_pool[p].file

\* A cached file descriptor never outlives the permission it stands for: its
\* entry points to a FILE_PERM in the access control list of an existing file,
\* not to one that was revoked or removed and perhaps allocated again.
NoDangling ==
  \A fd \in FD : fd_cache[fd] # NULL =>
    \E f \in Files : fd_cache[fd] \in ToSet(Acl(f))

\* open_count, the guard that keeps an open file from being removed, is the
\* number of cached file descriptors of the file.
OpenCounts ==
  \A f \in Files :
    file_pool[f].open_count =
      Cardinality({fd \in FD : fd_cache[fd] # NULL /\ perm_pool[fd_cache[fd]].file = f})

\* The two file descriptor tables agree: the back-end's descriptor fd is open
\* exactly if fd_cache[fd] is set, and on the file whose permissions the front-end
\* checks; those out of the front-end's range are closed (sfs-ram.c:323-328).
BackendAgrees ==
  \A fd \in CFS_FD :
    cfs_fd[fd] = IF fd \in FD /\ fd_cache[fd] # NULL
                 THEN file_pool[perm_pool[fd_cache[fd]].file].name ELSE NULL

\* Every file has a creator, the first entry of its access control list
\* (sfs-ram.c:55-57): that is why revoke_acl may unlink an entry through its
\* predecessor only, and add_acl append without checking for an empty list.
CreatorHeadsAcl ==
  \A f \in Files : Acl(f) # <<>> /\ perm_pool[Head(Acl(f))].flags = SFS_CREATOR

-----------------------------------------------------------------------------
(* What the comments say and the code does not do.                          *)

\* sfs-ram.c:55: "a file has exactly one creator ACL entry"; sfs.h:74: SFS_CREATOR
\* is "non-assignable nor revocable".  A creator's entry is one sfs_attest takes
\* for it: with all bits of SFS_CREATOR, and perhaps more.
OneCreator ==
  \A f \in Files : \A p, q \in ToSet(Acl(f)) :
    /\ CHK_PERM(perm_pool[p].flags, SFS_CREATOR)
    /\ CHK_PERM(perm_pool[q].flags, SFS_CREATOR)
    => p = q

\* sfs.h:186: "When creating a new SFS file, any existing CFS file of the same
\* name is first removed in the back-end": a file that was just created has
\* nothing in it.
NewFileIsEmpty ==
  \A sm \in SM, name \in Name :
    granted = <<"create", sm, name>> => cfs_file[name] = "empty"

-----------------------------------------------------------------------------
\* The permissions sm has on name: those of its entries (PoolPartition: of its
\* entry) in the access control list.
Rights(name, sm) ==
  UNION {perm_pool[p].flags :
           p \in {p \in Perm : /\ perm_pool[p].sm_id = sm
                               /\ file_pool[perm_pool[p].file].name = name}}

Matrix == [name \in Name |-> [sm \in SM |-> Rights(name, sm)]]

\* The module that opened fd, and the file it is open on.
Opener(fd) ==
  IF fd_cache[fd] = NULL THEN NOBODY
  ELSE LET p == perm_pool[fd_cache[fd]]
       IN  <<p.sm_id, file_pool[p.file].name>>

Openers == [fd \in FD |-> Opener(fd)]

\* The specification this module implements.
Monitor == INSTANCE FileMonitor WITH rights <- Matrix, opened <- Openers

\* Every access the front-end grants, every change it makes to permissions and
\* every connection it opens, keeps or closes is one FileMonitor allows: a change
\* of permissions has direct effect on open files (sfs.h:284-285).  Who has all
\* bits of SFS_CREATOR is attested; OneCreator is on whether he is the creator.
ImplementsMonitor == Monitor!Spec
=============================================================================
