-------------------------------- MODULE Inode --------------------------------
(***************************************************************************)
(* The inode file system prototype                                         *)
(* (src/access_control/inode_prototype): file-sys.c, which checks the      *)
(* rights of calling modules and keeps their open files, over              *)
(* basic-file-sys.c, which keeps inodes and data blocks on a disk.         *)
(*                                                                         *)
(* The disk driver is linked in: a RAM disk, whose bytes are overwritten   *)
(* and lost at a restart, or a flash disk, whose bytes survive and can     *)
(* only gain bits until the sector is erased (it is read and programmed    *)
(* inverted).  A number on the disk is therefore the set of its bits.      *)
(*                                                                         *)
(* Left out: bytes, sizes and positions.  Every put_char adds one to the   *)
(* size, also when it overwrites, and f_seek goes up to the size: any      *)
(* block of a file can be the one at the position.                         *)
(***************************************************************************)
EXTENDS Integers, FiniteSets

CONSTANTS
  Inode,              \* the inode numbers in bounds
  OUT_OF_BOUNDS,      \* the others
  NIL_INODE_NB,
  SM,                 \* the ids of the calling modules, as sets of bits
  Perm,               \* the permissions they pass, as sets of bits
  Block,              \* the numbers of the data blocks, as sets of bits
  NIL_BLOCK_NB,       \* NB_DATA_BLOCKS + 1
  MAX_NB_SM, MAX_NB_OPEN_FILES, ACL_LENGTH, MAX_NB_DATA_BLOCKS

ASSUME InodeAssumption ==
  /\ NIL_INODE_NB \notin Inode \cup {OUT_OF_BOUNDS} /\ OUT_OF_BOUNDS \notin Inode
  /\ SM \cup Perm \cup Block \cup {NIL_BLOCK_NB} \subseteq SUBSET (0 .. 7)
  /\ NIL_BLOCK_NB \notin Block
  /\ {MAX_NB_SM, MAX_NB_OPEN_FILES, ACL_LENGTH, MAX_NB_DATA_BLOCKS} \subseteq Nat \ {0}

VARIABLES
  flash,            \* the driver is flash-disk.c, not ram-disk.c
  inodes,           \* the inode table on the disk
  disk_usage,       \* the data blocks in use, kept in RAM
  client_lst,       \* the open files of every registered client
  client_free_lst,  \* the number of free client structs
  caller            \* history: the module that made the last call, as a set; no
                    \* module for f_mkfs and Reboot, which check nobody's rights

state == <<flash, inodes, disk_usage, client_lst, client_free_lst>>
vars == <<state, caller>>

Byte == SUBSET (0 .. 7)
ZERO == {}
F_NIL == {}
F_RD == {0}
F_WR == {1}
F_UNLINK == {2}
F_ALL == 0 .. 7
Y == {0, 3, 4, 6}     \* 'Y', 'N'
N == {1, 2, 3, 6}
FAILURE == 0 .. 15   \* -1, an int

FD == 0 .. MAX_NB_OPEN_FILES - 1
OPEN_FILE == [inode : Inode \cup {OUT_OF_BOUNDS, NIL_INODE_NB},
              perm_flags : Perm \cup {F_NIL}]
CLOSED == [inode |-> NIL_INODE_NB, perm_flags |-> F_NIL]
NO_FILES == [fd \in FD |-> CLOSED]

\* In and behind the lists, every client struct is there once f_mkfs has been
\* called, for no more clients than there are structs.
TypeOK ==
  /\ flash \in BOOLEAN
  /\ inodes \in [Inode -> [in_use : {ZERO, Y, N, Y \cup N},
                           acl : [1 .. ACL_LENGTH -> [who : Byte, perms : Byte]],
                           data : [1 .. MAX_NB_DATA_BLOCKS -> Byte]]]
  /\ disk_usage \subseteq Block
  /\ DOMAIN client_lst \subseteq SM
  /\ \A id \in DOMAIN client_lst : client_lst[id] \in [FD -> OPEN_FILE]
  /\ Cardinality(DOMAIN client_lst) + client_free_lst \in {0, MAX_NB_SM}
  /\ caller \in {{}} \cup {{id} : id \in SM}

-----------------------------------------------------------------------------
(* basic-file-sys.c, on the disk.                                           *)

\* disk_put_byte: what is read back where old was and new is written.
put_byte(old, new) == IF flash THEN old \cup new ELSE new

ErasedInode ==
  [in_use |-> ZERO,
   acl |-> [i \in 1 .. ACL_LENGTH |-> [who |-> ZERO, perms |-> ZERO]],
   data |-> [i \in 1 .. MAX_NB_DATA_BLOCKS |-> ZERO]]

ERASED == [nb \in Inode |-> ErasedInode]

\* All files are forgotten.  ram-disk.c has no function to erase a sector; it is
\* taken to do what that of flash-disk.c does.
mkfs == inodes' = ERASED /\ disk_usage' = {}

\* The block a file that needs one gets: the first free one in the code, but which
\* one it is does not matter.
alloc_data_block == CHOOSE b \in Block : b \notin disk_usage

\* Numbers that are no blocks are ignored.
free_data_blocks(nb) ==
  disk_usage' = disk_usage \ {inodes[nb].data[i] : i \in 1 .. MAX_NB_DATA_BLOCKS}

validate_inode(nb) == nb \in Inode /\ inodes[nb].in_use # N

\* Creation: the first entry of the access control list is the owner's, the
\* ids of the others are left.
init_inode(nb, sm, init_flags) ==
  /\ nb \in Inode /\ inodes[nb].in_use = ZERO
  /\ inodes' = [inodes EXCEPT ![nb] =
       [in_use |-> put_byte(@.in_use, Y),
        acl |-> [i \in 1 .. ACL_LENGTH |->
                   [who |-> IF i = 1 THEN put_byte(@.acl[i].who, sm) ELSE @.acl[i].who,
                    perms |-> put_byte(@.acl[i].perms,
                                       IF i = 1 THEN init_flags ELSE F_NIL)]],
        data |-> [i \in 1 .. MAX_NB_DATA_BLOCKS |->
                    put_byte(@.data[i], NIL_BLOCK_NB)]]]

\* Mutation: the inode is not validated.
FreeUnchecked(nb) ==
  /\ nb \in Inode
  /\ free_data_blocks(nb)
  /\ inodes' = [inodes EXCEPT ![nb].in_use = put_byte(@, N)]

\* The access control list and the block numbers stay on the disk.
free_inode(nb) ==
  /\ validate_inode(nb)
  /\ free_data_blocks(nb)
  /\ inodes' = [inodes EXCEPT ![nb].in_use = put_byte(@, N)]

First(S) == CHOOSE i \in S : \A j \in S : i <= j

\* The entries of module sm, and the ones without permissions.
EntriesOf(nb, sm) == {i \in 1 .. ACL_LENGTH : inodes[nb].acl[i].who = sm}
FreeEntries(nb) == {i \in 1 .. ACL_LENGTH : inodes[nb].acl[i].perms = F_NIL}

get_acl(nb, sm) ==
  CASE ~ validate_inode(nb) -> FAILURE
    [] validate_inode(nb) /\ EntriesOf(nb, sm) = {} -> F_NIL
    [] OTHER -> inodes[nb].acl[First(EntriesOf(nb, sm))].perms

PutEntry(nb, i, sm, flags) ==
  inodes' = [inodes EXCEPT ![nb].acl[i] =
               [who |-> put_byte(@.who, sm), perms |-> put_byte(@.perms, flags)]]

\* An existing entry is overridden, or else a free one taken.
set_acl(nb, sm, flags) ==
  /\ validate_inode(nb)
  /\ \/ EntriesOf(nb, sm) # {} /\ PutEntry(nb, First(EntriesOf(nb, sm)), sm, flags)
     \/ /\ EntriesOf(nb, sm) = {} /\ FreeEntries(nb) # {}
        /\ PutEntry(nb, First(FreeEntries(nb)), sm, flags)

\* A byte is written in the i-th block of the file, allocated if it has none.
put_char(nb, i) ==
  IF inodes[nb].data[i] = NIL_BLOCK_NB /\ disk_usage # Block
  THEN /\ inodes' = [inodes EXCEPT ![nb].data[i] = put_byte(@, alloc_data_block)]
       /\ disk_usage' = disk_usage \cup {alloc_data_block}
  ELSE UNCHANGED <<inodes, disk_usage>>

-----------------------------------------------------------------------------
(* file-sys.c: the calls of client modules.                                 *)

\* The FAILURE of get_acl passes every check.
CHK_PERM(p_have, p_want) == p_want \subseteq p_have

\* lookup_client finds the client.
Registered(id) == id \in DOMAIN client_lst

CHK_FD(id, fd) == Registered(id) /\ client_lst[id][fd].inode # NIL_INODE_NB

\* The list with the new client id, whose struct is taken from the free list.
create_new_client(id) ==
  [c \in DOMAIN client_lst \cup {id} |-> IF c = id THEN NO_FILES ELSE client_lst[c]]

remove_client(id) ==
  /\ client_lst' = [c \in DOMAIN client_lst \ {id} |-> client_lst[c]]
  /\ client_free_lst' = client_free_lst + 1

init_client_list == client_lst' = <<>> /\ client_free_lst' = MAX_NB_SM

Init ==
  /\ flash \in BOOLEAN
  /\ inodes = ERASED
  /\ disk_usage = {}
  /\ client_lst = <<>>
  /\ client_free_lst = 0
  /\ caller = {}

\* Mutation: the list of clients is not cleared.
MkfsKeepsClients ==
  /\ mkfs /\ client_free_lst' = MAX_NB_SM /\ UNCHANGED <<flash, client_lst>>
  /\ caller' = {}

f_mkfs == init_client_list /\ mkfs /\ UNCHANGED flash /\ caller' = {}

f_creat(id, nb) ==
  /\ init_inode(nb, id, F_ALL)
  /\ UNCHANGED <<flash, disk_usage, client_lst, client_free_lst>>
  /\ caller' = {id}

\* The client is registered before its rights are checked.
f_open(id, nb, p_want) ==
  LET clients == IF Registered(id) THEN client_lst ELSE create_new_client(id)
      free == {fd \in FD : clients[id][fd].inode = NIL_INODE_NB}
  IN  /\ Registered(id) \/ client_free_lst > 0
      /\ client_free_lst' =
           IF Registered(id) THEN client_free_lst ELSE client_free_lst - 1
      /\ client_lst' =
           IF CHK_PERM(get_acl(nb, id), p_want) /\ free # {}
           THEN [clients EXCEPT ![id][First(free)] = [inode |-> nb, perm_flags |-> p_want]]
           ELSE clients
      /\ UNCHANGED <<flash, inodes, disk_usage>>
      /\ caller' = {id}

\* With its last file the client is removed.
f_close(id, fd) ==
  /\ Registered(id)
  /\ IF [client_lst[id] EXCEPT ![fd] = CLOSED] = NO_FILES
     THEN remove_client(id)
     ELSE client_lst' = [client_lst EXCEPT ![id][fd] = CLOSED] /\ UNCHANGED client_free_lst
  /\ UNCHANGED <<flash, inodes, disk_usage>>
  /\ caller' = {id}

f_unlink(id, nb) ==
  /\ CHK_PERM(get_acl(nb, id), F_UNLINK)
  /\ free_inode(nb)
  /\ UNCHANGED <<flash, client_lst, client_free_lst>>
  /\ caller' = {id}

\* The checks of f_getc and f_putc on the open file, and those of the inode.
Accesses(id, fd, right) ==
  /\ CHK_FD(id, fd)
  /\ CHK_PERM(client_lst[id][fd].perm_flags, right)
  /\ validate_inode(client_lst[id][fd].inode)

f_getc(id, fd) == Accesses(id, fd, F_RD) /\ UNCHANGED state /\ caller' = {id}

f_putc(id, fd) ==
  /\ Accesses(id, fd, F_WR)
  /\ \E i \in 1 .. MAX_NB_DATA_BLOCKS : put_char(client_lst[id][fd].inode, i)
  /\ UNCHANGED <<flash, client_lst, client_free_lst>>
  /\ caller' = {id}

\* Mutation: the open files of the module keep their permissions.
ChmodForgetsOpen(id, nb, sm, perm_flags) ==
  /\ CHK_PERM(get_acl(nb, id), F_ALL)
  /\ set_acl(nb, sm, perm_flags)
  /\ UNCHANGED <<flash, disk_usage, client_lst, client_free_lst>>
  /\ caller' = {id}

\* Mutation: the rights of the caller are not checked.
ChmodByAnyone(id, nb, sm, perm_flags) ==
  /\ set_acl(nb, sm, perm_flags)
  /\ client_lst' = [c \in DOMAIN client_lst |-> [fd \in FD |->
       IF c = sm /\ client_lst[c][fd].inode = nb
       THEN [client_lst[c][fd] EXCEPT !.perm_flags = perm_flags]
       ELSE client_lst[c][fd]]]
  /\ UNCHANGED <<flash, disk_usage, client_free_lst>>
  /\ caller' = {id}

\* The new permissions hold for the files that the module has open, too.
f_chmod(id, nb, sm, perm_flags) ==
  /\ CHK_PERM(get_acl(nb, id), F_ALL)
  /\ set_acl(nb, sm, perm_flags)
  /\ client_lst' = [c \in DOMAIN client_lst |-> [fd \in FD |->
       IF c = sm /\ client_lst[c][fd].inode = nb
       THEN [client_lst[c][fd] EXCEPT !.perm_flags = perm_flags]
       ELSE client_lst[c][fd]]]
  /\ UNCHANGED <<flash, disk_usage, client_free_lst>>
  /\ caller' = {id}

\* The node restarts: the RAM is cleared, and with it the RAM disk.
Reboot ==
  /\ inodes' = IF flash THEN inodes ELSE ERASED
  /\ disk_usage' = {}
  /\ client_lst' = <<>>
  /\ client_free_lst' = 0
  /\ UNCHANGED flash
  /\ caller' = {}

Next ==
  \/ f_mkfs
  \/ Reboot
  \/ \E id \in SM :
       \/ \E nb \in Inode \cup {OUT_OF_BOUNDS} :
            \/ f_creat(id, nb)
            \/ f_unlink(id, nb)
            \/ \E perm \in Perm : f_open(id, nb, perm)
            \/ \E sm \in SM, perm \in Perm : f_chmod(id, nb, sm, perm)
       \/ \E fd \in FD : f_close(id, fd) \/ f_getc(id, fd) \/ f_putc(id, fd)

Spec == Init /\ [][Next]_vars

-----------------------------------------------------------------------------
(* Properties                                                               *)

Exists(nb) == nb \in Inode /\ inodes[nb].in_use = Y
BlocksOf(nb) ==
  {inodes[nb].data[i] : i \in 1 .. MAX_NB_DATA_BLOCKS} \ {NIL_BLOCK_NB}
MayNow(id, nb, right) ==
  \E i \in 1 .. ACL_LENGTH :
    inodes[nb].acl[i].who = id /\ right \subseteq inodes[nb].acl[i].perms

\* On the RAM disk every data block in use belongs to one place of one existing
\* file, and nothing else is in use: no file is written over, and no block lost,
\* by any order of creating, writing and unlinking, also when a file is unlinked
\* twice (basic-file-sys.c:193-213, 306-329).
BlocksOwned ==
  ~ flash =>
    /\ disk_usage = UNION {BlocksOf(nb) : nb \in {nb \in Inode : Exists(nb)}}
    /\ \A nb1, nb2 \in Inode : \A i, j \in 1 .. MAX_NB_DATA_BLOCKS :
         /\ Exists(nb1) /\ Exists(nb2)
         /\ inodes[nb1].data[i] = inodes[nb2].data[j]
         /\ inodes[nb1].data[i] # NIL_BLOCK_NB
         => nb1 = nb2 /\ i = j

\* On the RAM disk a read or a write through an open file reaches only a file
\* that exists and whose access control list allows it to the client now, however
\* long ago it was opened, and although the inode number may not have been valid
\* then (file-sys.c:24, 103, 199-206).
AccessIsCurrent ==
  ~ flash =>
    \A id \in SM, fd \in FD, right \in {F_RD, F_WR} :
      Accesses(id, fd, right) =>
        /\ Exists(client_lst[id][fd].inode)
        /\ MayNow(id, client_lst[id][fd].inode, right)

\* The access control list of a file changes only by a call of a module that has
\* all rights to it now, on either disk, until the disk is erased: get_acl's
\* FAILURE passes the check of the caller (file-sys.c:190-191), but gives nobody
\* the list of an unlinked file, which still holds its old entries.
RightsOnlyByOwner ==
  [][\A nb \in Inode :
       /\ inodes[nb].in_use # ZERO
       /\ inodes'[nb].acl # inodes[nb].acl
       => \/ f_mkfs \/ Reboot
          \/ inodes[nb].in_use # N /\ \E id \in caller' : MayNow(id, nb, F_ALL)]_vars
=============================================================================
