----------------------------- MODULE InodeProofs -----------------------------
(***************************************************************************)
(* Theorems about Inode, for every number of files, modules, data blocks,  *)
(* open files and entries of an access control list.                       *)
(***************************************************************************)
EXTENDS Inode, TLAPS, FiniteSetTheorems, LeastElements

-----------------------------------------------------------------------------
(* The inductive invariant.                                                 *)

\* The client structs: f_mkfs has not been called, or every struct is free or
\* the one of a client.
ClientsInv ==
  /\ IsFiniteSet(DOMAIN client_lst)
  /\ client_free_lst \in Nat
  /\ Cardinality(DOMAIN client_lst) + client_free_lst \in {0, MAX_NB_SM}

\* A file that was never created has an empty access control list and no blocks.
\* On the RAM disk a freed one is marked with N alone.
NeverUsed ==
  \A nb \in Inode : /\ inodes[nb].in_use \in {ZERO, Y, N}
                    /\ inodes[nb].in_use = ZERO => inodes[nb] = ErasedInode

\* The permissions cached for an open file are among those the access control
\* list gives to the client now: its first entry, or none at all.
CachedAllowed ==
  \A id \in DOMAIN client_lst : \A fd \in FD :
    validate_inode(client_lst[id][fd].inode) =>
      client_lst[id][fd].perm_flags \subseteq get_acl(client_lst[id][fd].inode, id)

\* BlocksOwned, without the words "on the RAM disk".
UsageIsOwned ==
  disk_usage = UNION {BlocksOf(nb) : nb \in {nb \in Inode : Exists(nb)}}

NotShared ==
  \A nb1, nb2 \in Inode : \A i, j \in 1 .. MAX_NB_DATA_BLOCKS :
    /\ Exists(nb1) /\ Exists(nb2)
    /\ inodes[nb1].data[i] = inodes[nb2].data[j]
    /\ inodes[nb1].data[i] # NIL_BLOCK_NB
    => nb1 = nb2 /\ i = j

RamInv == NeverUsed /\ CachedAllowed /\ UsageIsOwned /\ NotShared

InodeInv == TypeOK /\ ClientsInv /\ (~ flash => RamInv)

-----------------------------------------------------------------------------
(* The operators of the model.                                              *)

\* First finds the smallest number of a set.
LEMMA FirstIsLeast ==
  ASSUME NEW S \in SUBSET Nat, S # {}
  PROVE  First(S) \in S /\ \A j \in S : First(S) <= j
<1>1. \E i \in S : \A j \in S : i <= j
  BY LeastElement
<1>. QED
  BY <1>1 DEF First

\* The entries of a list are found by their position, from 1 on.
LEMMA FirstEntries ==
  ASSUME NEW nb, NEW sm
  PROVE  /\ EntriesOf(nb, sm) # {} =>
               /\ First(EntriesOf(nb, sm)) \in 1 .. ACL_LENGTH
               /\ inodes[nb].acl[First(EntriesOf(nb, sm))].who = sm
         /\ FreeEntries(nb) # {} =>
               /\ First(FreeEntries(nb)) \in 1 .. ACL_LENGTH
               /\ inodes[nb].acl[First(FreeEntries(nb))].perms = F_NIL
<1>1. EntriesOf(nb, sm) \subseteq Nat /\ FreeEntries(nb) \subseteq Nat
  BY InodeAssumption DEF EntriesOf, FreeEntries
<1>. QED
  BY <1>1, FirstIsLeast DEF EntriesOf, FreeEntries

\* A module with a permission other than none on an inode that can be accessed has
\* an entry with it in the access control list.
LEMMA RightsAreEntries ==
  ASSUME NEW nb, validate_inode(nb), NEW sm,
         NEW right, right # {}, CHK_PERM(get_acl(nb, sm), right)
  PROVE  /\ EntriesOf(nb, sm) # {}
         /\ get_acl(nb, sm) = inodes[nb].acl[First(EntriesOf(nb, sm))].perms
         /\ MayNow(sm, nb, right)
<1>1. EntriesOf(nb, sm) # {}
  BY DEF CHK_PERM, get_acl, F_NIL
<1>2. get_acl(nb, sm) = inodes[nb].acl[First(EntriesOf(nb, sm))].perms
  BY <1>1 DEF get_acl
<1>. QED
  BY <1>1, <1>2, FirstEntries DEF CHK_PERM, MayNow

-----------------------------------------------------------------------------
(* Type correctness.                                                        *)

AclType == [1 .. ACL_LENGTH -> [who : Byte, perms : Byte]]
DataType == [1 .. MAX_NB_DATA_BLOCKS -> Byte]
InUseType == {ZERO, Y, N, Y \cup N}
InodeType == [in_use : InUseType, acl : AclType, data : DataType]
DiskType == inodes \in [Inode -> InodeType] /\ disk_usage \subseteq Block

\* What is read back from the disk is a byte.
LEMMA PutByteType ==
  ASSUME NEW old \in Byte, NEW new \in Byte
  PROVE  put_byte(old, new) \in Byte
  BY DEF put_byte, Byte

\* The marks an inode can bear, and what becomes of them on either disk.
LEMMA PutMark ==
  /\ put_byte(ZERO, Y) = Y
  /\ \A mark \in InUseType : put_byte(mark, N) \in {N, Y \cup N}
  /\ {ZERO, Y, N} \subseteq Byte /\ Y # N /\ Y # ZERO /\ N # ZERO
  /\ N # Y \cup N /\ ZERO # Y \cup N
<1>1. 0 \in Y /\ 0 \notin N /\ 1 \in N
  BY DEF Y, N
<1>. QED
  BY <1>1 DEF put_byte, InUseType, ZERO, Byte, Y, N

\* The values that calls write on the disk are bytes.
LEMMA Bytes ==
  /\ SM \subseteq Byte /\ Perm \subseteq Byte /\ Block \subseteq Byte
  /\ NIL_BLOCK_NB \in Byte /\ F_ALL \in Byte /\ F_NIL \in Byte /\ ZERO \in Byte
  BY InodeAssumption DEF Byte, F_ALL, F_NIL, ZERO

\* The erased disk.
LEMMA ErasedType == ERASED \in [Inode -> InodeType]
  BY Bytes DEF ERASED, ErasedInode, InodeType, AclType, DataType, InUseType

\* Creating a file.
LEMMA InitInodeType ==
  ASSUME DiskType, NEW nb, NEW sm \in SM, init_inode(nb, sm, F_ALL)
  PROVE  inodes' \in [Inode -> InodeType]
<1>. DEFINE old == inodes[nb]
            acl == [i \in 1 .. ACL_LENGTH |->
                      [who |-> IF i = 1 THEN put_byte(old.acl[i].who, sm)
                               ELSE old.acl[i].who,
                       perms |-> put_byte(old.acl[i].perms,
                                          IF i = 1 THEN F_ALL ELSE F_NIL)]]
            data == [i \in 1 .. MAX_NB_DATA_BLOCKS |->
                       put_byte(old.data[i], NIL_BLOCK_NB)]
<1>1. old \in InodeType /\ nb \in Inode /\ old.in_use = ZERO
  BY DEF DiskType, init_inode
<1>2. old.acl \in AclType /\ old.data \in DataType /\ sm \in Byte
  BY <1>1, Bytes DEF InodeType
<1>3. acl \in AclType
  BY <1>2, Bytes, PutByteType DEF AclType
<1>4. data \in DataType
  BY <1>2, Bytes, PutByteType DEF DataType
<1>5. inodes' = [inodes EXCEPT ![nb] =
                   [in_use |-> put_byte(old.in_use, Y), acl |-> acl, data |-> data]]
  BY DEF init_inode
<1>6. put_byte(old.in_use, Y) \in InUseType
  BY <1>1, PutMark DEF InUseType
<1>. HIDE DEF acl, data
<1>. QED
  BY <1>3, <1>4, <1>5, <1>6 DEF DiskType, InodeType

\* Marking a file as free.
LEMMA FreeInodeType ==
  ASSUME DiskType, NEW nb, free_inode(nb)
  PROVE  DiskType'
<1>1. nb \in Inode /\ inodes[nb].in_use \in InUseType
  BY DEF DiskType, free_inode, validate_inode, InodeType
<1>2. put_byte(inodes[nb].in_use, N) \in InUseType
  BY <1>1, PutMark DEF InUseType
<1>. QED
  BY <1>1, <1>2 DEF DiskType, free_inode, free_data_blocks, InodeType

\* Writing an entry of an access control list.
LEMMA PutEntryType ==
  ASSUME DiskType, NEW nb \in Inode, NEW i \in 1 .. ACL_LENGTH,
         NEW sm \in SM, NEW flags \in Perm, PutEntry(nb, i, sm, flags)
  PROVE  inodes' \in [Inode -> InodeType]
<1>. DEFINE old == inodes[nb].acl[i]
            new == [who |-> put_byte(old.who, sm), perms |-> put_byte(old.perms, flags)]
<1>1. inodes[nb] \in InodeType /\ inodes[nb].acl \in AclType
  BY DEF DiskType, InodeType
<1>2. new \in [who : Byte, perms : Byte]
  BY <1>1, Bytes, PutByteType DEF AclType
<1>3. inodes' = [inodes EXCEPT ![nb].acl[i] = new]
  BY DEF PutEntry
<1>. HIDE DEF new
<1>4. [inodes[nb].acl EXCEPT ![i] = new] \in AclType
  BY <1>1, <1>2 DEF AclType
<1>. QED
  BY <1>1, <1>3, <1>4 DEF DiskType, InodeType

\* Giving a place of a file a block.
LEMMA PutBlockType ==
  ASSUME DiskType, NEW nb \in Inode, NEW i \in 1 .. MAX_NB_DATA_BLOCKS,
         put_char(nb, i)
  PROVE  DiskType'
<1>1. CASE inodes[nb].data[i] = NIL_BLOCK_NB /\ disk_usage # Block
  <2>1. alloc_data_block \in Block
    BY <1>1 DEF alloc_data_block, DiskType
  <2>2. inodes[nb] \in InodeType /\ inodes[nb].data \in DataType
    BY DEF DiskType, InodeType
  <2>. DEFINE new == put_byte(inodes[nb].data[i], alloc_data_block)
  <2>3. new \in Byte
    BY <2>1, <2>2, Bytes, PutByteType DEF DataType
  <2>4. /\ inodes' = [inodes EXCEPT ![nb].data[i] = new]
        /\ disk_usage' = disk_usage \cup {alloc_data_block}
    BY <1>1 DEF put_char
  <2>. HIDE DEF new
  <2>5. [inodes[nb].data EXCEPT ![i] = new] \in DataType
    BY <2>2, <2>3 DEF DataType
  <2>. QED
    BY <2>1, <2>2, <2>4, <2>5 DEF DiskType, InodeType
<1>2. CASE ~ (inodes[nb].data[i] = NIL_BLOCK_NB /\ disk_usage # Block)
  BY <1>2 DEF put_char, DiskType
<1>. QED
  BY <1>1, <1>2

\* Every step writes a typed disk.
LEMMA DiskTypeStep ==
  ASSUME DiskType, [Next]_vars
  PROVE  DiskType'
<1>1. CASE UNCHANGED vars
  BY <1>1 DEF vars, state, DiskType
<1>2. CASE f_mkfs
  BY <1>2, ErasedType DEF f_mkfs, mkfs, DiskType
<1>3. CASE Reboot
  BY <1>3, ErasedType DEF Reboot, DiskType
<1>4. ASSUME NEW id \in SM, NEW nb, f_creat(id, nb)
      PROVE  DiskType'
  BY <1>4, InitInodeType DEF f_creat, DiskType
<1>5. ASSUME NEW id \in SM, NEW nb, f_unlink(id, nb)
      PROVE  DiskType'
  BY <1>5, FreeInodeType DEF f_unlink
<1>6. ASSUME NEW id \in SM, NEW nb, NEW perm \in Perm, f_open(id, nb, perm)
      PROVE  DiskType'
  BY <1>6 DEF f_open, DiskType
<1>7. ASSUME NEW id \in SM, NEW nb, NEW sm \in SM, NEW perm \in Perm,
             f_chmod(id, nb, sm, perm)
      PROVE  DiskType'
  <2>1. nb \in Inode /\ disk_usage' = disk_usage
    BY <1>7 DEF f_chmod, set_acl, validate_inode
  <2>2. PICK i \in 1 .. ACL_LENGTH : PutEntry(nb, i, sm, perm)
    BY <1>7, FirstEntries DEF f_chmod, set_acl
  <2>. QED
    BY <2>1, <2>2, PutEntryType DEF DiskType
<1>8. ASSUME NEW id \in SM, NEW fd \in FD, f_close(id, fd) \/ f_getc(id, fd)
      PROVE  DiskType'
  BY <1>8 DEF f_close, f_getc, state, DiskType
<1>9. ASSUME NEW id \in SM, NEW fd \in FD, f_putc(id, fd)
      PROVE  DiskType'
  BY <1>9, PutBlockType DEF f_putc, Accesses, validate_inode
<1>. QED
  BY <1>1, <1>2, <1>3, <1>4, <1>5, <1>6, <1>7, <1>8, <1>9 DEF Next

-----------------------------------------------------------------------------
(* The clients.                                                             *)

ClientsType ==
  /\ flash \in BOOLEAN
  /\ DOMAIN client_lst \subseteq SM
  /\ \A id \in DOMAIN client_lst : client_lst[id] \in [FD -> OPEN_FILE]
  /\ ClientsInv

\* The table of a new client, and a table with one entry changed.
LEMMA TableType ==
  /\ NO_FILES \in [FD -> OPEN_FILE]
  /\ \A table \in [FD -> OPEN_FILE], file \in OPEN_FILE : \A fd :
       [table EXCEPT ![fd] = file] \in [FD -> OPEN_FILE]
  /\ \A nb \in Inode \cup {OUT_OF_BOUNDS}, perm \in Perm :
       [inode |-> nb, perm_flags |-> perm] \in OPEN_FILE
  BY DEF NO_FILES, CLOSED, OPEN_FILE

\* Without clients.
LEMMA NoClients ==
  ASSUME client_lst' = <<>>, client_free_lst' \in {0, MAX_NB_SM},
         flash' \in BOOLEAN
  PROVE  ClientsType'
<1>1. DOMAIN client_lst' = {} /\ MAX_NB_SM \in Nat
  BY InodeAssumption
<1>2. IsFiniteSet({}) /\ Cardinality({}) = 0
  BY FS_EmptySet
<1>. QED
  BY <1>1, <1>2 DEF ClientsType, ClientsInv

\* Opening a file, and registering its client.
LEMMA OpenClients ==
  ASSUME ClientsType, NEW id \in SM, NEW nb \in Inode \cup {OUT_OF_BOUNDS},
         NEW perm \in Perm, f_open(id, nb, perm)
  PROVE  ClientsType'
<1>. DEFINE clients == IF Registered(id) THEN client_lst ELSE create_new_client(id)
            free == {fd \in FD : clients[id][fd].inode = NIL_INODE_NB}
            file == [inode |-> nb, perm_flags |-> perm]
<1>1. /\ DOMAIN clients = DOMAIN client_lst \cup {id}
      /\ \A c \in DOMAIN clients : clients[c] \in [FD -> OPEN_FILE]
  BY TableType DEF ClientsType, Registered, create_new_client
<1>2. /\ Registered(id) \/ client_free_lst > 0
      /\ client_free_lst' =
           IF Registered(id) THEN client_free_lst ELSE client_free_lst - 1
      /\ \/ client_lst' = [clients EXCEPT ![id][First(free)] = file]
         \/ client_lst' = clients
      /\ flash' = flash
  BY DEF f_open
<1>3. file \in OPEN_FILE
  BY TableType
<1>. HIDE DEF clients, file, free
<1>4. /\ DOMAIN client_lst' = DOMAIN client_lst \cup {id}
      /\ \A c \in DOMAIN client_lst' : client_lst'[c] \in [FD -> OPEN_FILE]
  BY <1>1, <1>2, <1>3, TableType
<1>5. CASE Registered(id)
  BY <1>2, <1>4, <1>5 DEF ClientsType, ClientsInv, Registered
<1>6. CASE ~ Registered(id)
  <2>1. /\ IsFiniteSet(DOMAIN client_lst')
        /\ Cardinality(DOMAIN client_lst') = Cardinality(DOMAIN client_lst) + 1
        /\ Cardinality(DOMAIN client_lst) \in Nat
    BY <1>4, <1>6, FS_AddElement, FS_CardinalityType
    DEF Registered, ClientsType, ClientsInv
  <2>2. client_free_lst \in Nat /\ client_free_lst' = client_free_lst - 1
        /\ client_free_lst > 0
        /\ Cardinality(DOMAIN client_lst) + client_free_lst \in {0, MAX_NB_SM}
        /\ MAX_NB_SM \in Nat
    BY <1>2, <1>6, InodeAssumption DEF ClientsType, ClientsInv
  <2>3. client_free_lst' \in Nat
        /\ Cardinality(DOMAIN client_lst') + client_free_lst' \in {0, MAX_NB_SM}
    BY <2>1, <2>2
  <2>. QED
    BY <1>2, <1>4, <2>1, <2>3 DEF ClientsType, ClientsInv
<1>. QED
  BY <1>5, <1>6

\* Closing a file, and removing a client without files.
LEMMA CloseClients ==
  ASSUME ClientsType, NEW id \in SM, NEW fd \in FD, f_close(id, fd)
  PROVE  ClientsType'
<1>1. CASE remove_client(id)
  <2>1. /\ DOMAIN client_lst' = DOMAIN client_lst \ {id}
        /\ \A c \in DOMAIN client_lst' : client_lst'[c] = client_lst[c]
        /\ id \in DOMAIN client_lst /\ flash' = flash
        /\ client_free_lst' = client_free_lst + 1
    BY <1>1 DEF remove_client, f_close, Registered
  <2>2. /\ IsFiniteSet(DOMAIN client_lst')
        /\ Cardinality(DOMAIN client_lst') = Cardinality(DOMAIN client_lst) - 1
        /\ Cardinality(DOMAIN client_lst) \in Nat
        /\ client_free_lst \in Nat
        /\ Cardinality(DOMAIN client_lst) + client_free_lst \in {0, MAX_NB_SM}
        /\ MAX_NB_SM \in Nat
    BY <2>1, FS_RemoveElement, FS_CardinalityType, InodeAssumption
    DEF ClientsType, ClientsInv
  <2>3. client_free_lst' \in Nat
        /\ Cardinality(DOMAIN client_lst') + client_free_lst' \in {0, MAX_NB_SM}
    BY <2>1, <2>2
  <2>. QED
    BY <2>1, <2>2, <2>3 DEF ClientsType, ClientsInv
<1>2. CASE client_lst' = [client_lst EXCEPT ![id][fd] = CLOSED] /\ UNCHANGED client_free_lst
  <2>1. CLOSED \in OPEN_FILE
    BY DEF CLOSED, OPEN_FILE
  <2>2. /\ DOMAIN client_lst' = DOMAIN client_lst /\ flash' = flash
        /\ \A c \in DOMAIN client_lst' : client_lst'[c] \in [FD -> OPEN_FILE]
    BY <1>2, <2>1, TableType DEF ClientsType, f_close
  <2>. QED
    BY <1>2, <2>2 DEF ClientsType, ClientsInv
<1>. QED
  BY <1>1, <1>2 DEF f_close

\* Changing permissions.
LEMMA ChmodClients ==
  ASSUME ClientsType, NEW id, NEW nb, NEW sm, NEW perm \in Perm,
         f_chmod(id, nb, sm, perm)
  PROVE  ClientsType'
<1>1. ASSUME NEW file \in OPEN_FILE
      PROVE  [file EXCEPT !.perm_flags = perm] \in OPEN_FILE
  BY DEF OPEN_FILE
<1>2. /\ DOMAIN client_lst' = DOMAIN client_lst
      /\ \A c \in DOMAIN client_lst' : client_lst'[c] \in [FD -> OPEN_FILE]
      /\ flash' = flash /\ client_free_lst' = client_free_lst
  BY <1>1 DEF ClientsType, f_chmod
<1>. QED
  BY <1>2 DEF ClientsType, ClientsInv

\* Every step keeps the clients and their structs.
LEMMA ClientsTypeStep ==
  ASSUME ClientsType, [Next]_vars
  PROVE  ClientsType'
<1>1. CASE UNCHANGED vars
  BY <1>1 DEF vars, state, ClientsType, ClientsInv
<1>2. CASE f_mkfs
  BY <1>2, NoClients DEF f_mkfs, init_client_list, ClientsType
<1>3. CASE Reboot
  BY <1>3, NoClients DEF Reboot, ClientsType
<1>4. ASSUME NEW id \in SM, NEW nb, f_creat(id, nb) \/ f_unlink(id, nb)
      PROVE  ClientsType'
  BY <1>4 DEF f_creat, f_unlink, ClientsType, ClientsInv
<1>5. ASSUME NEW id \in SM, NEW nb \in Inode \cup {OUT_OF_BOUNDS},
             NEW perm \in Perm, f_open(id, nb, perm)
      PROVE  ClientsType'
  BY <1>5, OpenClients
<1>6. ASSUME NEW id \in SM, NEW nb, NEW sm \in SM, NEW perm \in Perm,
             f_chmod(id, nb, sm, perm)
      PROVE  ClientsType'
  BY <1>6, ChmodClients
<1>7. ASSUME NEW id \in SM, NEW fd \in FD, f_close(id, fd)
      PROVE  ClientsType'
  BY <1>7, CloseClients
<1>8. ASSUME NEW id \in SM, NEW fd \in FD, f_getc(id, fd) \/ f_putc(id, fd)
      PROVE  ClientsType'
  BY <1>8 DEF f_getc, f_putc, state, ClientsType, ClientsInv
<1>. QED
  BY <1>1, <1>2, <1>3, <1>4, <1>5, <1>6, <1>7, <1>8 DEF Next

\* The module recorded as the caller.
CallerType == caller \in {{}} \cup {{id} : id \in SM}

\* Every action records it.
LEMMA CallerStep == CallerType /\ [Next]_vars => CallerType'
  BY DEF CallerType, vars, Next, f_mkfs, Reboot, f_creat, f_unlink, f_open, f_chmod,
         f_close, f_getc, f_putc

\* The types, in three parts.
LEMMA Types == TypeOK /\ ClientsInv <=> DiskType /\ ClientsType /\ CallerType
  BY DEF CallerType, TypeOK, DiskType, ClientsType, ClientsInv, InodeType, InUseType, AclType, DataType

-----------------------------------------------------------------------------
(* Who may change an access control list.                                   *)

\* A step that changes the list of a file that was created.
LEMMA AclChange ==
  ASSUME DiskType, [Next]_vars, NEW nb \in Inode, inodes[nb].in_use # ZERO,
         inodes'[nb].acl # inodes[nb].acl
  PROVE  \/ f_mkfs \/ Reboot
         \/ inodes[nb].in_use # N /\ \E id \in caller' : MayNow(id, nb, F_ALL)
<1>1. CASE UNCHANGED inodes
  BY <1>1
<1>2. ASSUME NEW id \in SM, NEW n, f_creat(id, n)
      PROVE  FALSE
  BY <1>2 DEF f_creat, init_inode, DiskType
<1>3. ASSUME NEW id \in SM, NEW n, f_unlink(id, n)
      PROVE  FALSE
  BY <1>3 DEF f_unlink, free_inode, DiskType, InodeType
<1>4. ASSUME NEW id \in SM, NEW fd \in FD, f_putc(id, fd)
      PROVE  FALSE
  BY <1>4 DEF f_putc, put_char, DiskType, InodeType
<1>5. ASSUME NEW id \in SM, NEW n, NEW sm \in SM, NEW perm \in Perm,
             f_chmod(id, n, sm, perm)
      PROVE  inodes[nb].in_use # N /\ \E m \in caller' : MayNow(m, nb, F_ALL)
  <2>1. CHK_PERM(get_acl(n, id), F_ALL) /\ validate_inode(n)
    BY <1>5 DEF f_chmod, set_acl
  <2>2. n = nb
    BY <1>5 DEF f_chmod, set_acl, PutEntry, DiskType
  <2>3. F_ALL # {}
    BY DEF F_ALL
  <2>4. MayNow(id, nb, F_ALL)
    BY <2>1, <2>2, <2>3, RightsAreEntries
  <2>5. id \in caller'
    BY <1>5 DEF f_chmod
  <2>. QED
    BY <2>1, <2>2, <2>4, <2>5 DEF validate_inode
<1>. QED
  BY <1>1, <1>2, <1>3, <1>4, <1>5
  DEF Next, vars, state, f_open, f_close, f_getc

-----------------------------------------------------------------------------
(* The RAM disk.                                                            *)

RamState == DiskType /\ ClientsType /\ ~ flash /\ RamInv

\* On the RAM disk a file that a module has any right to exists.
LEMMA RightsExist ==
  ASSUME NeverUsed, NEW nb, validate_inode(nb), NEW sm,
         NEW right, right # {}, CHK_PERM(get_acl(nb, sm), right)
  PROVE  Exists(nb)
<1>1. nb \in Inode /\ inodes[nb].in_use # N
  BY DEF validate_inode
<1>2. PICK i \in 1 .. ACL_LENGTH : right \subseteq inodes[nb].acl[i].perms
  BY RightsAreEntries DEF MayNow
<1>3. inodes[nb].in_use # ZERO
  <2>1. ErasedInode.acl[i].perms = {}
    BY <1>2 DEF ErasedInode, ZERO
  <2>. QED
    BY <1>1, <1>2, <2>1 DEF NeverUsed
<1>. QED
  BY <1>1, <1>3 DEF NeverUsed, Exists

\* The permissions in a list are the same when the list and the mark are.
LEMMA SameAcl ==
  ASSUME NEW nb, NEW sm, validate_inode(nb), validate_inode(nb)',
         inodes'[nb].acl = inodes[nb].acl
  PROVE  get_acl(nb, sm)' = get_acl(nb, sm)
<1>1. EntriesOf(nb, sm)' = EntriesOf(nb, sm)
  BY DEF EntriesOf
<1>. QED
  BY <1>1 DEF get_acl

\* Erasing the disk.
LEMMA EraseRam ==
  ASSUME inodes' = ERASED, disk_usage' = {}, client_lst' = <<>>
  PROVE  RamInv'
<1>1. \A nb \in Inode : inodes'[nb] = ErasedInode /\ inodes'[nb].in_use = ZERO
  BY DEF ERASED, ErasedInode
<1>2. \A nb \in Inode : ~ Exists(nb)'
  BY <1>1, PutMark DEF Exists
<1>. QED
  BY <1>1, <1>2 DEF RamInv, NeverUsed, CachedAllowed, UsageIsOwned, NotShared

\* Creating a file: nobody has a right to it before, and it has no blocks.
LEMMA CreateRam ==
  ASSUME RamState, NEW id \in SM, NEW nb, f_creat(id, nb)
  PROVE  RamInv'
<1>1. /\ nb \in Inode /\ inodes[nb].in_use = ZERO /\ inodes[nb] = ErasedInode
      /\ UNCHANGED <<flash, disk_usage, client_lst, client_free_lst>>
  BY DEF f_creat, init_inode, RamState, RamInv, NeverUsed
<1>2. /\ inodes'[nb].in_use = Y
      /\ \A i \in 1 .. MAX_NB_DATA_BLOCKS : inodes'[nb].data[i] = NIL_BLOCK_NB
      /\ \A n \in Inode \ {nb} : inodes'[n] = inodes[n]
  BY <1>1, PutMark DEF f_creat, init_inode, RamState, DiskType, put_byte
<1>3. \A n \in Inode : Exists(n)' <=> Exists(n) \/ n = nb
  BY <1>1, <1>2, PutMark DEF Exists
<1>4. ~ Exists(nb)
  BY <1>1, PutMark DEF Exists
<1>5. NeverUsed'
  BY <1>1, <1>2, PutMark DEF RamState, RamInv, NeverUsed
<1>6. CachedAllowed'
  <2>. SUFFICES ASSUME NEW c \in DOMAIN client_lst, NEW fd \in FD,
                       validate_inode(client_lst[c][fd].inode)'
                PROVE  client_lst[c][fd].perm_flags
                         \subseteq get_acl(client_lst[c][fd].inode, c)'
    BY <1>1 DEF CachedAllowed
  <2>. DEFINE n == client_lst[c][fd].inode
  <2>1. CASE n = nb
    <3>1. validate_inode(nb)
      BY <1>1, PutMark DEF validate_inode
    <3>2. get_acl(nb, c) = {}
      <4>1. \A i \in 1 .. ACL_LENGTH : inodes[nb].acl[i].perms = {}
        BY <1>1 DEF ErasedInode, ZERO
      <4>. QED
        BY <3>1, <4>1, FirstEntries DEF get_acl, F_NIL
    <3>3. client_lst[c][fd].perm_flags \subseteq get_acl(nb, c)
      BY <2>1, <3>1 DEF RamState, RamInv, CachedAllowed
    <3>. QED
      BY <3>2, <3>3
  <2>2. CASE n # nb
    <3>1. inodes'[n] = inodes[n] /\ validate_inode(n)
      BY <1>1, <1>2, <2>2 DEF validate_inode
    <3>2. get_acl(n, c)' = get_acl(n, c)
      BY <1>1, <3>1, SameAcl
    <3>. QED
      BY <3>1, <3>2 DEF RamState, RamInv, CachedAllowed
  <2>. QED
    BY <2>1, <2>2
<1>7. UsageIsOwned'
  <2>1. \A n \in Inode : n # nb => BlocksOf(n)' = BlocksOf(n)
    BY <1>2 DEF BlocksOf
  <2>2. BlocksOf(nb)' = {}
    BY <1>2 DEF BlocksOf
  <2>. QED
    BY <1>1, <1>3, <1>4, <2>1, <2>2 DEF RamState, RamInv, UsageIsOwned
<1>8. NotShared'
  BY <1>2, <1>3 DEF RamState, RamInv, NotShared
<1>. QED
  BY <1>5, <1>6, <1>7, <1>8 DEF RamInv

\* Unlinking a file: the caller has a right to it, so it exists, and its blocks,
\* which are its own, are freed.
LEMMA UnlinkRam ==
  ASSUME RamState, NEW id \in SM, NEW nb, f_unlink(id, nb)
  PROVE  RamInv'
<1>1. /\ nb \in Inode /\ validate_inode(nb) /\ CHK_PERM(get_acl(nb, id), F_UNLINK)
      /\ UNCHANGED <<flash, client_lst, client_free_lst>>
  BY DEF f_unlink, free_inode, validate_inode
<1>2. Exists(nb)
  BY <1>1, RightsExist DEF RamState, RamInv, F_UNLINK
<1>3. /\ inodes'[nb].in_use = N
      /\ \A n \in Inode \ {nb} : inodes'[n] = inodes[n]
      /\ disk_usage' = disk_usage \ {inodes[nb].data[i] : i \in 1 .. MAX_NB_DATA_BLOCKS}
  BY <1>1 DEF f_unlink, free_inode, free_data_blocks, put_byte, RamState, DiskType, InodeType
<1>4. \A n \in Inode : Exists(n)' <=> Exists(n) /\ n # nb
  BY <1>1, <1>3, PutMark DEF Exists
<1>5. NeverUsed'
  BY <1>1, <1>3, PutMark DEF RamState, RamInv, NeverUsed
<1>6. CachedAllowed'
  <2>. SUFFICES ASSUME NEW c \in DOMAIN client_lst, NEW fd \in FD,
                       validate_inode(client_lst[c][fd].inode)'
                PROVE  client_lst[c][fd].perm_flags
                         \subseteq get_acl(client_lst[c][fd].inode, c)'
    BY <1>1 DEF CachedAllowed
  <2>. DEFINE n == client_lst[c][fd].inode
  <2>1. n \in Inode /\ n # nb /\ inodes'[n] = inodes[n] /\ validate_inode(n)
    BY <1>1, <1>3 DEF validate_inode
  <2>2. get_acl(n, c)' = get_acl(n, c)
    BY <1>1, <2>1, SameAcl
  <2>. QED
    BY <2>1, <2>2 DEF RamState, RamInv, CachedAllowed
<1>7. UsageIsOwned'
  <2>1. \A n \in Inode : n # nb => BlocksOf(n)' = BlocksOf(n)
    BY <1>3 DEF BlocksOf
  <2>2. disk_usage' = disk_usage \ BlocksOf(nb)
    <3>1. NIL_BLOCK_NB \notin disk_usage
      BY InodeAssumption DEF RamState, DiskType
    <3>. QED
      BY <1>3, <3>1 DEF BlocksOf
  <2>3. \A n \in Inode : Exists(n) /\ n # nb => BlocksOf(n) \cap BlocksOf(nb) = {}
    BY <1>2 DEF RamState, RamInv, NotShared, BlocksOf, Exists
  <2>4. disk_usage = UNION {BlocksOf(n) : n \in {n \in Inode : Exists(n)}}
    BY DEF RamState, RamInv, UsageIsOwned
  <2>. QED
    BY <1>4, <2>1, <2>2, <2>3, <2>4 DEF UsageIsOwned
<1>8. NotShared'
  BY <1>3, <1>4 DEF RamState, RamInv, NotShared
<1>. QED
  BY <1>5, <1>6, <1>7, <1>8 DEF RamInv

\* The smallest number of a set is determined by being it.
LEMMA FirstUnique ==
  ASSUME NEW S \in SUBSET Nat, NEW k \in S, \A j \in S : k <= j
  PROVE  First(S) = k
<1>1. First(S) \in S /\ First(S) <= k
  BY FirstIsLeast
<1>2. k <= First(S) /\ First(S) \in Nat /\ k \in Nat
  BY <1>1
<1>. QED
  BY <1>1, <1>2

\* What chmod writes on the RAM disk: entry i, which is the one of module sm, or a
\* free one if it has none.
EntryWritten(nb, i, sm, perm) ==
  /\ i \in 1 .. ACL_LENGTH
  /\ \/ EntriesOf(nb, sm) # {} /\ i = First(EntriesOf(nb, sm))
     \/ EntriesOf(nb, sm) = {} /\ inodes[nb].acl[i].perms = F_NIL
  /\ \A n \in Inode \ {nb} : inodes'[n] = inodes[n]
  /\ inodes'[nb].in_use = inodes[nb].in_use /\ inodes'[nb].data = inodes[nb].data
  /\ \A k \in 1 .. ACL_LENGTH \ {i} : inodes'[nb].acl[k] = inodes[nb].acl[k]
  /\ inodes'[nb].acl[i].who = sm /\ inodes'[nb].acl[i].perms = perm

\* A permission that set_acl writes goes to one such entry.
LEMMA ChmodWrites ==
  ASSUME DiskType, ~ flash, NEW nb, NEW sm, NEW perm, set_acl(nb, sm, perm)
  PROVE  \E i \in 1 .. ACL_LENGTH : EntryWritten(nb, i, sm, perm)
<1>1. nb \in Inode /\ inodes[nb] \in InodeType /\ inodes[nb].acl \in AclType
  BY DEF set_acl, validate_inode, DiskType, InodeType
<1>2. PICK i \in 1 .. ACL_LENGTH :
        /\ PutEntry(nb, i, sm, perm)
        /\ \/ EntriesOf(nb, sm) # {} /\ i = First(EntriesOf(nb, sm))
           \/ EntriesOf(nb, sm) = {} /\ inodes[nb].acl[i].perms = F_NIL
  BY FirstEntries DEF set_acl
<1>3. inodes' = [inodes EXCEPT ![nb].acl[i] = [who |-> sm, perms |-> perm]]
  BY <1>2 DEF PutEntry, put_byte
<1>. QED
  BY <1>1, <1>2, <1>3 DEF EntryWritten, DiskType, InodeType, AclType

\* The module gets what chmod writes, and nobody else anything: an entry that was
\* taken from another module, or hides one of its entries no longer, gave nothing.
LEMMA ChmodRights ==
  ASSUME NEW nb \in Inode, inodes[nb].in_use # N, NEW i, NEW sm, NEW perm,
         EntryWritten(nb, i, sm, perm)
  PROVE  /\ get_acl(nb, sm)' = perm
         /\ \A c : c # sm /\ get_acl(nb, c) # {} => get_acl(nb, c)' = get_acl(nb, c)
<1>1. validate_inode(nb) /\ validate_inode(nb)' /\ i \in 1 .. ACL_LENGTH
  BY DEF validate_inode, EntryWritten
<1>2. /\ EntriesOf(nb, sm)' = EntriesOf(nb, sm) \cup {i}
      /\ \A c : c # sm => EntriesOf(nb, c)' = EntriesOf(nb, c) \ {i}
  BY DEF EntriesOf, EntryWritten
<1>3. \A c : EntriesOf(nb, c) \in SUBSET Nat /\ i \in Nat
  BY <1>1, InodeAssumption DEF EntriesOf
<1>4. First(EntriesOf(nb, sm)') = i
  <2>1. CASE EntriesOf(nb, sm) = {}
    BY <1>2, <1>3, <2>1, FirstUnique
  <2>2. CASE EntriesOf(nb, sm) # {}
    <3>1. i = First(EntriesOf(nb, sm)) /\ i \in EntriesOf(nb, sm)
      BY <1>3, <2>2, FirstIsLeast DEF EntryWritten
    <3>2. EntriesOf(nb, sm)' = EntriesOf(nb, sm)
      BY <1>2, <3>1
    <3>. QED
      BY <3>1, <3>2
  <2>. QED
    BY <2>1, <2>2
<1>5. get_acl(nb, sm)' = inodes'[nb].acl[i].perms
  BY <1>1, <1>2, <1>4 DEF get_acl
<1>6. ASSUME NEW c, c # sm, get_acl(nb, c) # {}
      PROVE  get_acl(nb, c)' = get_acl(nb, c)
  <2>. DEFINE k == First(EntriesOf(nb, c))
  <2>1. EntriesOf(nb, c) # {} /\ get_acl(nb, c) = inodes[nb].acl[k].perms
    BY <1>1, <1>6 DEF get_acl, F_NIL
  <2>2. k \in EntriesOf(nb, c) /\ \A j \in EntriesOf(nb, c) : k <= j
    BY <1>3, <2>1, FirstIsLeast
  <2>3. k # i
    <3>1. CASE EntriesOf(nb, sm) = {}
      BY <1>6, <2>1, <3>1 DEF EntryWritten, F_NIL
    <3>2. CASE EntriesOf(nb, sm) # {}
      <4>1. i \in EntriesOf(nb, sm)
        BY <1>3, <3>2, FirstIsLeast DEF EntryWritten
      <4>. QED
        BY <1>6, <2>2, <4>1 DEF EntriesOf
    <3>. QED
      BY <3>1, <3>2
  <2>. HIDE DEF k
  <2>4. EntriesOf(nb, c)' \in SUBSET Nat /\ k \in EntriesOf(nb, c)'
    BY <1>2, <1>3, <1>6, <2>2, <2>3
  <2>5. First(EntriesOf(nb, c)') = k
    BY <1>2, <1>6, <2>2, <2>4, FirstUnique
  <2>6. get_acl(nb, c)' = inodes'[nb].acl[k].perms
    BY <1>1, <2>4, <2>5 DEF get_acl
  <2>. QED
    BY <2>1, <2>2, <2>3, <2>6 DEF EntryWritten, EntriesOf
<1>. QED
  BY <1>5, <1>6 DEF EntryWritten

\* Changing permissions: what the files that the module has open allow follows the
\* list.
LEMMA ChmodRam ==
  ASSUME RamState, NEW id \in SM, NEW nb, NEW sm \in SM, NEW perm \in Perm,
         f_chmod(id, nb, sm, perm)
  PROVE  RamInv'
<1>1. /\ nb \in Inode /\ inodes[nb].in_use # N /\ CHK_PERM(get_acl(nb, id), F_ALL)
      /\ set_acl(nb, sm, perm) /\ disk_usage' = disk_usage /\ validate_inode(nb)
  BY DEF f_chmod, set_acl, validate_inode
<1>2. Exists(nb)
  BY <1>1, RightsExist DEF RamState, RamInv, F_ALL
<1>3. PICK i \in 1 .. ACL_LENGTH : EntryWritten(nb, i, sm, perm)
  BY <1>1, ChmodWrites DEF RamState
<1>4. /\ \A n \in Inode \ {nb} : inodes'[n] = inodes[n]
      /\ \A n \in Inode : /\ inodes'[n].in_use = inodes[n].in_use
                          /\ inodes'[n].data = inodes[n].data
  BY <1>3 DEF EntryWritten
<1>5. NeverUsed'
  BY <1>2, <1>4, PutMark DEF RamState, RamInv, NeverUsed, Exists
<1>6. CachedAllowed'
  <2>1. DOMAIN client_lst' = DOMAIN client_lst
    BY DEF f_chmod
  <2>2. ASSUME NEW c \in DOMAIN client_lst, NEW fd \in FD
        PROVE  /\ client_lst'[c][fd].inode = client_lst[c][fd].inode
               /\ client_lst'[c][fd].perm_flags =
                    IF c = sm /\ client_lst[c][fd].inode = nb THEN perm
                    ELSE client_lst[c][fd].perm_flags
    <3>1. client_lst[c][fd] \in OPEN_FILE
      BY DEF RamState, ClientsType
    <3>. QED
      BY <3>1 DEF f_chmod, OPEN_FILE
  <2>. SUFFICES ASSUME NEW c \in DOMAIN client_lst, NEW fd \in FD,
                       validate_inode(client_lst[c][fd].inode)'
                PROVE  client_lst'[c][fd].perm_flags
                         \subseteq get_acl(client_lst[c][fd].inode, c)'
    BY <2>1, <2>2 DEF CachedAllowed, validate_inode
  <2>3. PICK n : n = client_lst[c][fd].inode /\ n = client_lst'[c][fd].inode
    BY <2>2
  <2>4. n \in Inode /\ validate_inode(n) /\ validate_inode(n)'
    <3>1. n \in Inode /\ inodes'[n].in_use # N
      BY <2>3 DEF validate_inode
    <3>. QED
      BY <1>4, <3>1 DEF validate_inode
  <2>5. client_lst[c][fd].perm_flags \subseteq get_acl(n, c)
    BY <2>3, <2>4 DEF RamState, RamInv, CachedAllowed
  <2>6. CASE n # nb
    <3>1. get_acl(n, c)' = get_acl(n, c)
      BY <1>4, <2>4, <2>6, SameAcl
    <3>2. client_lst'[c][fd].perm_flags \subseteq get_acl(n, c)'
      BY <2>2, <2>3, <2>5, <2>6, <3>1
    <3>. QED
      BY <2>3, <3>2
  <2>7. CASE n = nb /\ c = sm
    <3>1. client_lst'[c][fd].perm_flags = perm
      BY <2>2, <2>3, <2>7
    <3>2. get_acl(nb, sm)' = perm
      BY <1>1, <1>3, ChmodRights
    <3>3. get_acl(n, c)' = perm
      BY <2>7, <3>2
    <3>. QED
      BY <2>3, <3>1, <3>3
  <2>8. CASE n = nb /\ c # sm
    <3>1. client_lst'[c][fd].perm_flags = client_lst[c][fd].perm_flags
      BY <2>2, <2>8
    <3>2. get_acl(nb, c) = {} \/ get_acl(nb, c)' = get_acl(nb, c)
      BY <1>1, <1>3, <2>8, ChmodRights
    <3>3. client_lst'[c][fd].perm_flags \subseteq get_acl(nb, c)'
      BY <2>5, <2>8, <3>1, <3>2
    <3>. QED
      BY <2>3, <2>8, <3>3
  <2>. QED
    BY <2>6, <2>7, <2>8
<1>7. UsageIsOwned'
  BY <1>1, <1>4 DEF RamState, RamInv, UsageIsOwned, Exists, BlocksOf
<1>8. NotShared'
  BY <1>4 DEF RamState, RamInv, NotShared, Exists
<1>. QED
  BY <1>5, <1>6, <1>7, <1>8 DEF RamInv

\* When the disk stays as it is, only the open files matter.
LEMMA SameDiskRam ==
  ASSUME RamInv, inodes' = inodes, disk_usage' = disk_usage,
         \A c \in DOMAIN client_lst' : \A fd \in FD :
           LET file == client_lst'[c][fd]
           IN  validate_inode(file.inode) =>
                 file.perm_flags \subseteq get_acl(file.inode, c)
  PROVE  RamInv'
<1>1. \A nb : \A c : get_acl(nb, c)' = get_acl(nb, c)
  BY DEF get_acl, validate_inode, EntriesOf
<1>2. CachedAllowed'
  BY <1>1 DEF CachedAllowed, validate_inode
<1>3. NeverUsed' /\ UsageIsOwned' /\ NotShared'
  BY DEF RamInv, NeverUsed, UsageIsOwned, NotShared, Exists, BlocksOf
<1>. QED
  BY <1>2, <1>3 DEF RamInv

\* Opening a file: the permissions are checked against the list.
LEMMA OpenRam ==
  ASSUME RamState, NEW id \in SM, NEW nb \in Inode \cup {OUT_OF_BOUNDS},
         NEW perm \in Perm, f_open(id, nb, perm)
  PROVE  RamInv'
<1>. DEFINE clients == IF Registered(id) THEN client_lst ELSE create_new_client(id)
            free == {fd \in FD : clients[id][fd].inode = NIL_INODE_NB}
            opened == [inode |-> nb, perm_flags |-> perm]
<1>1. ~ validate_inode(NIL_INODE_NB)
  BY InodeAssumption DEF validate_inode
<1>2. \A fd \in FD : NO_FILES[fd].inode = NIL_INODE_NB
  BY DEF NO_FILES, CLOSED
<1>3. \A c \in DOMAIN clients : \A fd \in FD :
        validate_inode(clients[c][fd].inode) =>
          clients[c][fd].perm_flags \subseteq get_acl(clients[c][fd].inode, c)
  <2>1. CASE Registered(id)
    BY <2>1 DEF RamState, RamInv, CachedAllowed
  <2>2. CASE ~ Registered(id)
    BY <1>1, <1>2, <2>2 DEF RamState, RamInv, CachedAllowed, create_new_client
  <2>. QED
    BY <2>1, <2>2
<1>4. /\ inodes' = inodes /\ disk_usage' = disk_usage
      /\ \/ /\ perm \subseteq get_acl(nb, id)
            /\ client_lst' = [clients EXCEPT ![id][First(free)] = opened]
         \/ client_lst' = clients
  BY DEF f_open, CHK_PERM
<1>5. /\ \A c \in DOMAIN clients : clients[c] \in [FD -> OPEN_FILE]
      /\ opened.inode = nb /\ opened.perm_flags = perm
  BY TableType DEF RamState, ClientsType, Registered, create_new_client
<1>. HIDE DEF clients, free, opened
<1>6. CASE client_lst' = clients
  BY <1>3, <1>4, <1>6, SameDiskRam DEF RamState
<1>7. CASE /\ perm \subseteq get_acl(nb, id)
           /\ client_lst' = [clients EXCEPT ![id][First(free)] = opened]
  <2>. SUFFICES ASSUME NEW c \in DOMAIN client_lst', NEW fd \in FD,
                       validate_inode(client_lst'[c][fd].inode)
                PROVE  client_lst'[c][fd].perm_flags
                         \subseteq get_acl(client_lst'[c][fd].inode, c)
    BY <1>4, SameDiskRam DEF RamState
  <2>1. /\ c \in DOMAIN clients
        /\ \/ client_lst'[c][fd] = clients[c][fd]
           \/ c = id /\ client_lst'[c][fd] = opened
    BY <1>5, <1>7
  <2>2. CASE client_lst'[c][fd] = clients[c][fd]
    BY <1>3, <2>1, <2>2
  <2>3. CASE c = id /\ client_lst'[c][fd] = opened
    BY <1>5, <1>7, <2>3
  <2>. QED
    BY <2>1, <2>2, <2>3
<1>. QED
  BY <1>4, <1>6, <1>7

\* Closing a file.
LEMMA CloseRam ==
  ASSUME RamState, NEW id \in SM, NEW fd \in FD, f_close(id, fd)
  PROVE  RamInv'
<1>1. ~ validate_inode(CLOSED.inode)
  BY InodeAssumption DEF validate_inode, CLOSED
<1>2. inodes' = inodes /\ disk_usage' = disk_usage
  BY DEF f_close
<1>3. ASSUME NEW c \in DOMAIN client_lst', NEW n \in FD
      PROVE  /\ c \in DOMAIN client_lst
             /\ client_lst'[c][n] \in {client_lst[c][n], CLOSED}
  <2>1. CASE remove_client(id)
    BY <1>3, <2>1 DEF remove_client
  <2>2. CASE client_lst' = [client_lst EXCEPT ![id][fd] = CLOSED]
    BY <1>3, <2>2 DEF RamState, ClientsType
  <2>. QED
    BY <2>1, <2>2 DEF f_close
<1>4. ASSUME NEW c \in DOMAIN client_lst', NEW n \in FD,
             validate_inode(client_lst'[c][n].inode)
      PROVE  client_lst'[c][n].perm_flags \subseteq get_acl(client_lst'[c][n].inode, c)
  <2>1. c \in DOMAIN client_lst /\ client_lst'[c][n] = client_lst[c][n]
    BY <1>1, <1>3, <1>4
  <2>. QED
    BY <1>4, <2>1 DEF RamState, RamInv, CachedAllowed
<1>. QED
  BY <1>2, <1>4, SameDiskRam DEF RamState

\* On the RAM disk an access through an open file is one its list allows.
LEMMA AccessRam ==
  ASSUME RamState, NEW id, NEW fd \in FD, NEW right, right # {},
         Accesses(id, fd, right)
  PROVE  /\ Exists(client_lst[id][fd].inode)
         /\ MayNow(id, client_lst[id][fd].inode, right)
<1>. DEFINE nb == client_lst[id][fd].inode
<1>1. id \in DOMAIN client_lst /\ validate_inode(nb)
  BY DEF Accesses, CHK_FD, Registered
<1>2. CHK_PERM(get_acl(nb, id), right)
  BY <1>1 DEF Accesses, CHK_PERM, RamState, RamInv, CachedAllowed
<1>. HIDE DEF nb
<1>3. Exists(nb) /\ MayNow(id, nb, right)
  BY <1>1, <1>2, RightsExist, RightsAreEntries DEF RamState, RamInv
<1>. QED
  BY <1>3 DEF nb

\* Writing: a new block was in use by no file.
LEMMA WriteRam ==
  ASSUME RamState, NEW nb \in Inode, Exists(nb), NEW i \in 1 .. MAX_NB_DATA_BLOCKS,
         put_char(nb, i), client_lst' = client_lst
  PROVE  RamInv'
<1>1. CASE UNCHANGED <<inodes, disk_usage>>
  BY <1>1, SameDiskRam DEF RamState, RamInv, CachedAllowed
<1>2. CASE inodes[nb].data[i] = NIL_BLOCK_NB /\ disk_usage # Block
  <2>. DEFINE b == alloc_data_block
  <2>1. b \in Block /\ b \notin disk_usage /\ b # NIL_BLOCK_NB
    BY <1>2, InodeAssumption DEF alloc_data_block, RamState, DiskType
  <2>2. /\ inodes' = [inodes EXCEPT ![nb].data[i] = b]
        /\ disk_usage' = disk_usage \cup {b}
    BY <1>2 DEF put_char, put_byte, RamState
  <2>. HIDE DEF b
  <2>3. inodes[nb] \in InodeType /\ inodes[nb].data \in DataType
    BY DEF RamState, DiskType, InodeType
  <2>4. /\ \A n \in Inode \ {nb} : inodes'[n] = inodes[n]
        /\ \A n \in Inode : inodes'[n].in_use = inodes[n].in_use
        /\ \A n \in Inode : inodes'[n].acl = inodes[n].acl
        /\ inodes'[nb].data[i] = b
        /\ \A j \in 1 .. MAX_NB_DATA_BLOCKS \ {i} :
             inodes'[nb].data[j] = inodes[nb].data[j]
    BY <2>2, <2>3 DEF RamState, DiskType, InodeType, DataType
  <2>5. NeverUsed'
    BY <2>4, PutMark DEF RamState, RamInv, NeverUsed, Exists
  <2>6. CachedAllowed'
    <3>. SUFFICES ASSUME NEW c \in DOMAIN client_lst, NEW fd \in FD,
                         validate_inode(client_lst[c][fd].inode)'
                  PROVE  client_lst[c][fd].perm_flags
                           \subseteq get_acl(client_lst[c][fd].inode, c)'
      BY DEF CachedAllowed
    <3>. DEFINE n == client_lst[c][fd].inode
    <3>1. n \in Inode /\ inodes'[n].acl = inodes[n].acl /\ validate_inode(n)
      BY <2>4 DEF validate_inode
    <3>2. get_acl(n, c)' = get_acl(n, c)
      BY <3>1, SameAcl
    <3>. QED
      BY <3>1, <3>2 DEF RamState, RamInv, CachedAllowed
  <2>7. \A n \in Inode : Exists(n)' <=> Exists(n)
    BY <2>4 DEF Exists
  <2>8. UsageIsOwned'
    <3>1. \A n \in Inode \ {nb} : BlocksOf(n)' = BlocksOf(n)
      BY <2>4 DEF BlocksOf
    <3>2. BlocksOf(nb)' = BlocksOf(nb) \cup {b}
      <4>1. BlocksOf(nb)' \subseteq BlocksOf(nb) \cup {b}
        BY <2>4 DEF BlocksOf
      <4>2. BlocksOf(nb) \subseteq BlocksOf(nb)'
        BY <1>2, <2>4 DEF BlocksOf
      <4>3. b \in BlocksOf(nb)'
        BY <2>1, <2>4 DEF BlocksOf
      <4>. QED
        BY <4>1, <4>2, <4>3
    <3>3. disk_usage = UNION {BlocksOf(n) : n \in {n \in Inode : Exists(n)}}
      BY DEF RamState, RamInv, UsageIsOwned
    <3>. QED
      BY <2>2, <2>7, <3>1, <3>2, <3>3 DEF UsageIsOwned
  <2>9. NotShared'
    <3>1. \A n \in Inode : \A j \in 1 .. MAX_NB_DATA_BLOCKS :
            Exists(n) => inodes[n].data[j] # b
      BY <2>1 DEF RamState, RamInv, UsageIsOwned, BlocksOf
    <3>2. \A n \in Inode : \A j \in 1 .. MAX_NB_DATA_BLOCKS :
            \/ n = nb /\ j = i /\ inodes'[n].data[j] = b
            \/ ~ (n = nb /\ j = i) /\ inodes'[n].data[j] = inodes[n].data[j]
      BY <2>4
    <3>3. NotShared
      BY DEF RamState, RamInv
    <3>. QED
      BY <2>7, <3>1, <3>2, <3>3 DEF NotShared
  <2>. QED
    BY <2>5, <2>6, <2>8, <2>9 DEF RamInv
<1>. QED
  BY <1>1, <1>2 DEF put_char

\* f_putc writes only to files that exist.
LEMMA PutcRam ==
  ASSUME RamState, NEW id \in SM, NEW fd \in FD, f_putc(id, fd)
  PROVE  RamInv'
<1>1. F_WR # {}
  BY DEF F_WR
<1>2. Exists(client_lst[id][fd].inode)
  BY <1>1, AccessRam DEF f_putc
<1>. QED
  BY <1>2, WriteRam DEF f_putc, Exists

-----------------------------------------------------------------------------
(* The theorems.                                                            *)

\* The invariant that all the theorems about states rest on: the types, the client
\* structs and, on the RAM disk, what the lists, the open files and the blocks have
\* to do with each other.
THEOREM InodeInvariant == Spec => []InodeInv
<1>1. Init => InodeInv
  <2>. SUFFICES ASSUME Init PROVE InodeInv
    OBVIOUS
  <2>1. DOMAIN client_lst = {} /\ MAX_NB_SM \in Nat
    BY InodeAssumption DEF Init
  <2>2. ClientsType
    BY <2>1, FS_EmptySet DEF Init, ClientsType, ClientsInv
  <2>3. DiskType
    BY ErasedType DEF Init, DiskType
  <2>4. \A nb \in Inode : inodes[nb] = ErasedInode /\ inodes[nb].in_use = ZERO
    BY DEF Init, ERASED, ErasedInode
  <2>5. \A nb \in Inode : ~ Exists(nb)
    BY <2>4, PutMark DEF Exists
  <2>6. RamInv
    BY <2>1, <2>4, <2>5
    DEF Init, RamInv, NeverUsed, CachedAllowed, UsageIsOwned, NotShared
  <2>7. CallerType
    BY DEF Init, CallerType
  <2>. QED
    BY <2>2, <2>3, <2>6, <2>7, Types DEF InodeInv
<1>2. InodeInv /\ [Next]_vars => InodeInv'
  <2>. SUFFICES ASSUME InodeInv, [Next]_vars
                PROVE  InodeInv'
    OBVIOUS
  <2>1. DiskType /\ ClientsType /\ CallerType
    BY Types DEF InodeInv
  <2>2. DiskType' /\ ClientsType' /\ CallerType'
    BY <2>1, DiskTypeStep, ClientsTypeStep, CallerStep
  <2>3. TypeOK' /\ ClientsInv'
    BY <2>2, Types, PTL
  <2>4. ASSUME ~ flash PROVE RamInv'
    <3>1. RamState
      BY <2>1, <2>4 DEF RamState, InodeInv
    <3>2. CASE UNCHANGED state
      BY <3>1, <3>2, SameDiskRam DEF state, RamState, RamInv, CachedAllowed
    <3>3. CASE f_mkfs
      BY <3>3, EraseRam DEF f_mkfs, mkfs, init_client_list
    <3>4. CASE Reboot
      BY <2>4, <3>4, EraseRam DEF Reboot
    <3>5. ASSUME NEW id \in SM, NEW nb, f_creat(id, nb)
          PROVE  RamInv'
      BY <3>1, <3>5, CreateRam
    <3>6. ASSUME NEW id \in SM, NEW nb, f_unlink(id, nb)
          PROVE  RamInv'
      BY <3>1, <3>6, UnlinkRam
    <3>7. ASSUME NEW id \in SM, NEW nb \in Inode \cup {OUT_OF_BOUNDS},
                 NEW perm \in Perm, f_open(id, nb, perm)
          PROVE  RamInv'
      BY <3>1, <3>7, OpenRam
    <3>8. ASSUME NEW id \in SM, NEW nb, NEW sm \in SM, NEW perm \in Perm,
                 f_chmod(id, nb, sm, perm)
          PROVE  RamInv'
      BY <3>1, <3>8, ChmodRam
    <3>9. ASSUME NEW id \in SM, NEW fd \in FD, f_close(id, fd)
          PROVE  RamInv'
      BY <3>1, <3>9, CloseRam
    <3>10. ASSUME NEW id \in SM, NEW fd \in FD, f_getc(id, fd)
          PROVE  RamInv'
      BY <3>2, <3>10 DEF f_getc
    <3>11. ASSUME NEW id \in SM, NEW fd \in FD, f_putc(id, fd)
          PROVE  RamInv'
      BY <3>1, <3>11, PutcRam
    <3>. QED
      BY <3>2, <3>3, <3>4, <3>5, <3>6, <3>7, <3>8, <3>9, <3>10, <3>11 DEF Next, vars
  <2>5. flash' = flash
    BY DEF Next, vars, state, f_mkfs, f_creat, f_open, f_close, f_unlink, f_getc, f_putc,
           f_chmod, Reboot
  <2>. QED
    BY <2>3, <2>4, <2>5 DEF InodeInv
<1>. QED
  BY <1>1, <1>2, PTL DEF Spec

\* The data of the file system has its types, and no client struct is lost or given
\* to two clients, over opening, closing, formatting and restarting
\* (file-sys.c:214-330).
THEOREM InodeTypeCorrect == Spec => []TypeOK
<1>1. InodeInv => TypeOK
  BY DEF InodeInv
<1>. QED
  BY <1>1, InodeInvariant, PTL

\* On a RAM disk of any size every data block in use belongs to one place of one
\* existing file, and nothing else is in use (basic-file-sys.c:193-213, 306-329).
THEOREM BlocksCorrect == Spec => []BlocksOwned
<1>1. InodeInv => BlocksOwned
  BY DEF InodeInv, RamInv, UsageIsOwned, NotShared, BlocksOwned
<1>. QED
  BY <1>1, InodeInvariant, PTL

\* On the RAM disk, for any number of files, modules and open files, an access
\* reaches only a file that exists and whose list allows it now
\* (file-sys.c:24, 103, 199-206).
THEOREM AccessCorrect == Spec => []AccessIsCurrent
<1>1. InodeInv => AccessIsCurrent
  <2>. SUFFICES ASSUME InodeInv, ~ flash, NEW id \in SM, NEW fd \in FD,
                       NEW right \in {F_RD, F_WR}, Accesses(id, fd, right)
                PROVE  /\ Exists(client_lst[id][fd].inode)
                       /\ MayNow(id, client_lst[id][fd].inode, right)
    BY DEF AccessIsCurrent
  <2>1. RamState
    BY Types DEF InodeInv, RamState
  <2>2. right # {}
    BY DEF F_RD, F_WR
  <2>. QED
    BY <2>1, <2>2, AccessRam
<1>. QED
  BY <1>1, InodeInvariant, PTL

\* On both disks the access control list of a file changes, until the disk is
\* erased, only by a call of a module that has all rights to it
\* (file-sys.c:190-191).
THEOREM RightsCorrect == Spec => RightsOnlyByOwner
<1>1. InodeInv /\ [Next]_vars =>
        [\A nb \in Inode :
           /\ inodes[nb].in_use # ZERO
           /\ inodes'[nb].acl # inodes[nb].acl
           => \/ f_mkfs \/ Reboot
              \/ inodes[nb].in_use # N /\ \E id \in caller' : MayNow(id, nb, F_ALL)]_vars
  BY AclChange, Types DEF InodeInv
<1>. QED
  BY <1>1, InodeInvariant, PTL DEF Spec, RightsOnlyByOwner
=============================================================================
