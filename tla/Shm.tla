--------------------------------- MODULE Shm ---------------------------------
(***************************************************************************)
(* The shared memory back-end of the Sancus file system                    *)
(* (src/access_control/sfs/shm/shared-mem.c) on its allocator my_malloc    *)
(* (my_malloc.c), at the level of addresses in the protected buffer.       *)
(*                                                                         *)
(* The free list is the sequence of the chunks its next pointers visit     *)
(* behind the static head; the list of files that of its structs.  A       *)
(* pointer to a block carries the size my_malloc has left in the header    *)
(* above the block, which my_free reads.  Bytes of files are left out.     *)
(* Once two blocks share a byte, a header or a pointer is overwritten with *)
(* data: nothing is said of what follows (Whole).  A header at an odd      *)
(* address is taken to be there, although the MSP430 rounds it down.       *)
(***************************************************************************)
EXTENDS Integers, FiniteSets, Sequences, SequencesExt

CONSTANTS
  Name,
  INIT_BUF_SIZE,      \* bytes of the buffer
  MAX_NB_OPEN_FILES,  \* size of open_fd_cache
  Size                \* sizes of new files, also 0 (sfs.h:166)

ASSUME ShmAssumption ==
  /\ INIT_BUF_SIZE \in Nat /\ INIT_BUF_SIZE > 8
  /\ MAX_NB_OPEN_FILES \in Nat \ {0}
  /\ Size \subseteq Nat

VARIABLES
  free_list,      \* the free chunks, [addr, size]
  shm_list,       \* the files, [block, name, malloc_ptr, size]
  open_fd_cache,  \* the descriptors, [block, shm, offset]
  control         \* "ready"; "circular": the static head links to itself, which
                  \* no search leaves; "hang": a call searches the list for ever

vars == <<free_list, shm_list, open_fd_cache, control>>

FD == 0 .. MAX_NB_OPEN_FILES - 1
Addr == 0 .. 2 * INIT_BUF_SIZE   \* some behind the buffer: blocks may overrun
FREE_CHUNK == 4                  \* sizeof(struct FREE_CHUNK)
SHM_ENTRY == 8                   \* sizeof(struct shm_entry)
OPEN_SHM_ENTRY == 4              \* sizeof(struct open_shm_entry)

NULL == 0
Block == [ptr : Addr, size : Addr]
NO_BLOCK == [ptr |-> NULL, size |-> 0]
HEAD_BLOCK == [ptr |-> FREE_CHUNK + 1, size |-> 0]   \* behind the static head
CLOSED == [block |-> NO_BLOCK, shm |-> NULL, offset |-> 0]

-----------------------------------------------------------------------------
(* The allocator.                                                           *)

Data == [free |-> free_list, files |-> shm_list, fds |-> open_fd_cache,
         control |-> control]

\* The list init_free_list builds, on the first my_malloc or in cfs_format.
InitialList ==
  <<[addr |-> FREE_CHUNK, size |-> INIT_BUF_SIZE - 2 * FREE_CHUNK]>>

\* Mutation: the remainder is computed as a size_t.
TakeUnsigned(d, k, size) ==
  LET cur == d.free[k]
      remainder == (cur.size - size - FREE_CHUNK) % 65536
      ret == cur.addr + FREE_CHUNK + 1
  IN  IF remainder > 0
      THEN [block |-> [ptr |-> ret, size |-> size],
            d |-> [d EXCEPT !.free[k] = [addr |-> ret + size, size |-> remainder]]]
      ELSE [block |-> [ptr |-> ret, size |-> cur.size],
            d |-> [d EXCEPT !.free = RemoveAt(@, k)]]

\* Chunk k of the list is given out for a request of size bytes: split if more
\* than a header remains, as a whole otherwise.
Take(d, k, size) ==
  LET cur == d.free[k]
      remainder == cur.size - size - FREE_CHUNK
      ret == cur.addr + FREE_CHUNK + 1
  IN  IF remainder > 0
      THEN [block |-> [ptr |-> ret, size |-> size],
            d |-> [d EXCEPT !.free[k] = [addr |-> ret + size, size |-> remainder]]]
      ELSE [block |-> [ptr |-> ret, size |-> cur.size],
            d |-> [d EXCEPT !.free = RemoveAt(@, k)]]

Hang(d) == [d EXCEPT !.control = "hang"]

FirstFit(d, size) ==
  LET k == SelectInSeq(d.free, LAMBDA c : c.size >= size)
  IN  IF k = 0 THEN [block |-> NO_BLOCK, d |-> d] ELSE Take(d, k, size)

\* First fit, from the static head on, whose size is 0: it serves a request of no
\* bytes, and stays in the list.
my_malloc(d, size) ==
  CASE size = 0 /\ d.control # "hang" -> [block |-> HEAD_BLOCK, d |-> d]
    [] size # 0 /\ d.control = "ready" -> FirstFit(d, size)
    [] OTHER -> [block |-> NO_BLOCK, d |-> Hang(d)]

\* Mutation: the header of the chunk that is merged is not added.
InsertForgetsHeader(d, k, block) ==
  IF k < Len(d.free) /\ block.ptr + block.size = d.free[k + 1].addr
  THEN [d EXCEPT !.free[k + 1] =
          [addr |-> block.ptr - FREE_CHUNK - 1, size |-> block.size + @.size]]
  ELSE [d EXCEPT !.free = InsertAt(@, k + 1,
          [addr |-> block.ptr - FREE_CHUNK - 1, size |-> block.size])]

\* The block goes behind the first k chunks of the list: merged with the next
\* chunk or with the one before, or as a chunk of its own.
Insert(d, k, block) ==
  IF k < Len(d.free) /\ block.ptr + block.size = d.free[k + 1].addr
  THEN [d EXCEPT !.free[k + 1] =
          [addr |-> block.ptr - FREE_CHUNK - 1,
           size |-> block.size + FREE_CHUNK + @.size]]
  ELSE IF k > 0 /\ d.free[k].addr + 2 * FREE_CHUNK + d.free[k].size = block.ptr
  THEN [d EXCEPT !.free[k].size = @ + FREE_CHUNK + block.size]
  ELSE [d EXCEPT !.free = InsertAt(@, k + 1,
          [addr |-> block.ptr - FREE_CHUNK - 1, size |-> block.size])]

\* The static head becomes a free chunk behind the first k: its next pointer
\* jumps over them, and chunk k links to it.  For k = 0 it links to itself.
InsertHead(d, k) ==
  [d EXCEPT !.free = IF k = 0 THEN <<>> ELSE SubSeq(@, k + 1, Len(@)),
            !.control = IF k = 0 THEN "circular" ELSE @]

\* Mutation: the list is not kept in the order of addresses.
FreeInFront(d, block) == IF block = NO_BLOCK THEN d ELSE Insert(d, 0, block)

\* The places in the list where the addresses of the chunks around it enclose
\* ptr.  The static head lies below every block.
Places(list, ptr) ==
  {k \in 0 .. Len(list) : /\ k > 0 => list[k].addr < ptr
                          /\ k < Len(list) => ptr < list[k + 1].addr}

\* A pointer outside the buffer or without a place is not freed.
my_free(d, block) ==
  LET k == Min(Places(d.free, block.ptr))
  IN  CASE block.ptr \notin 1 .. INIT_BUF_SIZE - 1 -> d
        [] block.ptr \in 1 .. INIT_BUF_SIZE - 1 /\ d.control # "ready" -> Hang(d)
        [] block.ptr \in 1 .. INIT_BUF_SIZE - 1 /\ d.control = "ready" ->
             IF Places(d.free, block.ptr) = {} THEN d
             ELSE IF block = HEAD_BLOCK THEN InsertHead(d, k) ELSE Insert(d, k, block)

-----------------------------------------------------------------------------
(* Files.                                                                   *)

Init ==
  /\ free_list = InitialList
  /\ shm_list = <<>>
  /\ open_fd_cache = [fd \in FD |-> CLOSED]
  /\ control = "ready"

\* End of a call that was made: the data is d.  A call that hangs does not end,
\* and what it leaves is not read before the restart.
Return(d) ==
  /\ control # "hang"
  /\ control' = d.control
  /\ IF d.control = "hang"
     THEN UNCHANGED <<free_list, shm_list, open_fd_cache>>
     ELSE free_list' = d.free /\ shm_list' = d.files /\ open_fd_cache' = d.fds

\* The first free descriptor gets the struct allocated for it (r).
Opened(r, fds, shm) ==
  IF r.block = NO_BLOCK THEN [ok |-> FALSE, d |-> r.d]
  ELSE [ok |-> TRUE,
        d |-> [r.d EXCEPT !.fds[Min(fds)] =
                 [block |-> r.block, shm |-> shm, offset |-> 0]]]

open_existing_file(d, shm) ==
  LET fds == {fd \in FD : d.fds[fd] = CLOSED}
  IN  IF fds = {} THEN [ok |-> FALSE, d |-> d]
      ELSE Opened(my_malloc(d, OPEN_SHM_ENTRY + 1), fds, shm)

\* The new file is in the list; if it cannot be opened its blocks are freed,
\* and the list keeps the pointer.
FirstOpened(r, data, block) ==
  IF r.ok THEN r.d ELSE my_free(my_free(r.d, data), block)

\* Mutation: the block of the content is not given back.
CreatedKeepsData(data, r, name, size) ==
  IF r.block = NO_BLOCK THEN r.d
  ELSE FirstOpened(
         open_existing_file(
           [r.d EXCEPT !.files =
              <<[block |-> r.block, name |-> name, malloc_ptr |-> data, size |-> size]>>
              \o @],
           r.block.ptr),
         data, r.block)

\* data is the block for the new file's content, r the block for its struct.
Created(data, r, name, size) ==
  IF r.block = NO_BLOCK THEN my_free(r.d, data)
  ELSE FirstOpened(
         open_existing_file(
           [r.d EXCEPT !.files =
              <<[block |-> r.block, name |-> name, malloc_ptr |-> data, size |-> size]>>
              \o @],
           r.block.ptr),
         data, r.block)

Allocated(r, name, size) ==
  IF r.block = NO_BLOCK THEN r.d
  ELSE Created(r.block, my_malloc(r.d, SHM_ENTRY + 1), name, size)

Find(name) == SelectInSeq(shm_list, LAMBDA e : e.name = name)

cfs_open_existing(name) ==
  /\ Find(name) # 0
  /\ Return(open_existing_file(Data, shm_list[Find(name)].block.ptr).d)

cfs_open_new(name, size) ==
  /\ Find(name) = 0
  /\ Return(Allocated(my_malloc(Data, size), name, size))

cfs_close(fd) ==
  /\ open_fd_cache[fd] # CLOSED
  /\ Return([my_free(Data, open_fd_cache[fd].block) EXCEPT !.fds[fd] = CLOSED])

\* The file fd is open on.
FileOf(fd) ==
  shm_list[SelectInSeq(shm_list, LAMBDA e : e.block.ptr = open_fd_cache[fd].shm)]

\* cfs_read and cfs_write: one byte, and none at the end of the file.
cfs_access(fd) ==
  /\ open_fd_cache[fd] # CLOSED
  /\ open_fd_cache[fd].offset < FileOf(fd).size
  /\ Return([Data EXCEPT !.fds[fd].offset = @ + 1])

\* The offset is set or moved to one inside the file.
cfs_seek(fd) ==
  /\ open_fd_cache[fd] # CLOSED
  /\ \E offset \in 0 .. FileOf(fd).size - 1 :
       Return([Data EXCEPT !.fds[fd].offset = offset])

\* Mutation: the list always starts behind the removed file.
RemoveDropsFront(name) ==
  LET e == shm_list[Find(name)]
  IN  /\ Find(name) # 0
      /\ \A fd \in FD : open_fd_cache[fd].shm # e.block.ptr
      /\ Return([my_free(Data, e.block) EXCEPT
                   !.files = SubSeq(@, Find(name) + 1, Len(@))])

\* The content's block is not freed.  The front-end removes no open file.
cfs_remove(name) ==
  LET e == shm_list[Find(name)]
  IN  /\ Find(name) # 0
      /\ \A fd \in FD : open_fd_cache[fd].shm # e.block.ptr
      /\ Return([my_free(Data, e.block) EXCEPT !.files = RemoveAt(@, Find(name))])

\* The restart of the node, which clears the RAM, and cfs_format, which the
\* front-end calls on its first use after one (sfs-ram.c:258): there is no file
\* left for it to free.
cfs_format ==
  /\ free_list' = InitialList
  /\ shm_list' = <<>>
  /\ open_fd_cache' = [fd \in FD |-> CLOSED]
  /\ control' = "ready"

Next ==
  \/ \E name \in Name :
       \/ cfs_open_existing(name)
       \/ \E size \in Size : cfs_open_new(name, size)
       \/ cfs_remove(name)
  \/ \E fd \in FD : cfs_close(fd) \/ cfs_access(fd) \/ cfs_seek(fd)
  \/ cfs_format

Spec == Init /\ [][Next]_vars

-----------------------------------------------------------------------------
(* Properties                                                               *)

Bytes(ptr, size) == ptr .. ptr + size - 1

\* The structs, of files and of descriptors, with their blocks.
Structs ==
  {[of |-> <<"file", i>>, block |-> shm_list[i].block, size |-> SHM_ENTRY] :
     i \in DOMAIN shm_list}
  \cup {[of |-> <<"fd", fd>>, block |-> open_fd_cache[fd].block,
         size |-> OPEN_SHM_ENTRY] : fd \in {fd \in FD : open_fd_cache[fd] # CLOSED}}

\* The areas of the buffer that are in use, each with its owner: the headers of
\* the free list, the structs with their headers, and the contents of files.
Area(what, of, ptr, size) == [what |-> what, of |-> of, bytes |-> Bytes(ptr, size)]
Areas ==
  {Area("header", <<"head", 0>>, 0, FREE_CHUNK)}
  \cup {Area("header", <<"free", k>>, free_list[k].addr, FREE_CHUNK) :
          k \in DOMAIN free_list}
  \cup {Area("header", s.of, s.block.ptr - FREE_CHUNK - 1, FREE_CHUNK) : s \in Structs}
  \cup {Area("struct", s.of, s.block.ptr, s.size) : s \in Structs}
  \cup {Area("content", <<"file", i>>, shm_list[i].malloc_ptr.ptr, shm_list[i].size) :
          i \in DOMAIN shm_list}

\* No file of the list was freed when it could not be opened.
NoneFreed ==
  \A e \in ToSet(shm_list), c \in ToSet(free_list) :
    e.block.ptr \notin Bytes(c.addr, FREE_CHUNK + 1 + c.size)

\* As my_malloc.h has it: what my_malloc returns is in the protected buffer, and
\* free: nothing else is in it.
GivesFreeMemory ==
  NoneFreed => /\ \A x \in Areas : x.bytes \subseteq Bytes(0, INIT_BUF_SIZE)
               /\ \A x, y \in Areas : x # y => x.bytes \cap y.bytes = {}

Whole == NoneFreed /\ GivesFreeMemory

Ascending(list) == \A i, j \in DOMAIN list : i < j => list[i].addr < list[j].addr
Bytesfree(list) == FoldLeft(LAMBDA n, c : n + c.size, 0, list)

\* The bytes of the list with those of its headers.
Capacity(list) == Bytesfree(list) + FREE_CHUNK * Len(list)
Serves(list, size) == \E c \in ToSet(list) : c.size >= size

TypeOK ==
  /\ free_list \in Seq([addr : Addr, size : Addr])
  /\ shm_list \in Seq([block : Block, name : Name, malloc_ptr : Block, size : Size])
  /\ open_fd_cache \in [FD -> [block : Block, shm : Addr, offset : Addr]]
  /\ control \in {"ready", "circular", "hang"}

\* Every struct in use can be given back (my_free): it is found a place in the
\* list, which stays in the order of addresses, and its bytes are free again.
BlocksReturn ==
  Whole /\ Ascending(free_list) /\ control = "ready" => \A s \in Structs :
    LET list == my_free(Data, s.block).free
    IN  /\ Ascending(list)
        /\ Bytesfree(list) >= Bytesfree(free_list) + s.block.size

\* To allocate and free changes nothing that counts: what could be allocated
\* before still can, whatever chunk was split or merged.  (A block at the very
\* end of the buffer may start behind it, and one where a free chunk has its
\* header, after many splits before it; neither is taken back.)
FreeUndoesMalloc ==
  Ascending(free_list) /\ control = "ready" =>
    \A size \in (Size \cup {SHM_ENTRY + 1, OPEN_SHM_ENTRY + 1}) \ {0} :
      LET r == my_malloc(Data, size)
          after == my_free(r.d, r.block).free
      IN  /\ r.block.ptr < INIT_BUF_SIZE
          /\ \A c \in ToSet(free_list) : c.addr = r.block.ptr => c.size >= r.block.size
          => \A n \in 1 .. INIT_BUF_SIZE : Serves(free_list, n) => Serves(after, n)

\* The block r starts in the buffer and lies over no free chunk's header: my_free
\* finds it a place.
Returnable(r) ==
  /\ r.block.ptr < INIT_BUF_SIZE
  /\ \A c \in ToSet(r.d.free) :
       Bytes(c.addr, FREE_CHUNK) \cap Bytes(r.block.ptr, r.block.size) = {}

\* Opening a new file keeps the list in the order of addresses; and a file that
\* is not opened, for lack of memory for one of the structs or of a descriptor,
\* costs no memory: the blocks that were allocated before go back
\* (shared-mem.c:155, 168-169).  Not so the block of a file of size 0.
OpenKeepsList ==
  [][\A name \in Name, size \in Size :
       LET data == my_malloc(Data, size)
           entry == my_malloc(data.d, SHM_ENTRY + 1)
       IN  /\ cfs_open_new(name, size) /\ control' = "ready"
           /\ Whole /\ Ascending(free_list) /\ Returnable(data) /\ Returnable(entry)
           => /\ GivesFreeMemory' => Ascending(free_list')
              /\ size # 0 /\ UNCHANGED open_fd_cache
                   => Capacity(free_list') = Capacity(free_list)]_vars

-----------------------------------------------------------------------------
\* The back-end as the front-end sees it.
Cfs == INSTANCE CfsBackend WITH
  files <- {e.name : e \in ToSet(shm_list)},
  fds <- [fd \in FD |->
            IF \E e \in ToSet(shm_list) : e.block.ptr = open_fd_cache[fd].shm
            THEN FileOf(fd).name ELSE NULL]

\* Every call does what the front-end expects of a back-end: files are lost
\* only when they are removed, descriptors stay on their files, however the
\* structs of both are moved about in the buffer.
ImplementsCfs ==
  [][Whole =>
       \/ Cfs!OpenOrClose
       \/ \E name \in Name : Cfs!cfs_remove(name)
       \/ cfs_format /\ Cfs!cfs_format]_vars
=============================================================================
