------------------------------- MODULE Coffee -------------------------------
(***************************************************************************)
(* The flash back-end of the Sancus file system: Coffee                    *)
(* (src/access_control/sfs/cfs/cfs-coffee.c), page by page.                *)
(*                                                                         *)
(* A file or a log is an extent: consecutive pages, the first of which     *)
(* starts with a header.  Only headers are kept, the other pages of an     *)
(* extent are DATA, which no function is meant to read as a header.        *)
(* Sectors are erased as a whole.  RAM holds a cache of file metadata      *)
(* (coffee_files), the file descriptors, and the allocation hints.         *)
(*                                                                         *)
(* Positions, bytes and the records of a log are left out: whether a write *)
(* goes to the extent or to the log, needs an extension, or fills the log  *)
(* is a choice.                                                            *)
(***************************************************************************)
EXTENDS Integers, FiniteSets, Sequences, SequencesExt

CONSTANTS
  Name,
  COFFEE_SECTOR_COUNT, COFFEE_PAGES_PER_SECTOR,
  DYN_PAGES,             \* page_count(COFFEE_DYN_SIZE): pages of a new file
  LOG_PAGES,             \* pages of a log
  COFFEE_MAX_OPEN_FILES, \* size of coffee_files
  COFFEE_FD_SET_SIZE,    \* size of coffee_fd_set
  CrashInside            \* the device may restart in the middle of a call

ASSUME GeometryAssumption ==
  /\ COFFEE_SECTOR_COUNT \in Nat \ {0} /\ COFFEE_PAGES_PER_SECTOR \in Nat \ {0}
  /\ DYN_PAGES \in Nat \ {0} /\ LOG_PAGES \in Nat \ {0}
  /\ COFFEE_MAX_OPEN_FILES \in Nat \ {0} /\ COFFEE_FD_SET_SIZE \in Nat \ {0}

VARIABLES
  flash,          \* [Page -> header, ERASED or DATA]
  next_free,      \* where the search for free pages starts
  gc_wait,        \* nothing was removed since the last collection
  coffee_files,   \* the cached metadata of files and logs
  coffee_fd_set,  \* the slot in coffee_files of each open descriptor
  control,        \* "ready", or how a call went wrong
  torn,           \* history: a call was cut short since the last format
  stranded,       \* history: a collection has erased half an extent
  slotless        \* history: an extent was reserved that got no slot

vars == <<flash, next_free, gc_wait, coffee_files, coffee_fd_set, control, torn,
          stranded, slotless>>

COFFEE_PAGE_COUNT == COFFEE_SECTOR_COUNT * COFFEE_PAGES_PER_SECTOR
Page == 0 .. COFFEE_PAGE_COUNT - 1
Sector == 0 .. COFFEE_SECTOR_COUNT - 1
Slot == 1 .. COFFEE_MAX_OPEN_FILES
FD == 0 .. COFFEE_FD_SET_SIZE - 1

INVALID_PAGE == -1
MISREAD == -2        \* the search has taken data for a header
NULL == -1
NO_NAME == "none"

Flag == {"allocated", "obsolete", "modified", "log", "isolated", "data"}
Header == [name : Name \cup {NO_NAME}, max_pages : 0 .. COFFEE_PAGE_COUNT,
           log_page : Page, flags : SUBSET Flag]

ERASED == [name |-> NO_NAME, max_pages |-> 0, log_page |-> 0, flags |-> {}]
DATA == [ERASED EXCEPT !.flags = {"data"}]
ISOLATED == [ERASED EXCEPT !.flags = {"allocated", "isolated"}]

HDR_FREE(hdr) == "allocated" \notin hdr.flags
HDR_ACTIVE(hdr) == /\ "allocated" \in hdr.flags
                   /\ hdr.flags \cap {"obsolete", "isolated"} = {}
IsFile(hdr) == HDR_ACTIVE(hdr) /\ "log" \notin hdr.flags

\* A free slot; its page is not kept, no descriptor refers to it.
FREE_SLOT == [page |-> INVALID_PAGE, max_pages |-> 0, references |-> 0,
              modified |-> FALSE]

TypeOK ==
  /\ flash \in [Page -> Header]
  /\ next_free \in 0 .. COFFEE_PAGE_COUNT
  /\ gc_wait \in BOOLEAN
  /\ coffee_files \in
       [Slot -> [page : Page \cup {INVALID_PAGE}, max_pages : 0 .. COFFEE_PAGE_COUNT,
                 references : 0 .. 255, modified : BOOLEAN]]
  /\ coffee_fd_set \in [FD -> Slot \cup {NULL}]
  /\ control \in {"ready", "hang", "undefined", "misread"}
  /\ torn \in BOOLEAN /\ stranded \in BOOLEAN /\ slotless \in BOOLEAN

-----------------------------------------------------------------------------
(* A call works on data d; images are the contents the flash had on the way. *)

Data == [flash |-> flash, next_free |-> next_free, gc_wait |-> gc_wait,
         files |-> coffee_files, fds |-> coffee_fd_set,
         control |-> control, images |-> {}, slotless |-> slotless]

Misread(d) == [d EXCEPT !.control = "misread"]

Program(d, contents) ==
  [d EXCEPT !.flash = contents, !.images = @ \cup {contents}]

\* The header of a new extent, or other bits of an existing one.
write_header(d, hdr, page) ==
  Program(d, [p \in Page |->
                IF p = page THEN hdr
                ELSE IF p \in page + 1 .. page + hdr.max_pages - 1 THEN DATA
                ELSE d.flash[p]])

SetFlags(d, page, flags) ==
  Program(d, [d.flash EXCEPT ![page].flags = @ \cup flags])

COFFEE_ERASE(d, sector) ==
  Program(d, [p \in Page |-> IF p \div COFFEE_PAGES_PER_SECTOR = sector
                             THEN ERASED ELSE d.flash[p]])

\* The page to look at after page: behind an extent or in the next sector.
next_file(contents, page) ==
  LET hdr == contents[page]
  IN  CASE HDR_FREE(hdr) -> (page \div COFFEE_PAGES_PER_SECTOR + 1)
                              * COFFEE_PAGES_PER_SECTOR
        [] "isolated" \in hdr.flags -> page + 1
        [] OTHER -> page + hdr.max_pages

\* The pages a scan looks at, up to data that it would take for a header.
Scan(contents, from) ==
  LET visit[page \in Nat] ==
        CASE page \notin Page -> {}
          [] page \in Page /\ contents[page] = DATA -> {page}
          [] OTHER -> {page} \cup visit[next_file(contents, page)]
  IN  visit[from]

-----------------------------------------------------------------------------
(* Garbage collection: a sector is erased when nothing in it is active.     *)

PagesOf(contents, pages) ==
  FoldSet(LAMBDA p, n : n + (IF "isolated" \in contents[p].flags THEN 1
                             ELSE contents[p].max_pages), 0, pages)

\* A sector with act active and obs obsolete pages, over of them behind its
\* end, where they belong to the extent whose header is at last.
SectorStatus(contents, last, act, obs, over) ==
  LET size == COFFEE_PAGES_PER_SECTOR
      lastActive == HDR_ACTIVE(contents[last])
  IN  [active |-> IF over > 0 /\ lastActive THEN size - obs ELSE act,
       obsolete |-> IF over > 0 /\ ~ lastActive THEN size - act ELSE obs,
       skip |-> over, lastActive |-> lastActive, misread |-> contents[last] = DATA,
       isolate |-> IF lastActive \/ over >= size THEN 0 ELSE over]

\* The same from the pages that are read.
CountPages(contents, seen, last, skip, active) ==
  LET size == COFFEE_PAGES_PER_SECTOR
      actives == {p \in seen : HDR_ACTIVE(contents[p])}
      obsoletes == {p \in seen : ~ HDR_ACTIVE(contents[p]) /\ ~ HDR_FREE(contents[p])}
      act == PagesOf(contents, actives) + (IF active THEN skip ELSE 0)
      obs == PagesOf(contents, obsoletes) + (IF active THEN 0 ELSE skip)
      free == IF HDR_FREE(contents[last]) THEN size - (last % size) ELSE 0
  IN  SectorStatus(contents, last, act, obs, act + obs + free - size)

\* The pages of a sector, given how many of them belong to an extent that
\* starts before it (skip) and whether that one is active; the same for the
\* next sector, and how many pages there have to be isolated.
get_sector_status(contents, sector, skip, active) ==
  LET size == COFFEE_PAGES_PER_SECTOR
      seen == {p \in Scan(contents, sector * size + skip) : p < (sector + 1) * size}
  IN  IF skip >= size
      THEN [active |-> IF active THEN size ELSE 0,
            obsolete |-> IF active THEN 0 ELSE size,
            skip |-> skip - size, lastActive |-> active, misread |-> FALSE,
            isolate |-> IF active \/ skip - size >= size THEN 0 ELSE skip - size]
      ELSE CountPages(contents, seen, Max(seen), skip, active)

\* Mutation: its last page is not isolated.
IsolateTooFew(d, start, skip_pages) ==
  FoldLeft(LAMBDA e, page : write_header(e, ISOLATED, start + page - 1),
           d, [i \in 1 .. skip_pages - 1 |-> i])

isolate_pages(d, start, skip_pages) ==
  FoldLeft(LAMBDA e, page : write_header(e, ISOLATED, start + page - 1),
           d, [i \in 1 .. skip_pages |-> i])

\* A sector with status s: erased when it has obsolete pages and no active one.
CollectSector(d, sector, s) ==
  LET first == sector * COFFEE_PAGES_PER_SECTOR
      lowered == [d EXCEPT !.next_free = IF first < @ THEN first ELSE @]
  IN  CASE s.misread -> Misread(d)
        [] ~ s.misread /\ s.active = 0 /\ s.obsolete > 0 ->
             COFFEE_ERASE(isolate_pages(lowered, first + COFFEE_PAGES_PER_SECTOR, s.isolate),
                          sector)
        [] OTHER -> d

\* GC_GREEDY; the other mode is not compiled in.
collect_garbage(d) ==
  LET Collect(e, sector, s) ==
        [d |-> CollectSector(e, sector, s), skip |-> s.skip, active |-> s.lastActive]
      Sweep(g, i) ==
        Collect(g.d, i - 1, get_sector_status(g.d.flash, i - 1, g.skip, g.active))
  IN  FoldLeft(Sweep, [d |-> d, skip |-> 0, active |-> FALSE],
               [i \in 1 .. COFFEE_SECTOR_COUNT |-> i]).d

-----------------------------------------------------------------------------
(* Finding files and space.                                                 *)

\* The first free slot, or the last one without references.
load_file(d, page) ==
  LET free == {i \in Slot : d.files[i].max_pages = 0}
      unreferenced == {i \in Slot : d.files[i].references = 0}
      i == IF free # {} THEN Min(free) ELSE Max(unreferenced)
  IN  IF unreferenced = {} THEN [slot |-> NULL, d |-> d]
      ELSE [slot |-> i,
            d |-> [d EXCEPT !.files[i] =
                     [page |-> page, max_pages |-> d.flash[page].max_pages,
                      references |-> @.references,
                      modified |-> "modified" \in d.flash[page].flags]]]

\* The slot of the file: cached, or loaded when a scan of the flash finds it.
find_file(d, name) ==
  LET Matches(page) == IsFile(d.flash[page]) /\ d.flash[page].name = name
      cached == {i \in Slot : d.files[i].max_pages # 0 /\ Matches(d.files[i].page)}
      seen == Scan(d.flash, 0)
      hits == {p \in seen : Matches(p)}
  IN  CASE cached # {} -> [slot |-> Min(cached), d |-> d]
        [] cached = {} /\ hits # {} -> load_file(d, Min(hits))
        [] OTHER -> [slot |-> NULL,
                     d |-> IF DATA \in {d.flash[p] : p \in seen} THEN Misread(d) ELSE d]

\* Mutation: the first free page is taken, however few follow it.
FirstFree(contents, from, amount) ==
  LET free == {p \in Scan(contents, from) : HDR_FREE(contents[p])}
  IN  IF free = {} \/ Min(free) + amount >= COFFEE_PAGE_COUNT THEN INVALID_PAGE
      ELSE Min(free)

\* A row of free pages; the last page of the flash is never given out.  Of a
\* sector it is only read whether its next page is free.
FreeRow(contents, from, amount) ==
  LET walk[page \in Nat, start \in Int] ==
        LET next == next_file(contents, page)
            begin == IF start = INVALID_PAGE THEN page ELSE start
        IN  CASE page \notin Page -> INVALID_PAGE
              [] page \in Page /\ contents[page] = DATA -> MISREAD
              [] page \in Page /\ contents[page] # DATA /\ ~ HDR_FREE(contents[page]) ->
                   walk[next, INVALID_PAGE]
              [] OTHER -> CASE begin + amount >= COFFEE_PAGE_COUNT -> INVALID_PAGE
                            [] begin + amount < COFFEE_PAGE_COUNT /\ begin + amount <= next -> begin
                            [] OTHER -> walk[next, begin]
  IN  walk[from, INVALID_PAGE]

\* Mutation: the hint always moves behind the pages that are given out.
HintSkipsHoles(d, amount) ==
  LET page == FreeRow(d.flash, d.next_free, amount)
  IN  [page |-> page, d |-> IF page \in Page THEN [d EXCEPT !.next_free = page + amount] ELSE d]

find_contiguous_pages(d, amount) ==
  LET page == FreeRow(d.flash, d.next_free, amount)
  IN  [page |-> page,
       d |-> CASE page = MISREAD -> Misread(d)
               [] page = d.next_free -> [d EXCEPT !.next_free = page + amount]
               [] OTHER -> d]

\* A new extent, its slot (NULL without space or slot) and the data.  The
\* header is on the flash, also when there is no slot for it.
reserve(d, name, pages, flags) ==
  LET hdr == [name |-> name, max_pages |-> pages, log_page |-> 0,
              flags |-> {"allocated"} \cup flags]
      Loaded(l) == IF l.slot = NULL THEN [l EXCEPT !.d.slotless = TRUE] ELSE l
      Place(r) == Loaded(load_file(write_header(r.d, hdr, r.page), r.page))
      Second(r) == IF r.page \in Page THEN Place(r)
                   ELSE [slot |-> NULL, d |-> [r.d EXCEPT !.gc_wait = TRUE]]
      First(r) ==
        CASE r.page \in Page -> Place(r)
          [] r.page \notin Page /\ r.d.gc_wait -> [slot |-> NULL, d |-> r.d]
          [] OTHER -> Second(find_contiguous_pages(collect_garbage(r.d), pages))
  IN  First(find_contiguous_pages(d, pages))

\* The metadata of an extent that is gone, and its descriptors.
Forget(d, page, close_fds) ==
  LET gone == {i \in Slot : d.files[i].page = page}
  IN  [d EXCEPT !.files = [i \in Slot |-> IF i \in gone THEN FREE_SLOT ELSE @[i]],
                !.fds = [fd \in FD |-> IF close_fds /\ @[fd] \in gone
                                       THEN NULL ELSE @[fd]]]

\* remove_by_page of a single extent; fails when it is not active.
RemoveExtent(d, page, close_fds) ==
  IF HDR_ACTIVE(d.flash[page])
  THEN [ok |-> TRUE, d |-> [Forget(SetFlags(d, page, {"obsolete"}), page, close_fds)
                              EXCEPT !.gc_wait = FALSE]]
  ELSE [ok |-> FALSE, d |-> IF d.flash[page] = DATA THEN Misread(d) ELSE d]

\* Mutation: the log stays.
RemoveKeepsLog(d, page, close_fds) == RemoveExtent(d, page, close_fds)

\* remove_by_page with REMOVE_LOG: the log first, then the file.
remove_by_page(d, page, close_fds) ==
  LET hdr == d.flash[page]
      After(log) == IF log.ok THEN RemoveExtent(log.d, page, close_fds) ELSE log
  IN  IF HDR_ACTIVE(hdr) /\ "modified" \in hdr.flags
      THEN After(RemoveExtent(d, hdr.log_page, FALSE))
      ELSE RemoveExtent(d, page, close_fds)

-----------------------------------------------------------------------------
(* Descriptors, logs and extension.  An outcome has ok for the return value.*)

Ok(d) == [ok |-> TRUE, d |-> d]
Fail(d) == [ok |-> FALSE, d |-> d]
Stop(d, how) == Fail([d EXCEPT !.control = how])

\* Mutation: a reference too many is given back.
CloseCountsTwice(d, fd) ==
  IF d.fds[fd] = NULL THEN d
  ELSE [d EXCEPT !.files[d.fds[fd]].references = @ - 2, !.fds[fd] = NULL]

close(d, fd) ==
  IF d.fds[fd] = NULL THEN d
  ELSE [d EXCEPT !.files[d.fds[fd]].references = (@ - 1) % 256, !.fds[fd] = NULL]

\* cfs_open: the descriptor, NULL if there is none, no file or no space.
open(d, name, mayCreate) ==
  LET available == {fd \in FD : d.fds[fd] = NULL}
      found == find_file(d, name)
      made == reserve(found.d, name, DYN_PAGES, {})
      Opened(r) ==
        IF r.slot = NULL THEN [fd |-> NULL, d |-> r.d]
        ELSE [fd |-> Min(available),
              d |-> [r.d EXCEPT !.fds[Min(available)] = r.slot,
                                !.files[r.slot].references = (@ + 1) % 256]]
  IN  CASE available = {} -> [fd |-> NULL, d |-> d]
        [] available # {} /\ found.slot = NULL /\ mayCreate -> Opened(made)
        [] OTHER -> Opened(found)

\* Every look into the table of a log reads over a pointer (COFFEE_READ into
\* &indices): what follows is undefined, unless the pointer survives.
\* Every buffer is allocated and never freed: the call may hang.
DO_MALLOC(d) == {Stop(d, "hang")}
LookIntoLog(d) == {Stop(d, "undefined")}

\* Mutation: the descriptors keep the old extent.
MergeKeepsFds(d, file_page, extend) ==
  LET hdr == d.flash[file_page]
      opened == open(d, hdr.name, FALSE)
      new == reserve(opened.d, hdr.name, hdr.max_pages * 2 ^ extend, {})
  IN  IF opened.fd = NULL \/ new.slot = NULL THEN {Fail(d)}
      ELSE {Ok(close(remove_by_page(new.d, file_page, FALSE).d, opened.fd))}

\* Mutation: the old extent is removed before there is a new one.
MergeRemovesFirst(d, file_page, extend) ==
  LET hdr == d.flash[file_page]
      new == reserve(remove_by_page(d, file_page, TRUE).d, hdr.name,
                     hdr.max_pages * 2 ^ extend, {})
  IN  {Fail(new.d)}

\* The descriptors of the extent at file_page move to the slot of the new one.
Moved(d, file_page, slot) ==
  LET users == {fd \in FD : d.fds[fd] # NULL /\ d.files[d.fds[fd]].page = file_page}
  IN  [d EXCEPT !.fds = [fd \in FD |-> IF fd \in users THEN slot ELSE @[fd]],
                !.files[slot].references = (@ + Cardinality(users)) % 256]

\* The file is copied to the extent new; its descriptor fd is closed again.
MergeInto(new, file_page, fd) ==
  LET Finish(old) ==
        IF old.ok THEN Ok(close([old.d EXCEPT !.files[new.slot].modified = FALSE], fd))
        ELSE Fail(close(RemoveExtent(old.d, old.d.files[new.slot].page, FALSE).d, fd))
  IN  IF new.slot = NULL THEN {Fail(close(new.d, fd))}
      ELSE DO_MALLOC(new.d)
           \cup (IF "modified" \in new.d.flash[file_page].flags THEN LookIntoLog(new.d)
                 ELSE {})
           \cup {Finish(remove_by_page(Moved(new.d, file_page, new.slot), file_page, FALSE))}

\* merge_log: the file is copied to a new extent, twice as large if extend = 1.
merge_log(d, file_page, extend) ==
  LET hdr == d.flash[file_page]
      opened == open(d, hdr.name, FALSE)
  IN  IF opened.fd = NULL THEN {Fail(opened.d)}
      ELSE MergeInto(reserve(opened.d, hdr.name, hdr.max_pages * 2 ^ extend, {}),
                     file_page, opened.fd)

\* create_log for the file in a slot
create_log(d, slot) ==
  LET page == d.files[slot].page
      Linked(log) ==
        LET hdr == [d.flash[page] EXCEPT !.flags = @ \cup {"modified"},
                                         !.log_page = log.d.files[log.slot].page]
        IN  IF log.slot = NULL THEN Fail(log.d)
            ELSE Ok([Program(log.d, [log.d.flash EXCEPT ![page] = hdr])
                       EXCEPT !.files[slot].modified = TRUE])
  IN  Linked(reserve(d, d.flash[page].name, LOG_PAGES, {"log"}))

\* write_log_page for a file without log, and the record it then writes
FirstRecord(d, slot) ==
  LET Record(log) == {log} \cup (IF log.ok THEN DO_MALLOC(log.d) ELSE {})
  IN  Record(create_log(d, slot))

\* The log part of cfs_write: a record, after a merge if the log is full.
write_log(d, fd) ==
  LET slot == d.fds[fd]
      AfterMerge(r) == IF r.ok THEN FirstRecord(r.d, r.d.fds[fd]) ELSE {r}
  IN  IF ~ d.files[slot].modified THEN FirstRecord(d, slot)
      ELSE {Ok(d)} \cup DO_MALLOC(d) \cup LookIntoLog(d)
           \cup UNION {AfterMerge(r) : r \in merge_log(d, d.files[slot].page, 0)}

-----------------------------------------------------------------------------
(* The calls.                                                               *)

\* The rest of an obsolete extent is erased, but not its header: a scan still
\* jumps over it as if it were whole.
Stranded(contents) ==
  \E p \in Page :
    /\ "obsolete" \in contents[p].flags
    /\ \E q \in p + 1 .. p + contents[p].max_pages - 1 : contents[q] = ERASED

\* Power up with these contents of the flash: RAM is cleared.
PowerUp(contents, cut) ==
  /\ flash' = contents
  /\ next_free' = 0 /\ gc_wait' = FALSE
  /\ coffee_files' = [i \in Slot |-> FREE_SLOT]
  /\ coffee_fd_set' = [fd \in FD |-> NULL]
  /\ control' = "ready"
  /\ torn' = cut

\* End of a call: the data is d, or the device restarts between two writes.
Return(d) ==
  /\ stranded' = (stranded \/ \E contents \in d.images : Stranded(contents))
  /\ \/ /\ d.control # "misread"
        /\ flash' = d.flash /\ next_free' = d.next_free /\ gc_wait' = d.gc_wait
        /\ coffee_files' = d.files /\ coffee_fd_set' = d.fds
        /\ control' = d.control
        /\ slotless' = d.slotless
        /\ UNCHANGED torn
     \/ /\ d.control = "misread"
        /\ control' = "misread"
        /\ UNCHANGED <<flash, next_free, gc_wait, coffee_files, coffee_fd_set, torn,
                       slotless>>
     \/ /\ CrashInside
        /\ \E contents \in d.images \ {d.flash} : PowerUp(contents, TRUE)
        /\ slotless' = d.slotless

Init ==
  /\ flash = [p \in Page |-> ERASED]
  /\ next_free = 0 /\ gc_wait = FALSE
  /\ coffee_files = [i \in Slot |-> FREE_SLOT]
  /\ coffee_fd_set = [fd \in FD |-> NULL]
  /\ control = "ready"
  /\ torn = FALSE /\ stranded = FALSE /\ slotless = FALSE

cfs_open(name) ==
  /\ control = "ready"
  /\ Return(open(Data, name, TRUE).d)

cfs_close(fd) ==
  /\ control = "ready"
  /\ coffee_fd_set[fd] # NULL
  /\ Return(close(Data, fd))

cfs_remove(name) ==
  /\ control = "ready"
  /\ LET found == find_file(Data, name)
     IN  IF found.slot = NULL THEN Return(found.d)
         ELSE Return(remove_by_page(found.d, found.d.files[found.slot].page, TRUE).d)

\* A file without log is read from its extent.
cfs_read(fd) ==
  /\ control = "ready"
  /\ coffee_fd_set[fd] # NULL
  /\ coffee_files[coffee_fd_set[fd]].modified
  /\ \E r \in DO_MALLOC(Data) \cup LookIntoLog(Data) : Return(r.d)

\* A write in the middle of the file, or to a file that has a log.  Behind
\* the end of a file without log it goes to the extent, which is DATA.
cfs_write(fd) ==
  /\ control = "ready"
  /\ coffee_fd_set[fd] # NULL
  /\ \E r \in write_log(Data, fd) : Return(r.d)

\* A write that does not fit: the extent is doubled first.
cfs_write_extend(fd) ==
  LET extended == merge_log(Data, coffee_files[coffee_fd_set[fd]].page, 1)
  IN  /\ control = "ready"
      /\ coffee_fd_set[fd] # NULL
      /\ \E r \in extended :
           \/ Return(r.d)
           \/ r.ok /\ \E w \in write_log(r.d, fd) : Return(w.d)

\* cfs_coffee_format: all sectors are erased.  The front-end formats at its
\* initialisation only, in builds that format at every start: a format that is
\* cut short is done again.
cfs_format ==
  /\ control = "ready"
  /\ PowerUp([p \in Page |-> ERASED], FALSE)
  /\ stranded' = FALSE /\ slotless' = FALSE

\* The device restarts, between two calls or out of a hanging one.
Reboot ==
  /\ control \in {"ready", "hang"}
  /\ PowerUp(flash, torn \/ control = "hang")
  /\ UNCHANGED <<stranded, slotless>>

\* After undefined behaviour nothing is said about the device.
stopped ==
  /\ control \in {"undefined", "misread"}
  /\ UNCHANGED vars

Next ==
  \/ \E name \in Name : cfs_open(name) \/ cfs_remove(name)
  \/ \E fd \in FD : cfs_close(fd) \/ cfs_read(fd) \/ cfs_write(fd) \/ cfs_write_extend(fd)
  \/ cfs_format \/ Reboot \/ stopped

Spec == Init /\ [][Next]_vars

-----------------------------------------------------------------------------
(* Properties                                                               *)

Actives == {p \in Page : HDR_ACTIVE(flash[p])}
Extent(p) == p .. p + flash[p].max_pages - 1

\* No collection has stranded an extent and no call was cut short so far.
Whole == ~ stranded /\ ~ torn

\* The quick skip from header to header misses no file and no log, whatever
\* was removed, collected or isolated (next_file), and no call takes data for a
\* header.  Not after a call that was cut short: a restart between the erasures
\* of two sectors leaves the rest of an extent that spans them without header.
ScanFindsAll ==
  Whole => Actives \subseteq Scan(flash, 0) /\ control # "misread"

\* The extents of files and logs lie in the flash and share no page: free
\* pages are found by reading one header per sector (find_contiguous_pages).
ExtentsDisjoint ==
  Whole => \A p \in Actives :
    /\ Extent(p) \subseteq Page
    /\ \A q \in Actives \ {p} : Extent(p) \cap Extent(q) = {}

\* A slot describes an active extent, counts the descriptors that are open on
\* it, and is the only one of that extent.
SlotAgrees(i) ==
  LET s == coffee_files[i]
  IN  /\ HDR_ACTIVE(flash[s.page]) /\ flash[s.page].max_pages = s.max_pages
      /\ s.modified = ("modified" \in flash[s.page].flags)
      /\ s.references = Cardinality({fd \in FD : coffee_fd_set[fd] = i})
      /\ \A j \in Slot \ {i} : coffee_files[j].page # s.page

\* The cache agrees with the flash, and a descriptor refers to a cached file,
\* never to a free slot or a log.
CacheAgrees ==
  Whole =>
    /\ \A i \in Slot :
         control = "ready" /\ coffee_files[i].max_pages # 0 => SlotAgrees(i)
    /\ \A fd \in FD :
         LET s == coffee_files[coffee_fd_set[fd]]
         IN  coffee_fd_set[fd] = NULL \/ (s.max_pages # 0 /\ IsFile(flash[s.page]))

FilesOnFlash == {p \in Page : IsFile(flash[p])}
Modified == {p \in FilesOnFlash : "modified" \in flash[p].flags}

\* A modified file has a log of its own.  There is one file of a name, although
\* every reservation allows duplicates, and no log without a file, up to the
\* first reservation that lacks a slot: the header it has written stays, as a
\* second file of the name or a log that nothing refers to (reserve).
OneFileOneLog ==
  control = "ready" /\ Whole =>
    /\ \A p \in Modified :
         LET log == flash[flash[p].log_page]
         IN  /\ HDR_ACTIVE(log) /\ "log" \in log.flags /\ log.name = flash[p].name
             /\ \A q \in Modified \ {p} : flash[q].log_page # flash[p].log_page
    /\ ~ slotless =>
         /\ \A p, q \in FilesOnFlash : flash[p].name = flash[q].name => p = q
         /\ \A l \in Actives :
              "log" \in flash[l].flags => \E p \in Modified : flash[p].log_page = l

\* The hints of the allocation hide nothing: while collections are put off
\* (gc_wait) one would erase nothing, and before next_free every page belongs
\* to an extent (find_contiguous_pages, collect_garbage).
HintsSound ==
  Whole =>
    /\ gc_wait => collect_garbage(Data).flash = flash
    /\ \A p \in Scan(flash, 0) : p < next_free => ~ HDR_FREE(flash[p])

\* As the comment on next_file has it: the file allocation rules let the scan
\* jump from header to header without missing an extent.
QuickSkipAsDocumented == Actives \subseteq Scan(flash, 0)

-----------------------------------------------------------------------------
\* The back-end as the front-end sees it.
Cfs == INSTANCE CfsBackend WITH
  files <- {flash[p].name : p \in FilesOnFlash},
  fds <- [fd \in FD |-> IF coffee_fd_set[fd] = NULL THEN NULL
                        ELSE flash[coffee_files[coffee_fd_set[fd]].page].name]

\* Every call does what the front-end expects of a back-end, and so does a
\* restart in the middle of one: a file is lost only when it is removed, or
\* with all others, and a descriptor stays on its file while extents are
\* merged, doubled and collected.  Files are compared by name; the property
\* ends after a reservation that lacked a slot, which may have doubled one.
ImplementsCfs ==
  [][Whole /\ ~ slotless /\ ~ stranded' =>
       \/ Cfs!OpenOrClose \/ Cfs!Restart
       \/ \E name \in Name : Cfs!cfs_open_cut(name)
       \/ \E name \in Name :
            /\ Cfs!cfs_remove(name) \/ Cfs!cfs_remove_cut(name)
            /\ cfs_remove(name)
       \/ cfs_format /\ Cfs!cfs_format]_vars

=============================================================================
