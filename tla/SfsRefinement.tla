---------------------------- MODULE SfsRefinement ----------------------------
(***************************************************************************)
(* Sfs implements FileMonitor: every call of the front-end is one step of  *)
(* the access control matrix, or refused.                                  *)
(***************************************************************************)
EXTENDS SfsProofs

-----------------------------------------------------------------------------
(* The matrix and the openers, as functions of the data of a call.          *)

\* The permissions of sm on name.
Entries(d, name, sm) ==
  {p \in Perm : d.perm[p].sm_id = sm /\ d.file[d.perm[p].file].name = name}
Right(d, name, sm) == UNION {d.perm[p].flags : p \in Entries(d, name, sm)}
MatrixOf(d) == [name \in Name |-> [sm \in SM |-> Right(d, name, sm)]]

OpenerOf(d, fd) ==
  IF d.fds[fd] = NULL THEN NOBODY
  ELSE <<d.perm[d.fds[fd]].sm_id, d.file[d.perm[d.fds[fd]].file].name>>
OpenersOf(d) == [fd \in FD |-> OpenerOf(d, fd)]

\* They are the ones of the variables.
LEMMA MatrixOfData == Matrix = MatrixOf(Data) /\ Openers = OpenersOf(Data)
<1>1. Matrix = MatrixOf(Data)
  BY DEF Matrix, Rights, MatrixOf, Right, Entries, Data
<1>2. Openers = OpenersOf(Data)
  BY DEF Openers, Opener, OpenersOf, OpenerOf, Data
<1>. QED BY <1>1, <1>2

\* What a call starts from: the initialisation changes neither of them.
LEMMA Before ==
  ASSUME SfsInv
  PROVE  Matrix = MatrixOf(DO_INIT) /\ Openers = OpenersOf(DO_INIT)
<1>1. CASE INIT_DONE
  BY <1>1, MatrixOfData DEF DO_INIT
<1>2. CASE ~ INIT_DONE
  <2>1. Data.fds = [fd \in FD |-> NULL]
    BY <1>2, InvOfVariables DEF Data
  <2>2. DO_INIT.perm = Data.perm /\ DO_INIT.file = Data.file /\ DO_INIT.fds = Data.fds
    BY <1>2, <2>1 DEF DO_INIT, InitialData, Data
  <2>3. MatrixOf(DO_INIT) = MatrixOf(Data)
    BY <2>2 DEF MatrixOf, Right, Entries
  <2>4. OpenersOf(DO_INIT) = OpenersOf(Data)
    BY <2>2 DEF OpenersOf, OpenerOf
  <2>. QED BY <2>3, <2>4, MatrixOfData
<1>. QED BY <1>1, <1>2

\* What a call leaves.
LEMMA After ==
  ASSUME NEW e, Good(e), NEW access, Return(e, access)
  PROVE  Matrix' = MatrixOf(e) /\ Openers' = OpenersOf(e) /\ granted' = access
<1>1. Data' = e /\ granted' = access
  BY Returned DEF Return
<1>2. Matrix' = MatrixOf(Data') /\ Openers' = OpenersOf(Data')
  <2>1. Matrix' = MatrixOf(Data')
    BY DEF Matrix, Rights, MatrixOf, Right, Entries, Data
  <2>2. Openers' = OpenersOf(Data')
    BY DEF Openers, Opener, OpenersOf, OpenerOf, Data
  <2>. QED BY <2>1, <2>2
<1>. QED BY <1>1, <1>2

-----------------------------------------------------------------------------
(* Reading and changing the matrix.                                         *)

\* The entries of a module on a name belong to the file of that name.
LEMMA EntriesOwned ==
  ASSUME NEW d, Good(d), NEW name \in Name, NEW sm \in SM
  PROVE  /\ \A p \in Entries(d, name, sm) :
              /\ p \in Perm /\ d.perm[p].file \in ToSet(d.files)
              /\ d.perm[p].file \in File /\ d.perm[p].file # NULL
              /\ d.file[d.perm[p].file].name = name /\ d.perm[p].sm_id = sm
         /\ \A p, q \in Entries(d, name, sm) : p = q
<1>1. NULL \notin SM /\ ToSet(d.files) \subseteq File /\ NULL \notin File
  BY NullAssumption, GoodTypes DEF Good
<1>2. ASSUME NEW p \in Entries(d, name, sm)
      PROVE  /\ p \in Perm /\ d.perm[p].file \in ToSet(d.files)
             /\ d.perm[p].file \in File /\ d.perm[p].file # NULL
             /\ d.file[d.perm[p].file].name = name /\ d.perm[p].sm_id = sm
  <2>1. p \in Perm /\ d.perm[p].sm_id = sm /\ d.file[d.perm[p].file].name = name
    BY DEF Entries
  <2>2. d.perm[p].file # NULL
    <3>1. d.perm[p].file = NULL => d.perm[p] = NoPerm
      BY <2>1 DEF Good, PermsInv
    <3>. QED BY <1>1, <2>1, <3>1 DEF NoPerm
  <2>. QED BY <1>1, <2>1, <2>2 DEF Good, PermsInv
<1>3. ASSUME NEW p \in Entries(d, name, sm), NEW q \in Entries(d, name, sm)
      PROVE  p = q
  <2>1. d.perm[p].file = d.perm[q].file
    BY <1>2 DEF Good, FilesInv
  <2>. QED BY <1>2, <2>1 DEF Good, AclInv
<1>. QED BY <1>2, <1>3

\* The right of a module with an entry.
LEMMA RightFound ==
  ASSUME NEW d, Good(d), NEW sm \in SM, NEW p \in Perm, NEW f \in File,
         d.perm[p].file = f, d.perm[p].sm_id = sm, NEW name \in Name, d.file[f].name = name
  PROVE  Entries(d, name, sm) = {p} /\ Right(d, name, sm) = d.perm[p].flags
<1>1. p \in Entries(d, name, sm)
  BY DEF Entries
<1>2. Entries(d, name, sm) = {p}
  BY <1>1, EntriesOwned
<1>3. {d.perm[q].flags : q \in {p}} = {d.perm[p].flags}
  OBVIOUS
<1>. QED BY <1>2, <1>3 DEF Right

\* ... and without one.
LEMMA NoRight ==
  ASSUME NEW d, NEW name, NEW sm, Entries(d, name, sm) = {}
  PROVE  Right(d, name, sm) = {}
BY DEF Right

\* A right is the same when the entries and their permissions are.
LEMMA SameRight ==
  ASSUME NEW d, NEW e, NEW name, NEW sm, Entries(e, name, sm) = Entries(d, name, sm),
         \A p \in Entries(d, name, sm) : e.perm[p].flags = d.perm[p].flags
  PROVE  Right(e, name, sm) = Right(d, name, sm)
BY DEF Right

\* One right of the matrix is replaced.
WithRight(matrix, name, id, r) == [matrix EXCEPT ![name][id] = r]

\* ... when all others are the same.
LEMMA OneRight ==
  ASSUME NEW d, NEW e, NEW name \in Name, NEW id \in SM, NEW r, Right(e, name, id) = r,
         \A n \in Name, sm \in SM :
           n # name \/ sm # id => Right(e, n, sm) = Right(d, n, sm)
  PROVE  MatrixOf(e) = WithRight(MatrixOf(d), name, id, r)
BY DEF MatrixOf, WithRight

\* No right is.
LEMMA SameMatrix ==
  ASSUME NEW d, NEW e,
         \A n \in Name, sm \in SM : Right(e, n, sm) = Right(d, n, sm)
  PROVE  MatrixOf(e) = MatrixOf(d)
BY DEF MatrixOf

\* A name without a file has no rights, one with a file has some.
LEMMA ExistsNot ==
  ASSUME NEW d, Good(d), NEW name \in Name, \A f \in ToSet(d.files) : d.file[f].name # name
  PROVE  \A sm \in SM : Entries(d, name, sm) = {} /\ Right(d, name, sm) = {}
<1>1. \A sm \in SM : Entries(d, name, sm) = {}
  BY EntriesOwned
<1>. QED BY <1>1, NoRight

\* The opener of a cached descriptor.
LEMMA OpenerFound ==
  ASSUME NEW d, Good(d), NEW fd \in FD
  PROVE  \/ OpenerOf(d, fd) = NOBODY /\ d.fds[fd] = NULL
         \/ /\ OpenerOf(d, fd) # NOBODY /\ d.fds[fd] # NULL
            /\ OpenerOf(d, fd) = <<d.perm[d.fds[fd]].sm_id, d.file[d.perm[d.fds[fd]].file].name>>
BY DEF OpenerOf, NOBODY

-----------------------------------------------------------------------------
(* What the steps of a call do to the matrix and the openers.               *)

\* The permission of a module belongs to a file.
LEMMA OwnedPerm ==
  ASSUME NEW d, Good(d), NEW p \in Perm, d.perm[p].sm_id \in SM
  PROVE  d.perm[p].file \in ToSet(d.files) /\ d.perm[p].file \in File
<1>1. NULL \notin SM /\ ToSet(d.files) \subseteq File
  BY NullAssumption, GoodTypes DEF Good
<1>2. d.perm[p].file # NULL
  <2>1. d.perm[p].file = NULL => d.perm[p] = NoPerm
    BY DEF Good, PermsInv
  <2>. QED BY <1>1, <2>1 DEF NoPerm
<1>. QED BY <1>1, <1>2 DEF Good, PermsInv

\* The matrix does not depend on the descriptors and counters.
LEMMA MatrixKept ==
  ASSUME NEW d, Good(d), NEW e, e.perm = d.perm,
         \A g \in File : e.file[g].name = d.file[g].name
  PROVE  MatrixOf(e) = MatrixOf(d)
<1>. SUFFICES ASSUME NEW n \in Name, NEW sm \in SM
              PROVE  Right(e, n, sm) = Right(d, n, sm)
  BY SameMatrix
<1>1. \A p \in Perm : d.perm[p].sm_id = sm => d.perm[p].file \in File
  BY OwnedPerm
<1>2. Entries(e, n, sm) = Entries(d, n, sm)
  BY <1>1 DEF Entries
<1>. QED BY <1>2, SameRight

\* The same front-end data.
LEMMA KeptFrontEnd ==
  ASSUME NEW d, Good(d), NEW e, SameFrontEnd(d, e)
  PROVE  MatrixOf(e) = MatrixOf(d) /\ OpenersOf(e) = OpenersOf(d)
<1>1. MatrixOf(e) = MatrixOf(d)
  BY DEF SameFrontEnd, MatrixOf, Right, Entries
<1>2. OpenersOf(e) = OpenersOf(d)
  BY DEF SameFrontEnd, OpenersOf, OpenerOf
<1>. QED BY <1>1, <1>2

\* A descriptor is opened or closed.
WithOpener(openers, fd, opener) == [openers EXCEPT ![fd] = opener]

\* A connection is made.
LEMMA ConnectionMade ==
  ASSUME NEW d, Good(d), NEW e, NEW fd \in CFS_FD, fd \in FD, d.cfs[fd] = NULL,
         NEW p \in Perm, NEW f \in File, d.perm[p].file = f, Connected(d, e, fd, p, f)
  PROVE  /\ MatrixOf(e) = MatrixOf(d) /\ OpenersOf(d)[fd] = NOBODY
         /\ OpenersOf(e) = WithOpener(OpenersOf(d), fd, <<d.perm[p].sm_id, d.file[f].name>>)
<1>1. MatrixOf(e) = MatrixOf(d)
  BY MatrixKept DEF Connected, SameFiles
<1>2. d.fds[fd] = NULL
  <2>. SUFFICES ASSUME d.fds[fd] # NULL PROVE FALSE
    OBVIOUS
  <2>1. d.file[d.perm[d.fds[fd]].file].name \in Name
    BY CachedFile
  <2>. QED BY <2>1, NullAssumption DEF Good, FdsInv
<1>3. NULL \notin Perm
  BY GoodTypes DEF Good
<1>4. OpenerOf(e, fd) = <<d.perm[p].sm_id, d.file[f].name>>
  BY <1>3 DEF OpenerOf, Connected, SameFiles
<1>5. ASSUME NEW m \in FD, m # fd
      PROVE  OpenerOf(e, m) = OpenerOf(d, m)
  <2>1. e.fds[m] = d.fds[m] /\ e.perm = d.perm
    BY <1>5 DEF Connected
  <2>2. CASE d.fds[m] = NULL
    BY <2>1, <2>2 DEF OpenerOf
  <2>3. CASE d.fds[m] # NULL
    <3>1. d.perm[d.fds[m]].file \in File
      BY <2>3, CachedFile
    <3>2. e.file[d.perm[d.fds[m]].file].name = d.file[d.perm[d.fds[m]].file].name
      BY <3>1 DEF Connected, SameFiles
    <3>. QED BY <2>1, <2>3, <3>2 DEF OpenerOf
  <2>. QED BY <2>2, <2>3
<1>. QED BY <1>1, <1>2, <1>4, <1>5 DEF OpenersOf, OpenerOf, WithOpener

\* Connections are closed.
LEMMA ConnectionsClosed ==
  ASSUME NEW d, Good(d), NEW e, NEW f \in File, NEW fds \in SUBSET Connections(d, f),
         Closed(d, e, f, fds)
  PROVE  /\ MatrixOf(e) = MatrixOf(d)
         /\ OpenersOf(e)
              = [fd \in FD |-> IF fd \in fds THEN NOBODY ELSE OpenersOf(d)[fd]]
<1>1. MatrixOf(e) = MatrixOf(d)
  BY MatrixKept DEF Closed, SameFiles
<1>2. ASSUME NEW m \in FD
      PROVE  OpenerOf(e, m) = IF m \in fds THEN NOBODY ELSE OpenerOf(d, m)
  <2>1. e.fds[m] = (IF m \in fds THEN NULL ELSE d.fds[m]) /\ e.perm = d.perm
    BY DEF Closed
  <2>2. CASE m \in fds
    BY <2>1, <2>2 DEF OpenerOf
  <2>3. CASE m \notin fds /\ d.fds[m] = NULL
    BY <2>1, <2>3 DEF OpenerOf
  <2>4. CASE m \notin fds /\ d.fds[m] # NULL
    <3>1. d.perm[d.fds[m]].file \in File
      BY <2>4, CachedFile
    <3>2. e.file[d.perm[d.fds[m]].file].name = d.file[d.perm[d.fds[m]].file].name
      BY <3>1 DEF Closed, SameFiles
    <3>. QED BY <2>1, <2>4, <3>2 DEF OpenerOf
  <2>. QED BY <2>2, <2>3, <2>4
<1>. QED BY <1>1, <1>2 DEF OpenersOf

\* A cached permission is not one that is freed or new.
LEMMA OpenersKept ==
  ASSUME NEW d, Good(d), NEW e, e.fds = d.fds,
         \A fd \in FD : d.fds[fd] # NULL =>
           /\ e.perm[d.fds[fd]].sm_id = d.perm[d.fds[fd]].sm_id
           /\ e.perm[d.fds[fd]].file = d.perm[d.fds[fd]].file
           /\ e.file[d.perm[d.fds[fd]].file].name = d.file[d.perm[d.fds[fd]].file].name
  PROVE  OpenersOf(e) = OpenersOf(d)
<1>1. \A fd \in FD : OpenerOf(e, fd) = OpenerOf(d, fd)
  BY DEF OpenerOf
<1>. QED BY <1>1 DEF OpenersOf

\* An entry is revoked.
LEMMA EntryRevoked ==
  ASSUME NEW d, Good(d), NEW e, NEW f \in File, NEW name \in Name, d.file[f].name = name,
         NEW id \in SM, NEW k, NEW p \in Perm, d.perm[p].file = f, d.perm[p].sm_id = id,
         \A fd \in FD : d.fds[fd] # p, Revoked(d, e, f, k, p)
  PROVE  /\ MatrixOf(e) = WithRight(MatrixOf(d), name, id, {})
         /\ OpenersOf(e) = OpenersOf(d)
<1>1. Entries(d, name, id) = {p}
  BY RightFound
<1>2. /\ e.perm[p].sm_id = NULL /\ \A q \in Perm \ {p} : e.perm[q] = d.perm[q]
      /\ \A g \in File : e.file[g].name = d.file[g].name /\ NULL \notin SM
  BY NullAssumption DEF Revoked, NoPerm
<1>3. \A n \in Name, sm \in SM : Entries(e, n, sm) = Entries(d, n, sm) \ {p}
  <2>. SUFFICES ASSUME NEW n \in Name, NEW sm \in SM
                PROVE  Entries(e, n, sm) = Entries(d, n, sm) \ {p}
    OBVIOUS
  <2>1. \A q \in Perm : d.perm[q].sm_id = sm => d.perm[q].file \in File
    BY OwnedPerm
  <2>. QED BY <1>2, <2>1 DEF Entries
<1>4. Right(e, name, id) = {}
  BY <1>1, <1>3, NoRight
<1>5. ASSUME NEW n \in Name, NEW sm \in SM, n # name \/ sm # id
      PROVE  Right(e, n, sm) = Right(d, n, sm)
  <2>1. p \notin Entries(d, n, sm)
    BY <1>5 DEF Entries
  <2>2. Entries(e, n, sm) = Entries(d, n, sm)
    BY <1>3, <2>1
  <2>3. \A q \in Entries(d, n, sm) : e.perm[q].flags = d.perm[q].flags
    BY <1>2, <2>1 DEF Entries
  <2>. QED BY <2>2, <2>3, SameRight
<1>6. MatrixOf(e) = WithRight(MatrixOf(d), name, id, {})
  BY <1>4, <1>5, OneRight
<1>7. OpenersOf(e) = OpenersOf(d)
  <2>1. \A fd \in FD : d.fds[fd] # NULL =>
          d.fds[fd] \in Perm \ {p} /\ d.perm[d.fds[fd]].file \in File
    BY CachedFile
  <2>. QED BY <1>2, <2>1, OpenersKept DEF Revoked
<1>. QED BY <1>6, <1>7

\* An entry is overwritten.
LEMMA EntryAssigned ==
  ASSUME NEW d, Good(d), NEW e, NEW f \in File, NEW name \in Name, d.file[f].name = name,
         NEW id \in SM, NEW p \in Perm, d.perm[p].file = f, d.perm[p].sm_id = id,
         NEW flags, Assigned(d, e, p, flags)
  PROVE  /\ MatrixOf(e) = WithRight(MatrixOf(d), name, id, flags)
         /\ OpenersOf(e) = OpenersOf(d)
<1>1. Entries(d, name, id) = {p}
  BY RightFound
<1>2. \A n \in Name, sm \in SM : Entries(e, n, sm) = Entries(d, n, sm)
  BY DEF Entries, Assigned
<1>3. Right(e, name, id) = flags
  <2>1. Entries(e, name, id) = {p} /\ e.perm[p].flags = flags
    BY <1>1, <1>2 DEF Assigned
  <2>2. {e.perm[q].flags : q \in {p}} = {flags}
    BY <2>1
  <2>3. Right(e, name, id) = UNION {flags}
    BY <2>1, <2>2 DEF Right
  <2>. QED BY <2>3
<1>4. ASSUME NEW n \in Name, NEW sm \in SM, n # name \/ sm # id
      PROVE  Right(e, n, sm) = Right(d, n, sm)
  <2>1. p \notin Entries(d, n, sm)
    BY <1>4 DEF Entries
  <2>2. \A q \in Entries(d, n, sm) : e.perm[q].flags = d.perm[q].flags
    BY <2>1 DEF Entries, Assigned
  <2>. QED BY <1>2, <2>2, SameRight
<1>5. MatrixOf(e) = WithRight(MatrixOf(d), name, id, flags)
  BY <1>3, <1>4, OneRight
<1>6. OpenersOf(e) = OpenersOf(d)
  <2>1. \A fd \in FD : d.fds[fd] # NULL => d.fds[fd] \in Perm
    BY CachedFile
  <2>. QED BY <2>1, OpenersKept DEF Assigned
<1>. QED BY <1>5, <1>6

\* A module without an entry gets one, p.
LEMMA EntryMade ==
  ASSUME NEW d, Good(d), NEW e, NEW f \in File, NEW name \in Name, NEW id \in SM,
         Entries(d, name, id) = {}, NEW p \in Perm, d.perm[p].file = NULL, NEW flags,
         e.perm[p] = [sm_id |-> id, flags |-> flags, file |-> f],
         \A q \in Perm \ {p} : e.perm[q] = d.perm[q],
         e.file[f].name = name,
         \A g \in ToSet(d.files) : e.file[g].name = d.file[g].name
  PROVE  MatrixOf(e) = WithRight(MatrixOf(d), name, id, flags)
<1>1. e.perm[p].sm_id = id /\ e.perm[p].flags = flags /\ e.perm[p].file = f
  OBVIOUS
<1>2. ASSUME NEW n \in Name, NEW sm \in SM
      PROVE  /\ p \notin Entries(d, n, sm)
             /\ n = name /\ sm = id => Entries(e, n, sm) = Entries(d, n, sm) \cup {p}
             /\ n # name \/ sm # id => Entries(e, n, sm) = Entries(d, n, sm)
  <2>1. \A q \in Perm : d.perm[q].sm_id = sm =>
                          d.perm[q].file \in ToSet(d.files) /\ d.perm[q].file # NULL
    <3>1. \A q \in Perm : d.perm[q].sm_id = sm =>
                            d.perm[q].file \in ToSet(d.files) /\ d.perm[q].file \in File
      BY OwnedPerm
    <3>2. NULL \notin File
      BY GoodTypes DEF Good
    <3>. QED BY <3>1, <3>2
  <2>2. d.perm[p].sm_id # sm
    BY <2>1
  <2>3. \A q \in Perm : q # p => (q \in Entries(e, n, sm) <=> q \in Entries(d, n, sm))
    BY <2>1 DEF Entries
  <2>4. p \in Entries(e, n, sm) <=> n = name /\ sm = id
    BY <1>1 DEF Entries
  <2>5. Entries(e, n, sm) \subseteq Perm /\ Entries(d, n, sm) \subseteq Perm
    BY DEF Entries
  <2>. QED BY <2>2, <2>3, <2>4, <2>5 DEF Entries
<1>3. Right(e, name, id) = flags
  <2>1. Entries(e, name, id) = {p}
    BY <1>2
  <2>2. {e.perm[q].flags : q \in {p}} = {flags}
    BY <1>1
  <2>3. Right(e, name, id) = UNION {flags}
    BY <2>1, <2>2 DEF Right
  <2>. QED BY <2>3
<1>4. ASSUME NEW n \in Name, NEW sm \in SM, n # name \/ sm # id
      PROVE  Right(e, n, sm) = Right(d, n, sm)
  <2>1. Entries(e, n, sm) = Entries(d, n, sm) /\ p \notin Entries(d, n, sm)
    BY <1>2, <1>4
  <2>2. \A q \in Entries(d, n, sm) : e.perm[q].flags = d.perm[q].flags
    BY <2>1 DEF Entries
  <2>. QED BY <2>1, <2>2, SameRight
<1>. QED BY <1>3, <1>4, OneRight

-----------------------------------------------------------------------------
(* Every call is a step of FileMonitor.                                     *)

\* A failing call.
LEMMA FailureRefused == SfsInv /\ FAILURE => Monitor!Refuse
<1>. SUFFICES ASSUME SfsInv, FAILURE PROVE Monitor!Refuse
  OBVIOUS
<1>1. PICK d : d = DO_INIT
  OBVIOUS
<1>2. Good(d) /\ Return(d, NOTHING)
  BY <1>1, InitGood DEF FAILURE
<1>3. Matrix = MatrixOf(d) /\ Openers = OpenersOf(d)
  BY <1>1, Before
<1>4. Matrix' = MatrixOf(d) /\ Openers' = OpenersOf(d) /\ granted' = NOTHING
  BY <1>2, After
<1>. QED BY <1>3, <1>4 DEF Monitor!Refuse, Monitor!NOTHING, NOTHING

\* A call that opens name for sm makes a connection, or none.
Connects(openers, sm, name, access) ==
  \/ \E fd \in FD :
       /\ openers[fd] = NOBODY
       /\ Openers' = WithOpener(openers, fd, <<sm, name>>)
       /\ granted' = access
  \/ Openers' = openers /\ granted' = NOTHING

\* open_back_end_file does so for the module of p.
LEMMA OpenConnects ==
  ASSUME NEW d, Good(d), NEW p \in Perm, NEW f \in File, d.perm[p].file = f,
         NEW name \in Name, d.file[f].name = name, NEW access,
         open_back_end_file(d, name, p, access)
  PROVE  Matrix' = MatrixOf(d) /\ Connects(OpenersOf(d), d.perm[p].sm_id, name, access)
<1>1. PICK r \in cfs_open(d, name) :
        IF r.fd \in FD
        THEN Return([r.d EXCEPT !.file[d.perm[p].file].open_count = @ + 1,
                                !.fds[r.fd] = p], access)
        ELSE Return(cfs_close(r.d, r.fd), NOTHING)
  BY DEF open_back_end_file
<1>2. PICK e, c, fd : e = NewConnection(r.d, r.fd, p, f) /\ c = cfs_close(r.d, r.fd) /\ fd = r.fd
  OBVIOUS
<1>3. /\ fd \in FD => Good(e) /\ Connected(d, e, fd, p, f) /\ fd \in CFS_FD /\ d.cfs[fd] = NULL
      /\ fd \notin FD => Good(c) /\ SameFrontEnd(d, c)
  BY <1>2, OpenGood
<1>4. CASE fd \in FD
  <2>1. Return(e, access)
    BY <1>1, <1>2, <1>4 DEF NewConnection
  <2>2. Matrix' = MatrixOf(e) /\ Openers' = OpenersOf(e) /\ granted' = access
    BY <1>3, <1>4, <2>1, After
  <2>3. /\ MatrixOf(e) = MatrixOf(d) /\ OpenersOf(d)[fd] = NOBODY
        /\ OpenersOf(e) = WithOpener(OpenersOf(d), fd, <<d.perm[p].sm_id, d.file[f].name>>)
    BY <1>3, <1>4, ConnectionMade
  <2>. QED BY <1>4, <2>2, <2>3 DEF Connects
<1>5. CASE fd \notin FD
  <2>1. Return(c, NOTHING)
    BY <1>1, <1>2, <1>5
  <2>2. Matrix' = MatrixOf(c) /\ Openers' = OpenersOf(c) /\ granted' = NOTHING
    BY <1>3, <1>5, <2>1, After
  <2>. QED BY <1>3, <1>5, <2>2, KeptFrontEnd DEF Connects
<1>. QED BY <1>4, <1>5

\* The first module to open a name becomes the creator.
LEMMA OpenNewCreates ==
  ASSUME SfsInv, NEW sm \in SM, NEW name \in Name, sfs_open_new(sm, name)
  PROVE  Monitor!Create(sm, name)
<1>1. PICK d, f, p : d = DO_INIT /\ f = Head(d.freeFiles) /\ p = Head(d.freePerms)
  OBVIOUS
<1>2. /\ Good(d) /\ LOOKUP_FILE(d, name) = NULL /\ d.freePerms # <<>> /\ d.freeFiles # <<>>
      /\ open_back_end_file(NewFile(d, f, p, sm, name), name, p, <<"create", sm, name>>)
  BY <1>1, InitGood DEF sfs_open_new, NewFile
<1>3. \A g \in ToSet(d.files) : d.file[g].name # name
  BY <1>2, LookupFile
<1>4. PICK e : e = NewFile(d, f, p, sm, name)
  OBVIOUS
<1>5. Good(e) /\ Created(d, e, f, p, sm, name) /\ f \in File /\ p \in Perm
  BY <1>1, <1>2, <1>3, <1>4, CreateGood
<1>6. /\ e.perm[p] = [sm_id |-> sm, flags |-> SFS_CREATOR, file |-> f]
      /\ e.perm[p].file = f /\ e.perm[p].sm_id = sm /\ e.file[f].name = name
  BY <1>5 DEF Created
<1>7. d.perm[p].file = NULL /\ f \notin ToSet(d.files)
  <2>1. d.freePerms \in Seq(Perm) /\ d.freeFiles \in Seq(File)
    BY <1>2, GoodTypes DEF Good
  <2>2. p \in ToSet(d.freePerms) /\ f \in ToSet(d.freeFiles)
    BY <1>1, <1>2, <2>1, ListElements
  <2>. QED BY <1>2, <1>5, <2>2 DEF Good, PermsInv, FilesInv
<1>8. MatrixOf(e) = WithRight(MatrixOf(d), name, sm, SFS_CREATOR)
  <2>1. Entries(d, name, sm) = {}
    BY <1>2, <1>3, ExistsNot
  <2>2. \A g \in ToSet(d.files) : e.file[g].name = d.file[g].name
    <3>1. ToSet(d.files) \subseteq File
      BY <1>2, GoodTypes DEF Good
    <3>. QED BY <1>5, <1>7, <3>1 DEF Created
  <2>3. \A q \in Perm \ {p} : e.perm[q] = d.perm[q]
    BY <1>5 DEF Created
  <2>. QED BY <1>2, <1>5, <1>6, <1>7, <2>1, <2>2, <2>3, EntryMade
<1>9. OpenersOf(e) = OpenersOf(d)
  <2>1. \A fd \in FD : d.fds[fd] # NULL =>
          /\ d.fds[fd] \in Perm \ {p} /\ d.perm[d.fds[fd]].file \in File \ {f}
    <3>1. NULL \notin File
      BY <1>2, GoodTypes DEF Good
    <3>. QED BY <1>2, <1>7, <3>1, CachedFile
  <2>2. \A fd \in FD : d.fds[fd] # NULL =>
          /\ e.perm[d.fds[fd]] = d.perm[d.fds[fd]]
          /\ e.file[d.perm[d.fds[fd]].file] = d.file[d.perm[d.fds[fd]].file]
    BY <1>5, <2>1 DEF Created
  <2>3. e.fds = d.fds
    BY <1>5 DEF Created
  <2>. QED BY <1>2, <2>2, <2>3, OpenersKept
<1>10. Matrix' = MatrixOf(e) /\ Connects(OpenersOf(e), sm, name, <<"create", sm, name>>)
  <2>1. open_back_end_file(e, name, p, <<"create", sm, name>>)
    BY <1>2, <1>4
  <2>2. PICK access : access = <<"create", sm, name>>
    OBVIOUS
  <2>3. open_back_end_file(e, name, p, access)
    BY <2>1, <2>2
  <2>. QED BY <1>5, <1>6, <2>2, <2>3, OpenConnects
<1>11. Matrix = MatrixOf(d) /\ Openers = OpenersOf(d)
  BY <1>1, Before
<1>12. ~ Monitor!Exists(name)
  <2>1. \A s \in SM : Right(d, name, s) = {}
    BY <1>2, <1>3, ExistsNot
  <2>2. MatrixOf(d)[name] = [s \in SM |-> {}]
    BY <2>1 DEF MatrixOf
  <2>. QED BY <1>11, <2>2 DEF Monitor!Exists, Monitor!NoRights
<1>13. Matrix' = [Matrix EXCEPT ![name][sm] = SFS_CREATOR]
  BY <1>8, <1>10, <1>11 DEF WithRight
<1>14. Monitor!Connect(sm, name, <<"create", sm, name>>)
  BY <1>9, <1>10, <1>11 DEF Connects, WithOpener, Monitor!Connect, Monitor!NOTHING, NOTHING
<1>. QED BY <1>12, <1>13, <1>14 DEF Monitor!Create

\* A module opens a file with the permissions it has.
LEMMA OpenExistingOpens ==
  ASSUME SfsInv, NEW sm \in SM, NEW name \in Name, NEW want,
         sfs_open_existing(sm, name, want)
  PROVE  Monitor!Open(sm, name, want)
<1>1. PICK d, f, p : d = DO_INIT /\ f = LOOKUP_FILE(d, name) /\ p = LOOKUP_PERM(d, f, sm)
  OBVIOUS
<1>2. /\ Good(d) /\ two_phase_lookup(d, name, want, sm)
      /\ open_back_end_file(d, name, p, <<"open", sm, name, want>>)
  BY <1>1, InitGood DEF sfs_open_existing
<1>3. /\ f \in File /\ d.file[f].name = name /\ p \in Perm /\ d.perm[p].file = f
      /\ d.perm[p].sm_id = sm /\ want \subseteq d.perm[p].flags
  BY <1>1, <1>2, TwoPhases
<1>4. Matrix = MatrixOf(d) /\ Openers = OpenersOf(d)
  BY <1>1, Before
<1>5. Matrix[name][sm] = d.perm[p].flags /\ d.perm[p].flags # {}
  <2>1. Right(d, name, sm) = d.perm[p].flags
    BY <1>2, <1>3, RightFound
  <2>2. d.perm[p].file # NULL
    BY <1>2, <1>3, GoodTypes DEF Good
  <2>. QED BY <1>2, <1>3, <1>4, <2>1, <2>2 DEF MatrixOf, Good, PermsInv
<1>6. Matrix' = MatrixOf(d) /\ Connects(OpenersOf(d), sm, name, <<"open", sm, name, want>>)
  <2>1. PICK access : access = <<"open", sm, name, want>>
    OBVIOUS
  <2>2. open_back_end_file(d, name, p, access)
    BY <1>2, <2>1
  <2>. QED BY <1>2, <1>3, <2>1, <2>2, OpenConnects
<1>7. Monitor!Connect(sm, name, <<"open", sm, name, want>>)
  BY <1>4, <1>6 DEF Connects, WithOpener, Monitor!Connect, Monitor!NOTHING, NOTHING
<1>. QED BY <1>3, <1>4, <1>5, <1>6, <1>7 DEF Monitor!Open

\* What a module may do through a descriptor it has opened.
LEMMA OwnDescriptor ==
  ASSUME SfsInv, NEW sm, NEW fd \in FD, CHK_FD(DO_INIT, fd, sm)
  PROVE  LET p == fd_cache[fd]
             name == file_pool[perm_pool[p].file].name
         IN  /\ DO_INIT = Data /\ Good(Data) /\ fd_cache[fd] # NULL
             /\ sm \in SM /\ name \in Name
             /\ Openers[fd] = <<sm, name>> /\ Openers[fd] # NOBODY
             /\ Matrix[name][sm] = perm_pool[p].flags
<1>1. PICK d : d = Data
  OBVIOUS
<1>2. DO_INIT = Data /\ Good(d) /\ d.fds[fd] # NULL
  BY <1>1, CachedIsInitialised
<1>3. d.perm[d.fds[fd]].sm_id = sm
  BY <1>1, <1>2 DEF CHK_FD
<1>4. PICK p, f, name : p = d.fds[fd] /\ f = d.perm[p].file /\ name = d.file[f].name
  OBVIOUS
<1>5. p \in Perm /\ f \in File /\ f \in ToSet(d.files) /\ name \in Name
  BY <1>2, <1>4, CachedFile
<1>6. sm \in SM
  <2>1. d.perm[p].file # NULL
    BY <1>2, <1>4, <1>5, GoodTypes DEF Good
  <2>. QED BY <1>2, <1>3, <1>4, <1>5, <2>1 DEF Good, PermsInv
<1>7. Right(d, name, sm) = d.perm[p].flags
  BY <1>2, <1>3, <1>4, <1>5, <1>6, RightFound
<1>8. MatrixOf(d)[name][sm] = d.perm[p].flags
  BY <1>5, <1>6, <1>7 DEF MatrixOf
<1>9. OpenersOf(d)[fd] = <<sm, name>> /\ <<sm, name>> # NOBODY
  BY <1>2, <1>3, <1>4 DEF OpenersOf, OpenerOf, NOBODY
<1>10. Matrix = MatrixOf(d) /\ Openers = OpenersOf(d)
  BY <1>1, MatrixOfData
<1>11. p = fd_cache[fd] /\ name = file_pool[perm_pool[p].file].name /\ d.perm = perm_pool
  BY <1>1, <1>4 DEF Data
<1>. QED BY <1>1, <1>2, <1>4, <1>5, <1>6, <1>8, <1>9, <1>10, <1>11

\* A descriptor is closed by the module that opened it.
LEMMA CloseCloses ==
  ASSUME SfsInv, NEW sm, NEW fd \in FD, sfs_close(sm, fd)
  PROVE  Monitor!Close(sm, fd)
<1>1. /\ DO_INIT = Data /\ Good(Data) /\ fd_cache[fd] # NULL
      /\ Openers[fd] # NOBODY /\ Openers[fd][1] = sm
  <2>1. PICK name : Openers[fd] = <<sm, name>> /\ Openers[fd] # NOBODY
    BY OwnDescriptor DEF sfs_close
  <2>. QED BY <2>1, OwnDescriptor DEF sfs_close
<1>2. PICK d, f : d = Data /\ f = d.perm[d.fds[fd]].file
  OBVIOUS
<1>3. f \in ToSet(d.files) /\ f \in File /\ {fd} \in SUBSET Connections(d, f)
  BY <1>1, <1>2, CachedFile DEF Connections, Data
<1>4. PICK e : e = CLOSE_FDS(d, f, {fd})
  OBVIOUS
<1>5. Good(e) /\ Closed(d, e, f, {fd})
  BY <1>1, <1>2, <1>3, <1>4, CloseGood
<1>6. Return(e, NOTHING)
  BY <1>1, <1>2, <1>4 DEF sfs_close, Data
<1>7. Matrix' = MatrixOf(e) /\ Openers' = OpenersOf(e) /\ granted' = NOTHING
  BY <1>5, <1>6, After
<1>8. /\ MatrixOf(e) = MatrixOf(d)
      /\ OpenersOf(e) = [m \in FD |-> IF m \in {fd} THEN NOBODY ELSE OpenersOf(d)[m]]
  BY <1>1, <1>2, <1>3, <1>5, ConnectionsClosed
<1>9. OpenersOf(e) = [OpenersOf(d) EXCEPT ![fd] = NOBODY]
  BY <1>8 DEF OpenersOf
<1>10. Matrix = MatrixOf(d) /\ Openers = OpenersOf(d)
  BY <1>2, MatrixOfData
<1>. QED BY <1>1, <1>7, <1>8, <1>9, <1>10 DEF Monitor!Close, Monitor!NOTHING, NOTHING

\* A byte is read or written with the permissions the module has now; a seek, which
\* needs none, is no access.
LEMMA AccessAllowed ==
  ASSUME SfsInv, NEW sm, NEW fd \in FD,
         sfs_getc(sm, fd) \/ sfs_putc(sm, fd) \/ sfs_seek(sm, fd)
  PROVE  \/ Monitor!Refuse
         \/ Monitor!Access(fd, "read", SFS_READ) \/ Monitor!Access(fd, "write", SFS_WRITE)
<1>1. PICK p, name : p = fd_cache[fd] /\ name = file_pool[perm_pool[p].file].name
  OBVIOUS
<1>2. /\ DO_INIT = Data /\ Good(Data) /\ Openers[fd] = <<sm, name>> /\ Openers[fd] # NOBODY
      /\ Matrix[name][sm] = perm_pool[p].flags
  BY <1>1, OwnDescriptor DEF sfs_getc, sfs_putc, sfs_seek
<1>3. PICK d, e, x : d = Data /\ x = cfs_fd[fd] /\ e = [d EXCEPT !.content[x] = "data"]
  OBVIOUS
<1>4. Good(d) /\ Good(e)
  BY <1>2, <1>3, WriteGood
<1>5. MatrixOf(e) = MatrixOf(d) /\ OpenersOf(e) = OpenersOf(d)
  <2>1. e.perm = d.perm /\ e.file = d.file /\ e.fds = d.fds
    BY <1>3, <1>4 DEF Good, DataRecord
  <2>2. MatrixOf(e) = MatrixOf(d)
    BY <2>1 DEF MatrixOf, Right, Entries
  <2>3. OpenersOf(e) = OpenersOf(d)
    BY <2>1 DEF OpenersOf, OpenerOf
  <2>. QED BY <2>2, <2>3
<1>6. Matrix = MatrixOf(d) /\ Openers = OpenersOf(d)
  BY <1>3, MatrixOfData
<1>7. \E access :
        /\ Return(d, access) \/ Return(e, access)
        /\ \/ access = NOTHING
           \/ access = Accessed("read", sm, fd) /\ SFS_READ \subseteq perm_pool[p].flags
           \/ access = Accessed("write", sm, fd) /\ SFS_WRITE \subseteq perm_pool[p].flags
  BY <1>1, <1>2, <1>3 DEF sfs_getc, sfs_putc, sfs_seek, CHK_PERM
<1>8. PICK access :
        /\ Return(d, access) \/ Return(e, access)
        /\ \/ access = NOTHING
           \/ access = <<"read", sm, name>> /\ SFS_READ \subseteq perm_pool[p].flags
           \/ access = <<"write", sm, name>> /\ SFS_WRITE \subseteq perm_pool[p].flags
  BY <1>1, <1>7 DEF Accessed
<1>9. UNCHANGED <<Matrix, Openers>> /\ granted' = access
  BY <1>4, <1>5, <1>6, <1>8, After
<1>10. CASE access = NOTHING
  BY <1>9, <1>10 DEF Monitor!Refuse, Monitor!NOTHING, NOTHING
<1>11. ASSUME NEW op, NEW want, access = <<op, sm, name>>, want \subseteq perm_pool[p].flags
       PROVE  Monitor!Access(fd, op, want)
  <2>1. Openers[fd][1] = sm /\ Openers[fd][2] = name
    BY <1>2
  <2>. QED BY <1>2, <1>9, <1>11, <2>1 DEF Monitor!Access
<1>. QED BY <1>8, <1>10, <1>11

\* A file is removed by a module with root permissions while nobody has it open.
LEMMA RemoveRemoves ==
  ASSUME SfsInv, NEW sm \in SM, NEW name \in Name, sfs_remove(sm, name)
  PROVE  Monitor!Remove(sm, name)
<1>1. PICK d, f, acl, k, p : /\ d = DO_INIT /\ f = LOOKUP_FILE(d, name)
                             /\ acl = d.file[f].acl /\ k = FilePosition(d, name)
                             /\ p = LOOKUP_PERM(d, f, sm)
  OBVIOUS
<1>2. /\ Good(d) /\ two_phase_lookup(d, name, SFS_ROOT, sm) /\ d.file[f].open_count = 0
      /\ \E b \in cfs_remove(d, name) : Return(WithoutFile(b, f, k, acl), NOTHING)
  BY <1>1, InitGood DEF sfs_remove, WithoutFile
<1>3. PICK b \in cfs_remove(d, name) : Return(WithoutFile(b, f, k, acl), NOTHING)
  BY <1>2
<1>4. Good(b) /\ SameFrontEnd(d, b)
  BY <1>2, BackEndRemoves
<1>5. /\ k \in 1 .. Len(d.files) /\ f = d.files[k] /\ f \in File /\ d.file[f].name = name
      /\ p \in Perm /\ d.perm[p].file = f /\ d.perm[p].sm_id = sm
      /\ SFS_ROOT \subseteq d.perm[p].flags
  BY <1>1, <1>2, TwoPhases
<1>6. /\ k \in 1 .. Len(b.files) /\ f = b.files[k] /\ b.file[f].open_count = 0
      /\ acl = b.file[f].acl /\ b.file[f].name = name
  BY <1>1, <1>2, <1>4, <1>5 DEF SameFrontEnd
<1>7. PICK e : e = WithoutFile(b, f, k, acl)
  OBVIOUS
<1>8. Good(e) /\ Removed(b, e, f, k)
  BY <1>4, <1>6, <1>7, RemoveGood
<1>9. Matrix' = MatrixOf(e) /\ Openers' = OpenersOf(e) /\ granted' = NOTHING
  BY <1>3, <1>7, <1>8, After
<1>10. Matrix = MatrixOf(b) /\ Openers = OpenersOf(b)
  BY <1>1, <1>2, <1>4, Before, KeptFrontEnd
<1>11. Matrix[name][sm] = d.perm[p].flags
  <2>1. Right(d, name, sm) = d.perm[p].flags
    BY <1>2, <1>5, RightFound
  <2>2. Matrix = MatrixOf(d)
    BY <1>1, Before
  <2>. QED BY <2>1, <2>2 DEF MatrixOf
<1>12. \A fd \in FD : b.fds[fd] # NULL =>
         /\ b.fds[fd] \in Perm /\ b.perm[b.fds[fd]].file \in ToSet(b.files)
         /\ b.perm[b.fds[fd]].file \in File /\ b.perm[b.fds[fd]].file # f
  <2>1. Connections(b, f) = {}
    <3>1. Cardinality(Connections(b, f)) = 0
      BY <1>4, <1>5, <1>6 DEF Good, FdsInv
    <3>. QED BY <3>1, FiniteConnections, FS_EmptySet
  <2>. QED BY <1>4, <2>1, CachedFile DEF Connections
<1>13. f \in ToSet(b.files) /\ b.file[f].acl \in Seq(Perm)
  BY <1>4, <1>5, <1>6, GoodTypes, ListElements DEF Good
<1>14. /\ \A q \in Perm : b.perm[q].file = f => e.perm[q] = NoPerm
       /\ \A q \in Perm : b.perm[q].file # f => e.perm[q] = b.perm[q]
       /\ \A g \in File : g # f => e.file[g] = b.file[g]
       /\ e.fds = b.fds
  <2>1. \A q \in Perm : q \in ToSet(b.file[f].acl) <=> b.perm[q].file = f
    BY <1>4, <1>5 DEF Good, PermsInv
  <2>. QED BY <1>8, <2>1 DEF Removed
<1>15. OpenersOf(e) = OpenersOf(b)
  BY <1>4, <1>12, <1>14, OpenersKept
<1>16. \A fd \in FD : Openers[fd] # NOBODY => Openers[fd][2] # name
  <2>. SUFFICES ASSUME NEW fd \in FD, Openers[fd] # NOBODY PROVE Openers[fd][2] # name
    OBVIOUS
  <2>1. OpenerOf(b, fd) # NOBODY /\ Openers[fd] = OpenerOf(b, fd)
    BY <1>10 DEF OpenersOf
  <2>2. /\ b.fds[fd] # NULL
        /\ OpenerOf(b, fd) = <<b.perm[b.fds[fd]].sm_id, b.file[b.perm[b.fds[fd]].file].name>>
    BY <2>1 DEF OpenerOf
  <2>3. b.file[b.perm[b.fds[fd]].file].name # name
    BY <1>4, <1>6, <1>12, <1>13, <2>2 DEF Good, FilesInv
  <2>. QED BY <2>1, <2>2, <2>3, SMTT(30)
<1>17. \A s \in SM : Right(e, name, s) = {}
  <2>1. \A g \in ToSet(e.files) : e.file[g].name # name
    <3>1. ToSet(e.files) = ToSet(b.files) \ {f}
      <4>1. b.files \in Seq(File) /\ IsInjective(b.files)
        BY <1>4, GoodTypes DEF Good, FilesInv
      <4>. QED BY <1>6, <1>8, <4>1, CutList, SMTT(30) DEF Removed
    <3>2. ToSet(b.files) \subseteq File
      BY <1>4, GoodTypes DEF Good
    <3>3. \A g \in ToSet(b.files) : g # f => b.file[g].name # name
      BY <1>4, <1>6, <1>13 DEF Good, FilesInv
    <3>. QED BY <1>14, <3>1, <3>2, <3>3
  <2>. QED BY <1>8, <2>1, ExistsNot
<1>18. ASSUME NEW n \in Name, n # name, NEW s \in SM
       PROVE  Right(e, n, s) = Right(b, n, s)
  <2>1. \A q \in Perm : b.perm[q].sm_id = s => b.perm[q].file \in File
    BY <1>4, OwnedPerm
  <2>2. NoPerm.sm_id # s
    BY NullAssumption DEF NoPerm
  <2>3. Entries(e, n, s) = Entries(b, n, s)
    BY <1>6, <1>14, <1>18, <2>1, <2>2 DEF Entries
  <2>4. \A q \in Entries(b, n, s) : e.perm[q].flags = b.perm[q].flags
    BY <1>6, <1>14, <1>18, <2>1 DEF Entries
  <2>. QED BY <2>3, <2>4, SameRight
<1>19. MatrixOf(e) = [MatrixOf(b) EXCEPT ![name] = [s \in SM |-> {}]]
  BY <1>17, <1>18 DEF MatrixOf
<1>. QED
  BY <1>5, <1>9, <1>10, <1>11, <1>15, <1>16, <1>19
     DEF Monitor!Remove, Monitor!IsRoot, Monitor!NOTHING, Monitor!NoRights, NOTHING

\* A root changes the permissions of another module: revokes them, with direct
\* effect on its open files, or gives it others; or the call fails.
LEMMA ChmodChanges ==
  ASSUME SfsInv, NEW sm \in SM, NEW name \in Name, NEW id \in SM, NEW flags \in Flags,
         sfs_chmod(sm, name, id, flags)
  PROVE  \/ Monitor!Refuse
         \/ Monitor!Revoke(sm, name, id)
         \/ flags # {} /\ Monitor!Assign(sm, name, id, flags)
<1>1. PICK d, f, p : /\ d = DO_INIT /\ f = LOOKUP_FILE(d, name)
                     /\ p = LOOKUP_PERM(d, f, sm)
  OBVIOUS
<1>2. /\ Good(d) /\ two_phase_lookup(d, name, SFS_ROOT, sm)
      /\ \/ flags = {} /\ Return(revoke_acl(d, f, id), NOTHING)
         \/ flags # {} /\ Return(add_acl(d, f, id, flags), NOTHING)
  BY <1>1, InitGood DEF sfs_chmod, SFS_NIL
<1>3. /\ f \in ToSet(d.files) /\ f \in File /\ d.file[f].name = name
      /\ p \in Perm /\ d.perm[p].file = f /\ d.perm[p].sm_id = sm
      /\ SFS_ROOT \subseteq d.perm[p].flags
  BY <1>1, <1>2, TwoPhases
<1>4. flags \in SUBSET Bit
  BY FlagsAssumption
<1>5. Matrix = MatrixOf(d) /\ Openers = OpenersOf(d)
  BY <1>1, Before
<1>6. Monitor!IsRoot(sm, name)
  <2>1. Right(d, name, sm) = d.perm[p].flags
    BY <1>2, <1>3, RightFound
  <2>2. Matrix[name][sm] = d.perm[p].flags
    BY <1>5, <2>1 DEF MatrixOf
  <2>. QED BY <1>3, <2>2 DEF Monitor!IsRoot
<1>7. ASSUME Return(d, NOTHING)
      PROVE  Monitor!Refuse
  <2>1. Matrix' = MatrixOf(d) /\ Openers' = OpenersOf(d) /\ granted' = NOTHING
    BY <1>2, <1>7, After
  <2>. QED BY <1>5, <2>1 DEF Monitor!Refuse, Monitor!NOTHING, NOTHING
<1>8. CASE flags = {} /\ Return(revoke_acl(d, f, id), NOTHING)
  <2>1. PICK e : e = revoke_acl(d, f, id)
    OBVIOUS
  <2>2. PICK k, q, fds, c : /\ k = Position(d, f, id) /\ q = d.file[f].acl[k]
                            /\ fds = {fd \in FD : d.fds[fd] = q}
                            /\ c = CLOSE_FDS(d, f, fds)
    OBVIOUS
  <2>3. Good(e) /\ RevokeOutcome(d, e, f, id)
    BY <1>2, <1>3, <2>1, RevokeGood
  <2>4. CASE e = d
    BY <1>7, <1>8, <2>1, <2>4
  <2>5. CASE e # d
    <3>1. /\ d.perm[q].flags # SFS_CREATOR /\ q \in Perm
          /\ d.perm[q].file = f /\ d.perm[q].sm_id = id
          /\ Closed(d, c, f, fds) /\ Revoked(c, e, f, k, q)
      BY <2>2, <2>3, <2>5 DEF RevokeOutcome
    <3>2. NULL \notin Perm
      BY <1>2, GoodTypes DEF Good
    <3>3. fds \in SUBSET Connections(d, f)
      BY <2>2, <3>1, <3>2 DEF Connections
    <3>4. Good(c)
      BY <1>2, <1>3, <2>2, <3>3, CloseGood
    <3>5. /\ c.file[f].name = name /\ c.perm[q].file = f /\ c.perm[q].sm_id = id
          /\ \A fd \in FD : c.fds[fd] # q
      <4>1. fds = {fd \in FD : d.fds[fd] = q}
        BY <2>2
      <4>2. /\ c.perm = d.perm /\ c.file[f].name = d.file[f].name
            /\ \A fd \in FD : c.fds[fd] = IF fd \in fds THEN NULL ELSE d.fds[fd]
        BY <1>3, <3>1 DEF Closed, SameFiles
      <4>. QED BY <1>3, <3>1, <3>2, <4>1, <4>2
    <3>6. /\ MatrixOf(c) = MatrixOf(d)
          /\ OpenersOf(c) = [fd \in FD |-> IF fd \in fds THEN NOBODY ELSE OpenersOf(d)[fd]]
      BY <1>2, <1>3, <3>1, <3>3, ConnectionsClosed
    <3>7. MatrixOf(e) = WithRight(MatrixOf(c), name, id, {}) /\ OpenersOf(e) = OpenersOf(c)
      BY <1>3, <3>1, <3>4, <3>5, EntryRevoked
    <3>8. Matrix' = MatrixOf(e) /\ Openers' = OpenersOf(e) /\ granted' = NOTHING
      BY <1>8, <2>1, <2>3, After
    <3>9. Matrix[name][id] # SFS_CREATOR
      <4>1. Right(d, name, id) = d.perm[q].flags
        BY <1>2, <1>3, <3>1, RightFound
      <4>. QED BY <1>5, <3>1, <4>1 DEF MatrixOf
    <3>10. Matrix' = [Matrix EXCEPT ![name][id] = {}]
      BY <1>5, <3>6, <3>7, <3>8 DEF WithRight
    <3>11. ASSUME NEW fd \in FD
           PROVE  fd \in fds <=> OpenersOf(d)[fd] = <<id, name>>
      <4>1. CASE d.fds[fd] = NULL
        <5>1. fd \notin fds
          BY <2>2, <3>1, <3>2, <4>1
        <5>. QED BY <4>1, <5>1 DEF OpenersOf, OpenerOf, NOBODY
      <4>2. CASE d.fds[fd] # NULL
        <5>1. PICK r, g : r = d.fds[fd] /\ g = d.perm[r].file
          OBVIOUS
        <5>2. r \in Perm /\ g \in File /\ g \in ToSet(d.files) /\ g # NULL
          BY <1>2, <4>2, <5>1, CachedFile, GoodTypes DEF Good
        <5>3. OpenersOf(d)[fd] = <<d.perm[r].sm_id, d.file[g].name>>
          BY <4>2, <5>1 DEF OpenersOf, OpenerOf
        <5>4. fd \in fds <=> r = q
          BY <2>2, <5>1
        <5>5. r = q => OpenersOf(d)[fd] = <<id, name>>
          BY <1>3, <3>1, <5>1, <5>3
        <5>6. ASSUME d.perm[r].sm_id = id, d.file[g].name = name
              PROVE  r = q
          <6>1. g = f
            BY <1>2, <1>3, <5>2, <5>6 DEF Good, FilesInv
          <6>. QED BY <1>2, <3>1, <5>1, <5>2, <5>6, <6>1 DEF Good, AclInv
        <5>7. OpenersOf(d)[fd] = <<id, name>> => d.perm[r].sm_id = id /\ d.file[g].name = name
          BY <5>3
        <5>. QED BY <5>4, <5>5, <5>6, <5>7
      <4>. QED BY <4>1, <4>2
    <3>12. Openers' = [fd \in FD |-> IF Openers[fd] = <<id, name>> THEN NOBODY
                                     ELSE Openers[fd]]
      BY <1>5, <3>6, <3>7, <3>8, <3>11
    <3>. QED
      BY <1>6, <3>8, <3>9, <3>10, <3>12 DEF Monitor!Revoke, Monitor!NOTHING, NOTHING
  <2>. QED BY <2>4, <2>5
<1>9. CASE flags # {} /\ Return(add_acl(d, f, id, flags), NOTHING)
  <2>1. PICK e : e = add_acl(d, f, id, flags)
    OBVIOUS
  <2>2. PICK k, old : k = Position(d, f, id) /\ old = d.file[f].acl[k]
    OBVIOUS
  <2>3. Good(e) /\ AddOutcome(d, e, f, id, flags)
    BY <1>2, <1>3, <1>4, <1>9, <2>1, AddGood
  <2>4. Matrix' = MatrixOf(e) /\ Openers' = OpenersOf(e) /\ granted' = NOTHING
    BY <1>9, <2>1, <2>3, After
  <2>5. CASE e = d
    BY <1>7, <1>9, <2>1, <2>5
  <2>6. CASE /\ old \in Perm /\ d.perm[old].flags # SFS_CREATOR
             /\ d.perm[old].file = f /\ d.perm[old].sm_id = id
             /\ Assigned(d, e, old, flags)
    <3>1. /\ MatrixOf(e) = WithRight(MatrixOf(d), name, id, flags)
          /\ OpenersOf(e) = OpenersOf(d)
      BY <1>2, <1>3, <2>6, EntryAssigned
    <3>2. Right(d, name, id) = d.perm[old].flags
      BY <1>2, <1>3, <2>6, RightFound
    <3>3. d.perm[old].flags # {}
      <4>1. d.perm[old].file # NULL
        BY <1>2, <1>3, <2>6, GoodTypes DEF Good
      <4>. QED BY <1>2, <2>6, <4>1 DEF Good, PermsInv
    <3>4. Matrix[name][id] = d.perm[old].flags
      BY <1>5, <3>2 DEF MatrixOf
    <3>5. Matrix' = [Matrix EXCEPT ![name][id] = flags] /\ UNCHANGED Openers
      BY <1>5, <2>4, <3>1 DEF WithRight
    <3>. QED
      BY <1>6, <1>9, <2>4, <2>6, <3>3, <3>4, <3>5 DEF Monitor!Assign, Monitor!NOTHING, NOTHING
  <2>7. CASE /\ d.freePerms # <<>> /\ flags # SFS_CREATOR
             /\ \A q \in Perm : d.perm[q].file = f => d.perm[q].sm_id # id
             /\ Added(d, e, f, id, flags, Head(d.freePerms))
    <3>1. PICK new : new = Head(d.freePerms)
      OBVIOUS
    <3>2. /\ e.perm[new] = [sm_id |-> id, flags |-> flags, file |-> f]
          /\ \A q \in Perm \ {new} : e.perm[q] = d.perm[q]
          /\ \A g \in File : e.file[g].name = d.file[g].name
          /\ e.fds = d.fds
      BY <2>7, <3>1 DEF Added
    <3>3. new \in Perm /\ d.perm[new].file = NULL
      <4>1. d.freePerms \in Seq(Perm)
        BY <1>2, GoodTypes DEF Good
      <4>2. new \in ToSet(d.freePerms) /\ ToSet(d.freePerms) \subseteq Perm
        BY <2>7, <3>1, <4>1, ListElements
      <4>. QED BY <1>2, <4>2 DEF Good, PermsInv
    <3>4. Entries(d, name, id) = {}
      <4>. SUFFICES ASSUME NEW q \in Entries(d, name, id) PROVE FALSE
        OBVIOUS
      <4>1. /\ q \in Perm /\ d.perm[q].file \in ToSet(d.files)
            /\ d.file[d.perm[q].file].name = name /\ d.perm[q].sm_id = id
        BY <1>2, EntriesOwned
      <4>2. d.perm[q].file = f
        BY <1>2, <1>3, <4>1 DEF Good, FilesInv
      <4>. QED BY <2>7, <4>1, <4>2
    <3>5. MatrixOf(e) = WithRight(MatrixOf(d), name, id, flags)
      <4>1. e.file[f].name = name
        BY <1>3, <3>2
      <4>2. \A g \in ToSet(d.files) : e.file[g].name = d.file[g].name
        BY <1>2, <3>2, GoodTypes DEF Good
      <4>. QED BY <1>2, <1>3, <3>2, <3>3, <3>4, <4>1, <4>2, EntryMade
    <3>6. OpenersOf(e) = OpenersOf(d)
      <4>1. \A fd \in FD : d.fds[fd] # NULL =>
              d.fds[fd] \in Perm \ {new} /\ d.perm[d.fds[fd]].file \in File
        <5>1. NULL \notin File
          BY <1>2, GoodTypes DEF Good
        <5>. QED BY <1>2, <3>3, <5>1, CachedFile
      <4>. QED BY <1>2, <3>2, <4>1, OpenersKept
    <3>7. Matrix[name][id] = {}
      <4>1. Right(d, name, id) = {}
        BY <3>4, NoRight
      <4>. QED BY <1>5, <4>1 DEF MatrixOf
    <3>8. Matrix' = [Matrix EXCEPT ![name][id] = flags] /\ UNCHANGED Openers
      BY <1>5, <2>4, <3>5, <3>6 DEF WithRight
    <3>9. {} # SFS_CREATOR
      BY DEF SFS_CREATOR
    <3>. QED
      BY <1>6, <1>9, <2>4, <2>7, <3>7, <3>8, <3>9 DEF Monitor!Assign, Monitor!NOTHING, NOTHING
  <2>. QED BY <2>2, <2>3, <2>5, <2>6, <2>7 DEF AddOutcome
<1>. QED BY <1>2, <1>8, <1>9

\* Who has all the rights of a creator in the matrix is attested.
LEMMA AttestAttests ==
  ASSUME SfsInv, NEW owner \in SM, NEW name \in Name, sfs_attest(name, owner)
  PROVE  Monitor!Attest(name, owner) \/ Monitor!Refuse
<1>1. UNCHANGED <<Matrix, Openers>>
  BY DEF sfs_attest, Matrix, Rights, Openers, Opener
<1>2. CASE two_phase_lookup(Data, name, SFS_CREATOR, owner)
  <2>1. PICK d, f, p : /\ d = Data /\ f = LOOKUP_FILE(d, name)
                       /\ p = LOOKUP_PERM(d, f, owner)
    OBVIOUS
  <2>2. Good(d)
    <3>. SUFFICES ASSUME ~ INIT_DONE PROVE FALSE
      BY <2>1 DEF SfsInv
    <3>1. d.files \in Seq(File) /\ ToSet(d.files) = {}
      <4>1. d \in DataRecord /\ d.files = open_file_list /\ ToSet(open_file_list) = {}
        BY <2>1, InvOfVariables DEF Data
      <4>. QED BY <4>1, GoodTypes
    <3>2. f # NULL
      BY <1>2, <2>1 DEF two_phase_lookup
    <3>. QED BY <2>1, <3>1, <3>2, FilePositionFound DEF LOOKUP_FILE
  <2>3. /\ f \in File /\ d.file[f].name = name /\ p \in Perm /\ d.perm[p].file = f
        /\ d.perm[p].sm_id = owner /\ SFS_CREATOR \subseteq d.perm[p].flags
    BY <1>2, <2>1, <2>2, TwoPhases
  <2>4. Right(d, name, owner) = d.perm[p].flags
    BY <2>2, <2>3, RightFound
  <2>5. Matrix[name][owner] = d.perm[p].flags
    BY <2>1, <2>4, MatrixOfData DEF MatrixOf
  <2>6. granted' = <<"attest", owner, name>>
    BY <1>2 DEF sfs_attest
  <2>. QED BY <1>1, <2>3, <2>5, <2>6 DEF Monitor!Attest
<1>3. CASE ~ two_phase_lookup(Data, name, SFS_CREATOR, owner)
  BY <1>1, <1>3 DEF sfs_attest, Monitor!Refuse, Monitor!NOTHING, NOTHING
<1>. QED BY <1>2, <1>3

\* A restart clears the matrix.
LEMMA RebootReboots == Reboot => Monitor!Reboot
<1>. SUFFICES ASSUME Reboot PROVE Monitor!Reboot
  OBVIOUS
<1>1. perm_pool' = [p \in Perm |-> NoPerm] /\ fd_cache' = [fd \in FD |-> NULL]
  BY DEF Reboot
<1>2. \A p \in Perm : perm_pool'[p].sm_id \notin SM
  BY <1>1, NullAssumption DEF NoPerm
<1>3. \A name \in Name, sm \in SM : (Rights(name, sm))' = {}
  BY <1>2 DEF Rights
<1>4. Matrix' = [name \in Name |-> [sm \in SM |-> {}]]
  BY <1>3 DEF Matrix
<1>5. Openers' = [fd \in FD |-> NOBODY]
  BY <1>1 DEF Openers, Opener
<1>. QED BY <1>4, <1>5 DEF Reboot, Monitor!Reboot, Monitor!NoRights, Monitor!NOTHING, NOTHING

\* Initially the matrix is empty.
LEMMA InitRefines == Init => Monitor!Init
<1>. SUFFICES ASSUME Init PROVE Monitor!Init
  OBVIOUS
<1>1. perm_pool = [p \in Perm |-> NoPerm] /\ fd_cache = [fd \in FD |-> NULL]
  BY DEF Init
<1>2. \A p \in Perm : perm_pool[p].sm_id \notin SM
  BY <1>1, NullAssumption DEF NoPerm
<1>3. \A name \in Name, sm \in SM : Rights(name, sm) = {}
  BY <1>2 DEF Rights
<1>4. Matrix = [name \in Name |-> [sm \in SM |-> {}]]
  BY <1>3 DEF Matrix
<1>5. Openers = [fd \in FD |-> NOBODY]
  BY <1>1 DEF Openers, Opener
<1>. QED BY <1>4, <1>5 DEF Init, Monitor!Init, Monitor!NoRights, Monitor!NOTHING, NOTHING

\* Every step of Sfs is a step of FileMonitor, or none.
LEMMA NextRefines == SfsInv /\ [Next]_vars => [Monitor!Next]_(Monitor!vars)
<1>. SUFFICES ASSUME SfsInv, [Next]_vars PROVE [Monitor!Next]_(Monitor!vars)
  OBVIOUS
<1>1. CASE UNCHANGED vars
  <2>1. UNCHANGED <<Matrix, Openers, granted>>
    BY <1>1 DEF vars, Matrix, Rights, Openers, Opener
  <2>. QED BY <2>1 DEF Monitor!vars
<1>2. ASSUME FAILURE
      PROVE  Monitor!Next
  BY <1>2, FailureRefused DEF Monitor!Next
<1>3. ASSUME NEW sm \in SM, NEW name \in Name, NameCall(sm, name)
      PROVE  Monitor!Next
  <2>1. CASE sfs_open_new(sm, name)
    BY <2>1, OpenNewCreates DEF Monitor!Next
  <2>2. CASE \E want \in Wanted : sfs_open_existing(sm, name, want)
    BY <2>2, OpenExistingOpens DEF Monitor!Next
  <2>3. CASE \E want \in Wanted : sfs_open_denied(sm, name, want)
    BY <1>2, <2>3 DEF sfs_open_denied
  <2>4. CASE sfs_remove(sm, name)
    BY <2>4, RemoveRemoves DEF Monitor!Next
  <2>5. CASE sfs_remove_refused(sm, name)
    BY <1>2, <2>5 DEF sfs_remove_refused
  <2>6. ASSUME NEW id \in SM, NEW flags \in Flags, sfs_chmod(sm, name, id, flags)
        PROVE  Monitor!Next
    BY <2>6, ChmodChanges DEF Monitor!Next
  <2>7. CASE sfs_chmod_denied(sm, name)
    BY <1>2, <2>7 DEF sfs_chmod_denied
  <2>8. CASE sfs_attest(name, sm)
    BY <2>8, AttestAttests DEF Monitor!Next
  <2>. QED BY <1>3, <2>1, <2>2, <2>3, <2>4, <2>5, <2>6, <2>7, <2>8 DEF NameCall
<1>4. ASSUME NEW sm \in SM, NEW fd \in FD, FdCall(sm, fd)
      PROVE  Monitor!Next
  <2>1. CASE sfs_close(sm, fd)
    BY <2>1, CloseCloses DEF Monitor!Next
  <2>2. CASE sfs_getc(sm, fd) \/ sfs_putc(sm, fd) \/ sfs_seek(sm, fd)
    BY <2>2, AccessAllowed DEF Monitor!Next
  <2>3. CASE fd_refused(sm, fd)
    BY <1>2, <2>3 DEF fd_refused
  <2>. QED BY <1>4, <2>1, <2>2, <2>3 DEF FdCall
<1>5. CASE Next
  <2>1. CASE sfs_init
    BY <1>2, <2>1 DEF sfs_init
  <2>2. CASE \E name \in Name, mayCreate \in BOOLEAN : sfs_open_none(name, mayCreate)
    BY <1>2, <2>2 DEF sfs_open_none
  <2>3. CASE Reboot
    BY <2>3, RebootReboots DEF Monitor!Next
  <2>. QED BY <1>3, <1>4, <1>5, <2>1, <2>2, <2>3 DEF Next
<1>. QED BY <1>1, <1>5

\* The front-end implements the access control matrix of FileMonitor: every access
\* it grants, every permission it changes and every connection it opens or closes
\* is one the matrix allows.
THEOREM SfsRefinesMonitor == Spec => ImplementsMonitor
BY InitRefines, NextRefines, SfsInvariant, PTL DEF Spec, ImplementsMonitor, Monitor!Spec
=============================================================================
