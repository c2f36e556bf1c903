------------------------------- MODULE ShmProofs -------------------------------
(***************************************************************************)
(* Theorems about Shm, for every size of the buffer and of files, every    *)
(* number of descriptors and every set of names.                           *)
(***************************************************************************)
EXTENDS Shm, TLAPS, FiniteSetTheorems, SequenceTheorems, LeastElements

-----------------------------------------------------------------------------
(* Lists.                                                                   *)

\* The positions and elements of a list.
LEMMA ListElements ==
  ASSUME NEW S, NEW s \in Seq(S)
  PROVE  /\ Len(s) \in Nat /\ DOMAIN s = 1 .. Len(s)
         /\ ToSet(s) = {s[i] : i \in 1 .. Len(s)}
         /\ \A i \in 1 .. Len(s) : s[i] \in S
         /\ \A x \in ToSet(s) : x \in S
<1>1. /\ Len(s) \in Nat /\ DOMAIN s = 1 .. Len(s)
      /\ \A i \in 1 .. Len(s) : s[i] \in S
  BY LenProperties
<1>. QED BY <1>1 DEF ToSet

\* A piece p of a list, behind the first m: the next l elements.
LEMMA Piece ==
  ASSUME NEW S, NEW s \in Seq(S), NEW m \in 0 .. Len(s), NEW n \in 0 .. Len(s), m <= n,
         NEW j, j = m + 1, NEW l, l = n - m, NEW p, p = SubSeq(s, j, n)
  PROVE  p \in Seq(S) /\ Len(p) = l /\ \A i \in 1 .. l : p[i] = s[m + i]
<1>1. Len(s) \in Nat
  BY ListElements
<1>2. j \in Int /\ n \in Int /\ \A i \in j .. n : s[i] \in S
  BY <1>1, ListElements
<1>3. /\ p \in Seq(S)
      /\ Len(p) = IF j <= n THEN n - j + 1 ELSE 0
      /\ \A i \in 1 .. n - j + 1 : p[i] = s[j + i - 1]
  BY <1>2, SubSeqProperties
<1>4. Len(p) = l
  BY <1>1, <1>3
<1>5. ASSUME NEW i \in 1 .. l
      PROVE  p[i] = s[m + i]
  <2>1. i \in 1 .. n - j + 1 /\ j + i - 1 = m + i
    BY <1>1
  <2>. QED BY <1>3, <2>1
<1>. QED BY <1>3, <1>4, <1>5

\* Two lists, one behind the other.
LEMMA Join ==
  ASSUME NEW S, NEW a \in Seq(S), NEW b \in Seq(S), NEW n, n = Len(a),
         NEW c, c = a \o b
  PROVE  /\ c \in Seq(S) /\ Len(c) = n + Len(b)
         /\ \A i \in 1 .. n : c[i] = a[i]
         /\ \A i \in 1 .. Len(b) : c[n + i] = b[i]
<1>1. Len(a) \in Nat /\ Len(b) \in Nat
  BY ListElements
<1>2. /\ c \in Seq(S) /\ Len(c) = Len(a) + Len(b)
      /\ \A i \in 1 .. Len(a) + Len(b) :
           c[i] = IF i <= Len(a) THEN a[i] ELSE b[i - Len(a)]
  BY ConcatProperties
<1>3. ASSUME NEW i \in 1 .. n
      PROVE  c[i] = a[i]
  BY <1>1, <1>2
<1>4. ASSUME NEW i \in 1 .. Len(b)
      PROVE  c[n + i] = b[i]
  <2>1. n + i \in 1 .. Len(a) + Len(b) /\ ~ (n + i <= Len(a)) /\ (n + i) - Len(a) = i
    BY <1>1
  <2>. QED BY <1>2, <2>1
<1>. QED BY <1>2, <1>3, <1>4

\* A list of one element.
LEMMA Single ==
  ASSUME NEW S, NEW x \in S, NEW y, y = <<x>>
  PROVE  y \in Seq(S) /\ Len(y) = 1 /\ y[1] = x
OBVIOUS

\* The list t is s with x behind the first k elements.
IsInsert(s, k, x, t) ==
  /\ Len(t) = Len(s) + 1
  /\ \A i \in 1 .. k : t[i] = s[i]
  /\ t[k + 1] = x
  /\ \A i \in k + 1 .. Len(s) : t[i + 1] = s[i]

\* An element is inserted.
LEMMA InsertList ==
  ASSUME NEW S, NEW s \in Seq(S), NEW k \in 0 .. Len(s), NEW x \in S,
         NEW t, t = InsertAt(s, k + 1, x)
  PROVE  t \in Seq(S) /\ IsInsert(s, k, x, t)
<1>1. Len(s) \in Nat
  BY ListElements
<1>2. PICK l : l = Len(s) - k
  OBVIOUS
<1>3. PICK j : j = k + 1
  OBVIOUS
<1>4. PICK a : a = SubSeq(s, 1, k)
  OBVIOUS
<1>5. PICK b : b = SubSeq(s, j, Len(s))
  OBVIOUS
<1>6. PICK y : y = <<x>>
  OBVIOUS
<1>7. PICK c : c = a \o y
  OBVIOUS
<1>8. t = c \o b
  <2>1. (k + 1) - 1 = k
    BY <1>1
  <2>. QED BY <1>3, <1>4, <1>5, <1>6, <1>7, <2>1 DEF InsertAt
<1>9. a \in Seq(S) /\ Len(a) = k /\ \A i \in 1 .. k : a[i] = s[0 + i]
  <2>1. 0 \in 0 .. Len(s) /\ 0 <= k /\ 1 = 0 + 1 /\ k = k - 0
    BY <1>1
  <2>. QED BY <1>4, <2>1, Piece
<1>10. b \in Seq(S) /\ Len(b) = l /\ \A i \in 1 .. l : b[i] = s[k + i]
  <2>1. Len(s) \in 0 .. Len(s) /\ k <= Len(s)
    BY <1>1
  <2>. QED BY <1>2, <1>3, <1>5, <2>1, Piece
<1>11. y \in Seq(S) /\ Len(y) = 1 /\ y[1] = x
  BY <1>6, Single
<1>12. /\ c \in Seq(S) /\ Len(c) = k + Len(y)
       /\ \A i \in 1 .. k : c[i] = a[i]
       /\ \A i \in 1 .. Len(y) : c[k + i] = y[i]
  <2>1. a \in Seq(S) /\ y \in Seq(S) /\ k = Len(a)
    BY <1>9, <1>11
  <2>. QED BY <1>7, <2>1, Join
<1>13. Len(c) = j
  BY <1>3, <1>11, <1>12
<1>14. /\ t \in Seq(S) /\ Len(t) = j + Len(b)
       /\ \A i \in 1 .. j : t[i] = c[i]
       /\ \A i \in 1 .. Len(b) : t[j + i] = b[i]
  <2>1. c \in Seq(S) /\ b \in Seq(S) /\ j = Len(c)
    BY <1>10, <1>12, <1>13
  <2>2. PICK u : u = c \o b
    OBVIOUS
  <2>3. /\ u \in Seq(S) /\ Len(u) = j + Len(b)
        /\ \A i \in 1 .. j : u[i] = c[i]
        /\ \A i \in 1 .. Len(b) : u[j + i] = b[i]
    BY <2>1, <2>2, Join
  <2>. QED BY <1>8, <2>2, <2>3
<1>15. Len(t) = Len(s) + 1
  BY <1>1, <1>2, <1>3, <1>10, <1>14
<1>16. ASSUME NEW i \in 1 .. k
       PROVE  t[i] = s[i]
  <2>1. i \in 1 .. j /\ 0 + i = i
    BY <1>1, <1>3
  <2>. QED BY <1>9, <1>12, <1>14, <2>1
<1>17. t[k + 1] = x
  <2>1. k + 1 \in 1 .. j /\ 1 \in 1 .. Len(y)
    BY <1>1, <1>3, <1>11
  <2>. QED BY <1>11, <1>12, <1>14, <2>1
<1>18. ASSUME NEW i \in k + 1 .. Len(s)
       PROVE  t[i + 1] = s[i]
  <2>1. i - k \in 1 .. l /\ k + (i - k) = i /\ j + (i - k) = i + 1
    BY <1>1, <1>2, <1>3
  <2>. QED BY <1>10, <1>14, <2>1
<1>. QED BY <1>14, <1>15, <1>16, <1>17, <1>18 DEF IsInsert

\* The list t is s without element k.
IsRemove(s, k, t) ==
  /\ Len(t) = Len(s) - 1
  /\ \A i \in 1 .. k - 1 : t[i] = s[i]
  /\ \A i \in k + 1 .. Len(s) : t[i - 1] = s[i]

\* An element is removed.
LEMMA RemoveList ==
  ASSUME NEW S, NEW s \in Seq(S), NEW k \in 1 .. Len(s), NEW t, t = RemoveAt(s, k)
  PROVE  t \in Seq(S) /\ IsRemove(s, k, t)
<1>1. Len(s) \in Nat
  BY ListElements
<1>2. PICK l : l = Len(s) - k
  OBVIOUS
<1>3. PICK j : j = k + 1
  OBVIOUS
<1>4. PICK m : m = k - 1
  OBVIOUS
<1>5. PICK a : a = SubSeq(s, 1, m)
  OBVIOUS
<1>6. PICK b : b = SubSeq(s, j, Len(s))
  OBVIOUS
<1>7. t = a \o b
  BY <1>3, <1>4, <1>5, <1>6 DEF RemoveAt
<1>8. a \in Seq(S) /\ Len(a) = m /\ \A i \in 1 .. m : a[i] = s[0 + i]
  <2>1. 0 \in 0 .. Len(s) /\ m \in 0 .. Len(s) /\ 0 <= m /\ 1 = 0 + 1 /\ m = m - 0
    BY <1>1, <1>4
  <2>. QED BY <1>5, <2>1, Piece
<1>9. b \in Seq(S) /\ Len(b) = l /\ \A i \in 1 .. l : b[i] = s[k + i]
  <2>1. k \in 0 .. Len(s) /\ Len(s) \in 0 .. Len(s) /\ k <= Len(s)
    BY <1>1
  <2>. QED BY <1>2, <1>3, <1>6, <2>1, Piece
<1>10. /\ t \in Seq(S) /\ Len(t) = m + Len(b)
       /\ \A i \in 1 .. m : t[i] = a[i]
       /\ \A i \in 1 .. Len(b) : t[m + i] = b[i]
  <2>1. a \in Seq(S) /\ b \in Seq(S) /\ m = Len(a)
    BY <1>8, <1>9
  <2>. QED BY <1>7, <2>1, Join
<1>11. Len(t) = Len(s) - 1
  BY <1>1, <1>2, <1>4, <1>9, <1>10
<1>12. ASSUME NEW i \in 1 .. k - 1
       PROVE  t[i] = s[i]
  <2>1. i \in 1 .. m /\ 0 + i = i
    BY <1>1, <1>4
  <2>. QED BY <1>8, <1>10, <2>1
<1>13. ASSUME NEW i \in k + 1 .. Len(s)
       PROVE  t[i - 1] = s[i]
  <2>1. i - k \in 1 .. l /\ k + (i - k) = i /\ m + (i - k) = i - 1
    BY <1>1, <1>2, <1>4
  <2>. QED BY <1>9, <1>10, <2>1
<1>. QED BY <1>10, <1>11, <1>12, <1>13 DEF IsRemove

\* The least number of a non-empty set of positions.
LEMMA MinIsLeast ==
  ASSUME NEW I, I \subseteq Nat, I # {}
  PROVE  Min(I) \in I /\ \A n \in I : Min(I) <= n
<1>1. \E m \in I : \A n \in I : m <= n
  BY LeastElement
<1>. QED BY <1>1 DEF Min

-----------------------------------------------------------------------------
(* The allocator: what its operators do to the list.                        *)

\* What the free list holds.
Chunk == [addr : Nat, size : Nat \ {0}]

\* The chunks of a list.
LEMMA Chunks ==
  ASSUME NEW list \in Seq(Chunk)
  PROVE  /\ Len(list) \in Nat /\ DOMAIN list = 1 .. Len(list)
         /\ \A i \in 1 .. Len(list) :
              list[i] \in Chunk /\ list[i].addr \in Nat /\ list[i].size \in Nat \ {0}
<1>1. /\ Len(list) \in Nat /\ DOMAIN list = 1 .. Len(list)
      /\ \A i \in 1 .. Len(list) : list[i] \in Chunk
  BY ListElements
<1>2. \A c \in Chunk : c.addr \in Nat /\ c.size \in Nat \ {0}
  BY DEF Chunk
<1>. QED BY <1>1, <1>2

\* What my_malloc gives out, for some bytes and for any number of them.
Given == [ptr : {n \in Nat : n > FREE_CHUNK}, size : Nat \ {0}]
Content == Given \cup {HEAD_BLOCK}

\* The data, without upper bounds on addresses.
FileRecord == [block : Given, name : Name, malloc_ptr : Content, size : Size]
OpenRecord == [block : Given, shm : Nat \ {0}, offset : Nat] \cup {CLOSED}
Control == {"ready", "circular", "hang"}
DataRecord == [free : Seq(Chunk), files : Seq(FileRecord), fds : [FD -> OpenRecord],
               control : Control]

\* The data with another list of free chunks.
WithFree(d, list) ==
  [free |-> list, files |-> d.files, fds |-> d.fds, control |-> d.control]

\* Only the list of free chunks changes.
LEMMA FreeOnly ==
  ASSUME NEW d \in DataRecord, NEW list \in Seq(Chunk)
  PROVE  /\ WithFree(d, list) \in DataRecord /\ WithFree(d, d.free) = d
         /\ WithFree(d, list).free = list /\ WithFree(d, list).files = d.files
         /\ WithFree(d, list).fds = d.fds /\ WithFree(d, list).control = d.control
BY DEF WithFree, DataRecord

\* The parts of the data.
LEMMA DataParts ==
  ASSUME NEW d \in DataRecord
  PROVE  /\ d.free \in Seq(Chunk) /\ d.files \in Seq(FileRecord)
         /\ d.fds \in [FD -> OpenRecord] /\ d.control \in Control
BY DEF DataRecord

\* The chunk at k becomes c.
LEMMA ChangeChunk ==
  ASSUME NEW s \in Seq(Chunk), NEW k \in 1 .. Len(s), NEW c \in Chunk,
         NEW t, t = [s EXCEPT ![k] = c]
  PROVE  /\ t \in Seq(Chunk) /\ Len(t) = Len(s) /\ t[k] = c
         /\ \A i \in 1 .. Len(s) : i # k => t[i] = s[i]
OBVIOUS

\* The first chunk that is large enough.
LEMMA FirstLargeEnough ==
  ASSUME NEW list \in Seq(Chunk), NEW size \in Nat,
         NEW k, k = SelectInSeq(list, LAMBDA c : c.size >= size)
  PROVE  \/ k = 0 /\ \A i \in 1 .. Len(list) : list[i].size < size
         \/ k \in 1 .. Len(list) /\ list[k].size >= size
<1>. DEFINE I == {i \in 1 .. Len(list) : list[i].size >= size}
<1>1. k = IF I # {} THEN Min(I) ELSE 0
  BY DEF SelectInSeq
<1>2. I \subseteq Nat
  OBVIOUS
<1>3. CASE I = {}
  <2>1. k = 0
    BY <1>1, <1>3
  <2>2. \A i \in 1 .. Len(list) : list[i].size < size
    <3>. TAKE i \in 1 .. Len(list)
    <3>1. list[i] \in Chunk
      BY ListElements
    <3>2. ~ (list[i].size >= size) /\ list[i].size \in Nat
      BY <1>3, <3>1 DEF Chunk
    <3>. QED BY <3>2
  <2>. QED BY <2>1, <2>2
<1>4. CASE I # {}
  <2>1. k \in I
    BY <1>1, <1>2, <1>4, MinIsLeast
  <2>. QED BY <2>1
<1>. QED BY <1>3, <1>4

\* The list after block has been split off chunk k, for a request of size.
SplitOff(list, k, size, block, new) ==
  /\ list[k].size > size + FREE_CHUNK /\ block.size = size
  /\ new = [list EXCEPT ![k] = [addr |-> block.ptr + size,
                                size |-> list[k].size - size - FREE_CHUNK]]

\* The list after chunk k has been given out as a whole.
GoneWhole(list, k, size, block, new) ==
  /\ list[k].size <= size + FREE_CHUNK /\ block.size = list[k].size
  /\ new = RemoveAt(list, k)

\* The list after chunk k has been given out, as block, for a request of size.
Taken(list, k, size, block, new) ==
  SplitOff(list, k, size, block, new) \/ GoneWhole(list, k, size, block, new)

\* A chunk that is given out is split, or leaves the list.
LEMMA TakeGives ==
  ASSUME NEW d \in DataRecord, NEW k \in 1 .. Len(d.free), NEW size \in Nat \ {0},
         d.free[k].size >= size, NEW r, r = Take(d, k, size)
  PROVE  \E list \in Seq(Chunk) :
           /\ r.d = WithFree(d, list) /\ r.block \in Given
           /\ r.block.ptr = d.free[k].addr + FREE_CHUNK + 1 /\ r.block.size >= size
           /\ Taken(d.free, k, size, r.block, list)
<1>1. d.free \in Seq(Chunk) /\ d.free[k] \in Chunk
  BY DataParts, ListElements
<1>2. PICK addr \in Nat, n \in Nat \ {0} : d.free[k] = [addr |-> addr, size |-> n]
  BY <1>1 DEF Chunk
<1>3. n >= size /\ d.free[k].addr = addr /\ d.free[k].size = n
  BY <1>2
<1>4. CASE n - size - FREE_CHUNK > 0
  <2>1. PICK list : list = [d.free EXCEPT ![k] =
          [addr |-> addr + FREE_CHUNK + 1 + size, size |-> n - size - FREE_CHUNK]]
    OBVIOUS
  <2>2. [addr |-> addr + FREE_CHUNK + 1 + size, size |-> n - size - FREE_CHUNK] \in Chunk
    BY <1>4 DEF Chunk, FREE_CHUNK
  <2>3. list \in Seq(Chunk)
    BY <1>1, <2>1, <2>2, ChangeChunk
  <2>4. r = [block |-> [ptr |-> addr + FREE_CHUNK + 1, size |-> size],
             d |-> [d EXCEPT !.free = list]]
    BY <1>3, <1>4, <2>1 DEF Take
  <2>5. [d EXCEPT !.free = list] = WithFree(d, list)
    BY DEF WithFree, DataRecord
  <2>6. [ptr |-> addr + FREE_CHUNK + 1, size |-> size] \in Given
    BY DEF Given, FREE_CHUNK
  <2>7. n > size + FREE_CHUNK
    BY <1>4 DEF FREE_CHUNK
  <2>8. /\ r.d = WithFree(d, list) /\ r.block.ptr = addr + FREE_CHUNK + 1
        /\ r.block.size = size /\ r.block \in Given
    BY <2>4, <2>5, <2>6
  <2>9. list = [d.free EXCEPT ![k] =
          [addr |-> r.block.ptr + size, size |-> d.free[k].size - size - FREE_CHUNK]]
    BY <1>3, <2>1, <2>8
  <2>10. d.free[k].size > size + FREE_CHUNK /\ r.block.size >= size
    BY <1>3, <2>7, <2>8
  <2>. QED BY <1>3, <2>3, <2>8, <2>9, <2>10 DEF Taken, SplitOff, GoneWhole
<1>5. CASE ~ (n - size - FREE_CHUNK > 0)
  <2>1. PICK list : list = RemoveAt(d.free, k)
    OBVIOUS
  <2>2. list \in Seq(Chunk)
    BY <1>1, <2>1, RemoveList
  <2>3. r = [block |-> [ptr |-> addr + FREE_CHUNK + 1, size |-> n],
             d |-> [d EXCEPT !.free = list]]
    BY <1>3, <1>5, <2>1 DEF Take
  <2>4. [d EXCEPT !.free = list] = WithFree(d, list)
    BY DEF WithFree, DataRecord
  <2>5. [ptr |-> addr + FREE_CHUNK + 1, size |-> n] \in Given
    BY DEF Given, FREE_CHUNK
  <2>6. n <= size + FREE_CHUNK
    BY <1>5 DEF FREE_CHUNK
  <2>7. /\ r.d = WithFree(d, list) /\ r.block.ptr = addr + FREE_CHUNK + 1
        /\ r.block.size = n /\ r.block \in Given
    BY <2>3, <2>4, <2>5
  <2>. QED BY <1>3, <2>1, <2>2, <2>6, <2>7 DEF Taken, SplitOff, GoneWhole
<1>. QED BY <1>4, <1>5

\* The list after block has been given out, of a chunk that is large enough.
TakenFrom(list, size, block, new) ==
  \E k \in 1 .. Len(list) :
    /\ list[k].size >= size /\ block.ptr = list[k].addr + FREE_CHUNK + 1
    /\ Taken(list, k, size, block, new)

\* my_malloc gives out a chunk that is large enough, or there is none.
LEMMA MallocGives ==
  ASSUME NEW d \in DataRecord, d.control = "ready", NEW size \in Nat \ {0},
         NEW r, r = my_malloc(d, size)
  PROVE  \/ r.block = NO_BLOCK /\ r.d = d
         \/ /\ r.block \in Given /\ r.block # NO_BLOCK
            /\ \E new \in Seq(Chunk) :
                 r.d = WithFree(d, new) /\ TakenFrom(d.free, size, r.block, new)
<1>1. d.free \in Seq(Chunk)
  BY DataParts
<1>2. PICK k : k = SelectInSeq(d.free, LAMBDA c : c.size >= size)
  OBVIOUS
<1>3. r = IF k = 0 THEN [block |-> NO_BLOCK, d |-> d] ELSE Take(d, k, size)
  <2>1. size # 0 /\ ~ (size = 0 /\ d.control # "hang")
    OBVIOUS
  <2>2. r = FirstFit(d, size)
    BY <2>1 DEF my_malloc
  <2>. QED BY <1>2, <2>2 DEF FirstFit
<1>4. k = 0 \/ (k \in 1 .. Len(d.free) /\ d.free[k].size >= size)
  BY <1>1, <1>2, FirstLargeEnough
<1>5. CASE k = 0
  BY <1>3, <1>5
<1>6. CASE k \in 1 .. Len(d.free) /\ d.free[k].size >= size
  <2>1. r = Take(d, k, size)
    BY <1>3, <1>6
  <2>2. PICK new \in Seq(Chunk) :
          /\ r.d = WithFree(d, new) /\ r.block \in Given
          /\ r.block.ptr = d.free[k].addr + FREE_CHUNK + 1 /\ r.block.size >= size
          /\ Taken(d.free, k, size, r.block, new)
    BY <1>6, <2>1, TakeGives
  <2>3. TakenFrom(d.free, size, r.block, new)
    BY <1>6, <2>2 DEF TakenFrom
  <2>4. r.block # NO_BLOCK
    BY <2>2 DEF Given, NO_BLOCK, NULL, FREE_CHUNK
  <2>. QED BY <2>2, <2>3, <2>4
<1>. QED BY <1>4, <1>5, <1>6

\* The block ends where the chunk behind the first k starts.
Meets(list, k, block) == k < Len(list) /\ block.ptr + block.size = list[k + 1].addr

\* Chunk k ends where the header of the block starts, or so the code has it.
Follows(list, k, block) ==
  k > 0 /\ list[k].addr + 2 * FREE_CHUNK + list[k].size = block.ptr

\* The list after block has been put behind the first k chunks.
Inserted(list, k, block, new) ==
  \/ /\ Meets(list, k, block)
     /\ new = [list EXCEPT ![k + 1] =
                 [addr |-> block.ptr - FREE_CHUNK - 1,
                  size |-> block.size + FREE_CHUNK + list[k + 1].size]]
  \/ /\ ~ Meets(list, k, block) /\ Follows(list, k, block)
     /\ new = [list EXCEPT ![k] =
                 [addr |-> list[k].addr, size |-> list[k].size + FREE_CHUNK + block.size]]
  \/ /\ ~ Meets(list, k, block) /\ ~ Follows(list, k, block)
     /\ new = InsertAt(list, k + 1,
                 [addr |-> block.ptr - FREE_CHUNK - 1, size |-> block.size])

\* A block is put behind the first k chunks.
LEMMA InsertGives ==
  ASSUME NEW d \in DataRecord, NEW k \in 0 .. Len(d.free), NEW block \in Given,
         NEW r, r = Insert(d, k, block)
  PROVE  \E list \in Seq(Chunk) : r = WithFree(d, list) /\ Inserted(d.free, k, block, list)
<1>1. d.free \in Seq(Chunk) /\ Len(d.free) \in Nat
  BY DataParts, ListElements
<1>2. PICK ptr \in Nat, n \in Nat \ {0} :
        ptr > FREE_CHUNK /\ block = [ptr |-> ptr, size |-> n]
  BY DEF Given
<1>3. \A list : [d EXCEPT !.free = list] = WithFree(d, list)
  BY DEF WithFree, DataRecord
<1>4. CASE k < Len(d.free) /\ block.ptr + block.size = d.free[k + 1].addr
  <2>1. k + 1 \in 1 .. Len(d.free) /\ d.free[k + 1] \in Chunk
    BY <1>1, <1>4, ListElements
  <2>2. PICK c : c = [addr |-> block.ptr - FREE_CHUNK - 1,
                      size |-> block.size + FREE_CHUNK + d.free[k + 1].size]
    OBVIOUS
  <2>3. c \in Chunk
    BY <1>2, <2>1, <2>2 DEF Chunk, FREE_CHUNK
  <2>4. PICK list : list = [d.free EXCEPT ![k + 1] = c]
    OBVIOUS
  <2>5. list \in Seq(Chunk)
    BY <1>1, <2>1, <2>3, <2>4, ChangeChunk
  <2>6. r = [d EXCEPT !.free[k + 1] =
               [addr |-> block.ptr - FREE_CHUNK - 1,
                size |-> block.size + FREE_CHUNK + @.size]]
    BY <1>4 DEF Insert
  <2>7. r = [d EXCEPT !.free = [d.free EXCEPT ![k + 1] = c]]
    BY <2>2, <2>6
  <2>8. r = WithFree(d, list)
    BY <1>3, <2>4, <2>7
  <2>. QED BY <1>4, <2>2, <2>4, <2>5, <2>8 DEF Inserted, Meets, Follows
<1>5. CASE /\ ~ (k < Len(d.free) /\ block.ptr + block.size = d.free[k + 1].addr)
           /\ k > 0 /\ d.free[k].addr + 2 * FREE_CHUNK + d.free[k].size = block.ptr
  <2>1. k \in 1 .. Len(d.free) /\ d.free[k] \in Chunk
    BY <1>1, <1>5, ListElements
  <2>2. PICK c : c = [addr |-> d.free[k].addr,
                      size |-> d.free[k].size + FREE_CHUNK + block.size]
    OBVIOUS
  <2>3. c \in Chunk
    BY <1>2, <2>1, <2>2 DEF Chunk, FREE_CHUNK
  <2>4. PICK list : list = [d.free EXCEPT ![k] = c]
    OBVIOUS
  <2>5. list \in Seq(Chunk)
    BY <1>1, <2>1, <2>3, <2>4, ChangeChunk
  <2>6. [d.free[k] EXCEPT !.size = @ + FREE_CHUNK + block.size] = c
    BY <2>1, <2>2 DEF Chunk
  <2>7. r = [d EXCEPT !.free[k].size = @ + FREE_CHUNK + block.size]
    BY <1>5 DEF Insert
  <2>8. r = [d EXCEPT !.free = [d.free EXCEPT ![k] =
                                 [d.free[k] EXCEPT !.size = @ + FREE_CHUNK + block.size]]]
    BY <2>7
  <2>9. r = WithFree(d, list)
    BY <1>3, <2>4, <2>6, <2>8
  <2>. QED BY <1>5, <2>2, <2>4, <2>5, <2>9 DEF Inserted, Meets, Follows
<1>6. CASE /\ ~ (k < Len(d.free) /\ block.ptr + block.size = d.free[k + 1].addr)
           /\ ~ (k > 0 /\ d.free[k].addr + 2 * FREE_CHUNK + d.free[k].size = block.ptr)
  <2>1. PICK c : c = [addr |-> block.ptr - FREE_CHUNK - 1, size |-> block.size]
    OBVIOUS
  <2>2. c \in Chunk
    BY <1>2, <2>1 DEF Chunk, FREE_CHUNK
  <2>3. PICK list : list = InsertAt(d.free, k + 1, c)
    OBVIOUS
  <2>4. list \in Seq(Chunk)
    BY <1>1, <2>2, <2>3, InsertList
  <2>5. r = [d EXCEPT !.free = list]
    BY <1>6, <2>1, <2>3 DEF Insert
  <2>6. r = WithFree(d, list)
    BY <1>3, <2>5
  <2>. QED BY <1>6, <2>1, <2>3, <2>4, <2>6 DEF Inserted, Meets, Follows
<1>. QED BY <1>4, <1>5, <1>6

\* The first place for ptr.
FirstPlace(list, ptr, k) ==
  k \in Places(list, ptr) /\ \A j \in Places(list, ptr) : k <= j

\* The list after block has been freed: at the first place there is, if any.
Freed(list, block, new) ==
  \/ new = list /\ (block.ptr >= INIT_BUF_SIZE \/ Places(list, block.ptr) = {})
  \/ /\ block.ptr < INIT_BUF_SIZE
     /\ \E k \in 0 .. Len(list) :
          FirstPlace(list, block.ptr, k) /\ Inserted(list, k, block, new)

\* my_free puts a block at the first place there is, or does nothing.
LEMMA FreeGives ==
  ASSUME NEW d \in DataRecord, d.control = "ready", NEW block \in Given,
         NEW r, r = my_free(d, block)
  PROVE  \E new \in Seq(Chunk) : r = WithFree(d, new) /\ Freed(d.free, block, new)
<1>1. Len(d.free) \in Nat
  BY DataParts, ListElements
<1>2. block.ptr \in Nat /\ block.ptr > 0
  BY DEF Given, FREE_CHUNK
<1>3. CASE r = d /\ (block.ptr >= INIT_BUF_SIZE \/ Places(d.free, block.ptr) = {})
  <2>1. d.free \in Seq(Chunk) /\ r = WithFree(d, d.free)
    BY <1>3, FreeOnly, DataParts
  <2>2. Freed(d.free, block, d.free)
    BY <1>3 DEF Freed
  <2>. QED BY <2>1, <2>2
<1>4. CASE block.ptr \in 1 .. INIT_BUF_SIZE - 1 /\ Places(d.free, block.ptr) # {}
  <2>1. PICK k : k = Min(Places(d.free, block.ptr))
    OBVIOUS
  <2>2. Places(d.free, block.ptr) \subseteq 0 .. Len(d.free)
    BY DEF Places
  <2>3. k \in 0 .. Len(d.free) /\ FirstPlace(d.free, block.ptr, k)
    <3>1. Places(d.free, block.ptr) \subseteq Nat
      BY <1>1, <2>2
    <3>2. k \in Places(d.free, block.ptr) /\ \A j \in Places(d.free, block.ptr) : k <= j
      BY <1>4, <2>1, <3>1, MinIsLeast
    <3>. QED BY <2>2, <3>2 DEF FirstPlace
  <2>4. r = Insert(d, k, block)
    <3>1. block # HEAD_BLOCK
      BY DEF Given, HEAD_BLOCK
    <3>. QED BY <1>4, <2>1, <3>1 DEF my_free
  <2>5. block.ptr < INIT_BUF_SIZE
    BY <1>4, ShmAssumption
  <2>6. PICK new \in Seq(Chunk) : r = WithFree(d, new) /\ Inserted(d.free, k, block, new)
    BY <2>3, <2>4, InsertGives
  <2>7. Freed(d.free, block, new)
    BY <2>3, <2>5, <2>6 DEF Freed
  <2>. QED BY <2>6, <2>7
<1>5. CASE block.ptr \notin 1 .. INIT_BUF_SIZE - 1
  <2>1. block.ptr >= INIT_BUF_SIZE
    BY <1>2, <1>5, ShmAssumption
  <2>2. r = d
    BY <1>5 DEF my_free
  <2>. QED BY <1>3, <2>1, <2>2
<1>6. CASE block.ptr \in 1 .. INIT_BUF_SIZE - 1 /\ Places(d.free, block.ptr) = {}
  <2>1. r = d
    BY <1>6 DEF my_free
  <2>. QED BY <1>3, <1>6, <2>1
<1>. QED BY <1>4, <1>5, <1>6

\* The data d with other free chunks.
SameUsers(r, d) == r \in DataRecord /\ r.files = d.files /\ r.fds = d.fds

\* A call that searches the list for ever.
LEMMA HangTyped ==
  ASSUME NEW d \in DataRecord, NEW r, r = Hang(d)
  PROVE  SameUsers(r, d)
BY DEF Hang, SameUsers, DataRecord, Control

\* my_malloc returns a block or NULL, and touches no file or descriptor.
LEMMA MallocTyped ==
  ASSUME NEW d \in DataRecord, NEW size \in Nat, NEW r, r = my_malloc(d, size)
  PROVE  /\ SameUsers(r.d, d)
         /\ \/ r.block = NO_BLOCK
            \/ r.block # NO_BLOCK /\ r.block \in Content
         /\ size # 0 => r.block = NO_BLOCK \/ r.block \in Given
<1>1. CASE size = 0 /\ d.control # "hang"
  <2>1. r = [block |-> HEAD_BLOCK, d |-> d]
    BY <1>1 DEF my_malloc
  <2>2. HEAD_BLOCK # NO_BLOCK
    BY DEF HEAD_BLOCK, NO_BLOCK, NULL, FREE_CHUNK
  <2>. QED BY <1>1, <2>1, <2>2 DEF SameUsers, Content
<1>2. CASE size # 0 /\ d.control = "ready"
  <2>1. CASE r.block = NO_BLOCK /\ r.d = d
    BY <2>1 DEF SameUsers
  <2>2. CASE /\ r.block \in Given /\ r.block # NO_BLOCK
             /\ \E new \in Seq(Chunk) : r.d = WithFree(d, new)
    BY <2>2, FreeOnly DEF SameUsers, Content
  <2>. QED BY <1>2, <2>1, <2>2, MallocGives
<1>3. CASE ~ (size = 0 /\ d.control # "hang") /\ ~ (size # 0 /\ d.control = "ready")
  <2>1. r = [block |-> NO_BLOCK, d |-> Hang(d)]
    BY <1>3 DEF my_malloc
  <2>. QED BY <2>1, HangTyped
<1>. QED BY <1>1, <1>2, <1>3

\* What is left of the list behind the chunks the static head jumps over.
LEMMA HeadTyped ==
  ASSUME NEW d \in DataRecord, NEW k \in 0 .. Len(d.free), NEW r, r = InsertHead(d, k)
  PROVE  SameUsers(r, d)
<1>1. d.free \in Seq(Chunk) /\ Len(d.free) \in Nat /\ d.control \in Control
  BY DataParts, ListElements
<1>2. PICK list : list = IF k = 0 THEN <<>> ELSE SubSeq(d.free, k + 1, Len(d.free))
  OBVIOUS
<1>3. list \in Seq(Chunk)
  <2>1. PICK l : l = Len(d.free) - k
    OBVIOUS
  <2>2. PICK j : j = k + 1
    OBVIOUS
  <2>3. PICK p : p = SubSeq(d.free, j, Len(d.free))
    OBVIOUS
  <2>4. Len(d.free) \in 0 .. Len(d.free) /\ k <= Len(d.free)
    BY <1>1
  <2>5. p \in Seq(Chunk)
    BY <1>1, <2>1, <2>2, <2>3, <2>4, Piece
  <2>. QED BY <1>2, <2>2, <2>3, <2>5
<1>4. PICK c : c = IF k = 0 THEN "circular" ELSE d.control
  OBVIOUS
<1>5. c \in Control
  BY <1>1, <1>4 DEF Control
<1>6. r = [d EXCEPT !.free = list, !.control = c]
  BY <1>2, <1>4 DEF InsertHead
<1>. QED BY <1>3, <1>5, <1>6 DEF SameUsers, DataRecord

\* my_free touches no file or descriptor.
LEMMA FreeTyped ==
  ASSUME NEW d \in DataRecord, NEW block \in Content, NEW r, r = my_free(d, block)
  PROVE  SameUsers(r, d)
<1>1. CASE block \in Given /\ d.control = "ready"
  <2>1. PICK new \in Seq(Chunk) : r = WithFree(d, new)
    BY <1>1, FreeGives
  <2>. QED BY <2>1, FreeOnly DEF SameUsers
<1>2. CASE r = d
  BY <1>2 DEF SameUsers
<1>3. CASE r = Hang(d)
  BY <1>3, HangTyped
<1>4. CASE /\ block = HEAD_BLOCK /\ d.control = "ready" /\ Places(d.free, block.ptr) # {}
           /\ block.ptr \in 1 .. INIT_BUF_SIZE - 1
  <2>1. PICK k : k = Min(Places(d.free, block.ptr))
    OBVIOUS
  <2>2. r = InsertHead(d, k)
    BY <1>4, <2>1 DEF my_free
  <2>3. k \in 0 .. Len(d.free)
    <3>1. Len(d.free) \in Nat
      BY DataParts, ListElements
    <3>2. Places(d.free, block.ptr) \subseteq 0 .. Len(d.free)
      BY DEF Places
    <3>3. Places(d.free, block.ptr) \subseteq Nat
      BY <3>1, <3>2
    <3>4. k \in Places(d.free, block.ptr)
      BY <1>4, <2>1, <3>3, MinIsLeast
    <3>. QED BY <3>2, <3>4
  <2>. QED BY <2>2, <2>3, HeadTyped
<1>5. r = d \/ r = Hang(d) \/ d.control = "ready"
  BY DEF my_free
<1>6. CASE block = HEAD_BLOCK /\ d.control = "ready"
  <2>1. CASE /\ block.ptr \in 1 .. INIT_BUF_SIZE - 1 /\ Places(d.free, block.ptr) # {}
    BY <1>4, <1>6, <2>1
  <2>2. CASE block.ptr \notin 1 .. INIT_BUF_SIZE - 1
    BY <1>2, <2>2 DEF my_free
  <2>3. CASE block.ptr \in 1 .. INIT_BUF_SIZE - 1 /\ Places(d.free, block.ptr) = {}
    BY <1>2, <1>6, <2>3 DEF my_free
  <2>. QED BY <2>1, <2>2, <2>3
<1>. QED BY <1>1, <1>2, <1>3, <1>5, <1>6 DEF Content

\* A descriptor fd that was closed is open on the file whose struct is at shm.
FdOpened(r, d, fd, shm) ==
  /\ d.fds[fd] = CLOSED /\ r.fds[fd] # CLOSED /\ r.fds[fd].shm = shm
  /\ \A g \in FD : g # fd => r.fds[g] = d.fds[g]

\* A file is opened on a descriptor that was closed, or nothing happens.
LEMMA OpenTyped ==
  ASSUME NEW d \in DataRecord, NEW shm \in Nat \ {0}, NEW r, r = open_existing_file(d, shm)
  PROVE  \/ ~ r.ok /\ SameUsers(r.d, d)
         \/ /\ r.ok /\ r.d \in DataRecord /\ r.d.files = d.files
            /\ \E fd \in FD : FdOpened(r.d, d, fd, shm)
<1>. DEFINE fds == {fd \in FD : d.fds[fd] = CLOSED}
<1>1. CASE fds = {}
  BY <1>1 DEF open_existing_file, SameUsers
<1>2. CASE fds # {}
  <2>1. PICK m : m = my_malloc(d, OPEN_SHM_ENTRY + 1)
    OBVIOUS
  <2>2. OPEN_SHM_ENTRY + 1 \in Nat /\ OPEN_SHM_ENTRY + 1 # 0
    BY DEF OPEN_SHM_ENTRY
  <2>3. r = Opened(m, fds, shm)
    BY <1>2, <2>1 DEF open_existing_file
  <2>4. SameUsers(m.d, d) /\ (m.block = NO_BLOCK \/ m.block \in Given)
    BY <2>1, <2>2, MallocTyped
  <2>5. CASE m.block = NO_BLOCK
    BY <2>3, <2>4, <2>5 DEF Opened
  <2>6. CASE m.block # NO_BLOCK
    <3>1. fds \subseteq Nat
      BY ShmAssumption DEF FD
    <3>2. PICK fd : fd = Min(fds)
      OBVIOUS
    <3>3. fd \in FD /\ d.fds[fd] = CLOSED
      BY <1>2, <3>1, <3>2, MinIsLeast
    <3>4. PICK e : e = [block |-> m.block, shm |-> shm, offset |-> 0]
      OBVIOUS
    <3>5. e \in OpenRecord
      BY <2>4, <2>6, <3>4 DEF OpenRecord
    <3>6. e # CLOSED
      BY <3>4 DEF CLOSED, NULL
    <3>7. r = [ok |-> TRUE, d |-> [m.d EXCEPT !.fds[fd] = e]]
      BY <2>3, <2>6, <3>2, <3>4 DEF Opened
    <3>8. PICK new : new = [m.d.fds EXCEPT ![fd] = e]
      OBVIOUS
    <3>9. m.d \in DataRecord /\ m.d.files = d.files /\ m.d.fds = d.fds
      BY <2>4 DEF SameUsers
    <3>10. d.fds \in [FD -> OpenRecord]
      BY DataParts
    <3>11. /\ new \in [FD -> OpenRecord] /\ new[fd] = e
           /\ \A g \in FD : g # fd => new[g] = d.fds[g]
      BY <3>3, <3>5, <3>8, <3>9, <3>10
    <3>12. r.ok /\ r.d = [m.d EXCEPT !.fds = new]
      BY <3>7, <3>8
    <3>13. r.d \in DataRecord /\ r.d.files = d.files /\ r.d.fds = new
      BY <3>9, <3>11, <3>12 DEF DataRecord
    <3>14. r.d.fds[fd].shm = shm
      BY <3>4, <3>11, <3>13
    <3>. QED BY <3>3, <3>6, <3>11, <3>12, <3>13, <3>14 DEF FdOpened
  <2>. QED BY <2>5, <2>6
<1>. QED BY <1>1, <1>2

\* The file e of this name is the new first file.
Added(r, d, name, e) ==
  /\ r \in DataRecord /\ e \in FileRecord /\ e.name = name /\ r.files = <<e>> \o d.files
  /\ r.fds = d.fds \/ \E fd \in FD : FdOpened(r, d, fd, e.block.ptr)

\* The address is that of the block a chunk of the list gives, or is in a chunk
\* with its header.
Starts(list, ptr) ==
  \E i \in 1 .. Len(list) : ptr = list[i].addr + FREE_CHUNK + 1 /\ list[i].size > 1
Inside(list, ptr) ==
  \E i \in 1 .. Len(list) : ptr \in Bytes(list[i].addr, FREE_CHUNK + 1 + list[i].size)

\* A block starts inside its chunk.
LEMMA StartsInside ==
  ASSUME NEW list \in Seq(Chunk), NEW ptr, Starts(list, ptr)
  PROVE  Inside(list, ptr)
<1>1. PICK i \in 1 .. Len(list) : ptr = list[i].addr + FREE_CHUNK + 1 /\ list[i].size > 1
  BY DEF Starts
<1>2. list[i].addr \in Nat /\ list[i].size \in Nat
  BY Chunks
<1>3. ptr \in Bytes(list[i].addr, FREE_CHUNK + 1 + list[i].size)
  BY <1>1, <1>2 DEF Bytes, FREE_CHUNK
<1>. QED BY <1>3 DEF Inside

\* So does a block that is taken after another one, also from what was split off.
LEMMA TakenStartsInside ==
  ASSUME NEW list \in Seq(Chunk), NEW size \in Nat \ {0}, NEW block \in Given,
         NEW new \in Seq(Chunk), TakenFrom(list, size, block, new), NEW ptr, Starts(new, ptr)
  PROVE  Inside(list, ptr)
<1>1. PICK k \in 1 .. Len(list) :
        /\ list[k].size >= size /\ block.ptr = list[k].addr + FREE_CHUNK + 1
        /\ Taken(list, k, size, block, new)
  BY DEF TakenFrom
<1>2. PICK j \in 1 .. Len(new) : ptr = new[j].addr + FREE_CHUNK + 1 /\ new[j].size > 1
  BY DEF Starts
<1>3. /\ Len(list) \in Nat
      /\ \A i \in 1 .. Len(list) : list[i] \in Chunk /\ list[i].addr \in Nat /\ list[i].size \in Nat
  BY Chunks
<1>4. CASE \E i \in 1 .. Len(list) : new[j] = list[i]
  <2>1. Starts(list, ptr)
    BY <1>2, <1>4 DEF Starts
  <2>. QED BY <2>1, StartsInside
<1>5. CASE SplitOff(list, k, size, block, new)
  <2>1. PICK c : c = [addr |-> block.ptr + size, size |-> list[k].size - size - FREE_CHUNK]
    OBVIOUS
  <2>2. list[k].size > size + FREE_CHUNK /\ new = [list EXCEPT ![k] = c]
    BY <1>5, <2>1 DEF SplitOff
  <2>3. c.addr = block.ptr + size /\ c.size = list[k].size - size - FREE_CHUNK
    BY <2>1
  <2>4. c \in Chunk
    <3>1. block.ptr + size \in Nat /\ list[k].size - size - FREE_CHUNK \in Nat \ {0}
      BY <1>1, <1>3, <2>2 DEF FREE_CHUNK
    <3>. QED BY <2>1, <3>1 DEF Chunk
  <2>5. /\ Len(new) = Len(list) /\ new[k] = c
        /\ \A i \in 1 .. Len(list) : i # k => new[i] = list[i]
    BY <2>2, <2>4, ChangeChunk
  <2>6. CASE j = k
    <3>1. ptr = c.addr + FREE_CHUNK + 1 /\ c.size > 1
      BY <1>2, <2>5, <2>6
    <3>2. PICK a \in Nat, n \in Nat : a = list[k].addr /\ n = list[k].size
      BY <1>3
    <3>3. ptr = a + 10 + size /\ n > size + 5
      <4>1. block.ptr = a + 5
        BY <1>1, <3>2 DEF FREE_CHUNK
      <4>2. c.addr = (a + 5) + size /\ c.size = n - size - 4
        BY <2>3, <3>2, <4>1 DEF FREE_CHUNK
      <4>3. ptr = ((a + 5) + size) + 4 + 1 /\ n - size - 4 > 1
        BY <3>1, <4>2 DEF FREE_CHUNK
      <4>. QED BY <4>3
    <3>4. ptr \in a .. a + (5 + n) - 1
      BY <3>3
    <3>5. ptr \in Bytes(list[k].addr, FREE_CHUNK + 1 + list[k].size)
      BY <3>2, <3>4 DEF Bytes, FREE_CHUNK
    <3>. QED BY <3>5 DEF Inside
  <2>. QED BY <1>4, <2>5, <2>6
<1>6. CASE GoneWhole(list, k, size, block, new)
  <2>1. IsRemove(list, k, new)
    <3>1. new = RemoveAt(list, k)
      BY <1>6 DEF GoneWhole
    <3>. QED BY <3>1, RemoveList
  <2>2. CASE j < k
    <3>1. j \in 1 .. k - 1 /\ j \in 1 .. Len(list)
      BY <1>3, <2>2
    <3>2. new[j] = list[j]
      BY <2>1, <3>1 DEF IsRemove
    <3>. QED BY <1>4, <3>1, <3>2
  <2>3. CASE j >= k
    <3>1. j + 1 \in k + 1 .. Len(list) /\ j + 1 \in 1 .. Len(list) /\ (j + 1) - 1 = j
      BY <1>3, <2>1, <2>3 DEF IsRemove
    <3>2. new[(j + 1) - 1] = list[j + 1]
      BY <2>1, <3>1 DEF IsRemove
    <3>. QED BY <1>4, <3>1, <3>2
  <2>. QED BY <1>3, <2>2, <2>3
<1>. QED BY <1>1, <1>5, <1>6 DEF Taken

\* A struct is allocated only where the list can be searched, inside a chunk.
LEMMA StructStarts ==
  ASSUME NEW d \in DataRecord, NEW r, r = my_malloc(d, SHM_ENTRY + 1), r.block # NO_BLOCK
  PROVE  d.control = "ready" /\ Starts(d.free, r.block.ptr)
<1>1. PICK size \in Nat \ {0} : size = SHM_ENTRY + 1 /\ size > 1
  BY DEF SHM_ENTRY
<1>2. r = my_malloc(d, size)
  BY <1>1
<1>3. d.control = "ready"
  BY <1>1, <1>2 DEF my_malloc
<1>4. PICK new \in Seq(Chunk) : r.block \in Given /\ TakenFrom(d.free, size, r.block, new)
  BY <1>2, <1>3, MallocGives
<1>5. PICK k \in 1 .. Len(d.free) :
        d.free[k].size >= size /\ r.block.ptr = d.free[k].addr + FREE_CHUNK + 1
  BY <1>4 DEF TakenFrom
<1>6. d.free[k].size \in Nat
  BY DataParts, Chunks
<1>7. d.free[k].size > 1
  BY <1>1, <1>5, <1>6
<1>. QED BY <1>3, <1>5, <1>7 DEF Starts

\* The file is put in front of the list, and opened if it can be.
LEMMA CreatedTyped ==
  ASSUME NEW d \in DataRecord, NEW name \in Name, NEW size \in Size, NEW data \in Content,
         NEW r, r = my_malloc(d, SHM_ENTRY + 1),
         NEW c, c = Created(data, r, name, size)
  PROVE  \/ SameUsers(c, d)
         \/ \E e \in FileRecord :
              /\ Added(c, d, name, e)
              /\ d.control = "ready" /\ Starts(d.free, e.block.ptr)
<1>1. SameUsers(r.d, d) /\ (r.block = NO_BLOCK \/ r.block \in Given)
  BY MallocTyped DEF SHM_ENTRY
<1>2. CASE r.block = NO_BLOCK
  <2>1. c = my_free(r.d, data)
    BY <1>2 DEF Created
  <2>2. SameUsers(c, r.d)
    BY <1>1, <2>1, FreeTyped DEF SameUsers
  <2>. QED BY <1>1, <2>2 DEF SameUsers
<1>3. CASE r.block # NO_BLOCK
  <2>1. PICK e : e = [block |-> r.block, name |-> name, malloc_ptr |-> data, size |-> size]
    OBVIOUS
  <2>2. e \in FileRecord /\ e.name = name /\ e.block = r.block
    BY <1>1, <1>3, <2>1 DEF FileRecord
  <2>3. r.d \in DataRecord /\ r.d.files = d.files /\ r.d.fds = d.fds
    BY <1>1 DEF SameUsers
  <2>4. PICK files : files = <<e>> \o d.files
    OBVIOUS
  <2>5. files \in Seq(FileRecord)
    BY <2>2, <2>4, DataParts
  <2>6. PICK new : new = [r.d EXCEPT !.files = files]
    OBVIOUS
  <2>7. /\ new \in DataRecord /\ new.files = files /\ new.fds = d.fds
    BY <2>3, <2>5, <2>6 DEF DataRecord
  <2>8. PICK o : o = open_existing_file(new, r.block.ptr)
    OBVIOUS
  <2>9. c = FirstOpened(o, data, r.block)
    BY <1>3, <2>1, <2>3, <2>4, <2>6, <2>8 DEF Created
  <2>10. r.block.ptr \in Nat \ {0}
    BY <1>1, <1>3 DEF Given, FREE_CHUNK
  <2>11. \/ ~ o.ok /\ SameUsers(o.d, new)
         \/ /\ o.ok /\ o.d \in DataRecord /\ o.d.files = new.files
            /\ \E fd \in FD : FdOpened(o.d, new, fd, r.block.ptr)
    BY <2>7, <2>8, <2>10, OpenTyped
  <2>12. d.control = "ready" /\ Starts(d.free, e.block.ptr)
    BY <1>3, <2>2, StructStarts
  <2>13. CASE ~ o.ok /\ SameUsers(o.d, new)
    <3>1. PICK f : f = my_free(o.d, data)
      OBVIOUS
    <3>2. c = my_free(f, r.block)
      BY <2>9, <2>13, <3>1 DEF FirstOpened
    <3>3. SameUsers(f, o.d)
      BY <2>13, <3>1, FreeTyped DEF SameUsers
    <3>4. SameUsers(c, f)
      BY <1>1, <1>3, <3>2, <3>3, FreeTyped DEF SameUsers, Content
    <3>5. c \in DataRecord /\ c.files = files /\ c.fds = d.fds
      BY <2>7, <2>13, <3>3, <3>4 DEF SameUsers
    <3>. QED BY <2>2, <2>4, <2>12, <3>5 DEF Added
  <2>14. CASE /\ o.ok /\ o.d \in DataRecord /\ o.d.files = new.files
              /\ \E fd \in FD : FdOpened(o.d, new, fd, r.block.ptr)
    <3>1. c = o.d
      BY <2>9, <2>14 DEF FirstOpened
    <3>2. PICK fd \in FD : FdOpened(c, new, fd, e.block.ptr)
      BY <2>2, <2>14, <3>1
    <3>3. FdOpened(c, d, fd, e.block.ptr)
      BY <2>7, <3>2 DEF FdOpened
    <3>. QED BY <2>2, <2>4, <2>7, <2>12, <2>14, <3>1, <3>3 DEF Added
  <2>. QED BY <2>11, <2>13, <2>14
<1>. QED BY <1>2, <1>3

\* cfs_open of a new file: there are its content and its struct, in what was free,
\* or nothing changes for files and descriptors.
LEMMA AllocatedTyped ==
  ASSUME NEW d \in DataRecord, NEW name \in Name, NEW size \in Size,
         NEW c, c = Allocated(my_malloc(d, size), name, size)
  PROVE  \/ SameUsers(c, d)
         \/ \E e \in FileRecord : Added(c, d, name, e) /\ Inside(d.free, e.block.ptr)
<1>1. PICK r : r = my_malloc(d, size)
  OBVIOUS
<1>2. size \in Nat
  BY ShmAssumption
<1>3. SameUsers(r.d, d) /\ (r.block = NO_BLOCK \/ r.block \in Content)
  BY <1>1, <1>2, MallocTyped
<1>4. CASE r.block = NO_BLOCK
  BY <1>1, <1>3, <1>4 DEF Allocated
<1>5. CASE r.block # NO_BLOCK /\ r.block \in Content
  <2>1. PICK m : m = my_malloc(r.d, SHM_ENTRY + 1)
    OBVIOUS
  <2>2. c = Created(r.block, m, name, size)
    BY <1>1, <1>5, <2>1 DEF Allocated
  <2>3. r.d \in DataRecord /\ r.d.files = d.files /\ r.d.fds = d.fds
    BY <1>3 DEF SameUsers
  <2>4. \/ SameUsers(c, r.d)
        \/ \E e \in FileRecord :
             /\ Added(c, r.d, name, e)
             /\ r.d.control = "ready" /\ Starts(r.d.free, e.block.ptr)
    BY <1>5, <2>1, <2>2, <2>3, CreatedTyped
  <2>5. CASE SameUsers(c, r.d)
    BY <2>3, <2>5 DEF SameUsers
  <2>6. CASE \E e \in FileRecord :
               /\ Added(c, r.d, name, e)
               /\ r.d.control = "ready" /\ Starts(r.d.free, e.block.ptr)
    <3>1. PICK e \in FileRecord :
            /\ Added(c, r.d, name, e)
            /\ r.d.control = "ready" /\ Starts(r.d.free, e.block.ptr)
      BY <2>6
    <3>2. Added(c, d, name, e)
      BY <2>3, <3>1 DEF Added, FdOpened
    <3>3. Inside(d.free, e.block.ptr)
      <4>1. CASE size = 0
        <5>1. r.d = d
          BY <1>1, <1>5, <4>1 DEF my_malloc
        <5>2. Starts(d.free, e.block.ptr) /\ d.free \in Seq(Chunk)
          BY <3>1, <5>1, DataParts
        <5>. QED BY <5>2, StartsInside
      <4>2. CASE size # 0
        <5>1. d.control = "ready" /\ size \in Nat \ {0}
          BY <1>1, <1>2, <1>5, <4>2 DEF my_malloc
        <5>2. PICK new \in Seq(Chunk) :
                /\ r.block \in Given
                /\ r.d = WithFree(d, new) /\ TakenFrom(d.free, size, r.block, new)
          BY <1>1, <1>5, <5>1, MallocGives
        <5>3. Starts(new, e.block.ptr)
          BY <3>1, <5>2, FreeOnly
        <5>4. d.free \in Seq(Chunk)
          BY DataParts
        <5>. QED BY <5>1, <5>2, <5>3, <5>4, TakenStartsInside
      <4>. QED BY <4>1, <4>2
    <3>. QED BY <3>2, <3>3
  <2>. QED BY <2>4, <2>5, <2>6
<1>. QED BY <1>3, <1>4, <1>5

-----------------------------------------------------------------------------
(* Files and descriptors.                                                   *)

\* The heap and the lists hold what the operators expect, at any length.
ShmTyped == Data \in DataRecord

\* The parts of the data are the variables.
LEMMA Typed ==
  ASSUME ShmTyped
  PROVE  /\ free_list \in Seq(Chunk) /\ shm_list \in Seq(FileRecord)
         /\ open_fd_cache \in [FD -> OpenRecord] /\ control \in Control
BY DEF ShmTyped, Data, DataRecord

\* The file of a name.
LEMMA FindName ==
  ASSUME ShmTyped, NEW name, NEW k, k = Find(name)
  PROVE  \/ k = 0 /\ \A i \in 1 .. Len(shm_list) : shm_list[i].name # name
         \/ k \in 1 .. Len(shm_list) /\ shm_list[k].name = name
<1>. DEFINE I == {i \in 1 .. Len(shm_list) : shm_list[i].name = name}
<1>1. k = IF I # {} THEN Min(I) ELSE 0
  BY DEF Find, SelectInSeq
<1>2. CASE I = {}
  BY <1>1, <1>2
<1>3. CASE I # {}
  <2>1. I \subseteq Nat
    OBVIOUS
  <2>2. k \in I
    BY <1>1, <1>3, <2>1, MinIsLeast
  <2>. QED BY <2>2
<1>. QED BY <1>2, <1>3

\* The file whose struct is at an address.
LEMMA FindStruct ==
  ASSUME ShmTyped, NEW fd, NEW e, e = FileOf(fd),
         NEW i \in 1 .. Len(shm_list), shm_list[i].block.ptr = open_fd_cache[fd].shm
  PROVE  \E k \in 1 .. Len(shm_list) :
           e = shm_list[k] /\ shm_list[k].block.ptr = open_fd_cache[fd].shm
<1>. DEFINE I == {k \in 1 .. Len(shm_list) : shm_list[k].block.ptr = open_fd_cache[fd].shm}
<1>1. e = shm_list[IF I # {} THEN Min(I) ELSE 0]
  BY DEF FileOf, SelectInSeq
<1>2. I \subseteq Nat /\ I # {}
  OBVIOUS
<1>3. Min(I) \in I
  BY <1>2, MinIsLeast
<1>. QED BY <1>1, <1>2, <1>3

\* A call leaves the data it returns, or it hangs and nothing changes for files and
\* descriptors.
LEMMA Returned ==
  ASSUME ShmTyped, NEW d \in DataRecord, Return(d)
  PROVE  /\ d.control # "hang" => Data' = d
         /\ Data' = d \/ SameUsers(Data', Data)
<1>1. CASE d.control # "hang"
  BY <1>1 DEF Return, Data, DataRecord
<1>2. CASE d.control = "hang"
  <2>1. Data' = [free |-> free_list, files |-> shm_list, fds |-> open_fd_cache,
                 control |-> "hang"]
    BY <1>2 DEF Return, Data
  <2>2. Data' \in DataRecord
    BY <2>1, Typed DEF DataRecord, Control
  <2>. QED BY <1>2, <2>1, <2>2 DEF SameUsers, Data
<1>. QED BY <1>1, <1>2

\* Only a call that is made returns.
LEMMA NotHanging == ASSUME NEW d, Return(d) PROVE Data.control # "hang"
BY DEF Return, Data

\* The initial list is one chunk.
LEMMA InitialTyped ==
  /\ InitialList \in Seq(Chunk)
  /\ [free |-> InitialList, files |-> <<>>, fds |-> [fd \in FD |-> CLOSED],
      control |-> "ready"] \in DataRecord
<1>1. [addr |-> FREE_CHUNK, size |-> INIT_BUF_SIZE - 2 * FREE_CHUNK] \in Chunk
  BY ShmAssumption DEF FREE_CHUNK, Chunk
<1>2. InitialList \in Seq(Chunk)
  BY <1>1 DEF InitialList
<1>3. [fd \in FD |-> CLOSED] \in [FD -> OpenRecord]
  BY DEF OpenRecord
<1>. QED BY <1>2, <1>3 DEF DataRecord, Control

\* cfs_open of a file there is.
LEMMA OpenExistingStep ==
  ASSUME ShmTyped, NEW name \in Name, cfs_open_existing(name)
  PROVE  /\ Find(name) \in 1 .. Len(shm_list) /\ shm_list[Find(name)].name = name
         /\ Data' \in DataRecord /\ Data'.files = Data.files
         /\ \/ SameUsers(Data', Data)
            \/ \E fd \in FD : FdOpened(Data', Data, fd, shm_list[Find(name)].block.ptr)
<1>1. PICK k : k = Find(name)
  OBVIOUS
<1>2. shm_list \in Seq(FileRecord) /\ Data \in DataRecord
  BY Typed DEF ShmTyped
<1>3. k \in 1 .. Len(shm_list) /\ shm_list[k].name = name
  <2>1. k # 0
    BY <1>1 DEF cfs_open_existing
  <2>. QED BY <1>1, <2>1, FindName
<1>4. PICK shm : shm = shm_list[k].block.ptr
  OBVIOUS
<1>5. shm \in Nat \ {0}
  <2>1. shm_list[k] \in FileRecord
    BY <1>2, <1>3, ListElements
  <2>. QED BY <1>4, <2>1 DEF FileRecord, Given, FREE_CHUNK
<1>6. PICK r : r = open_existing_file(Data, shm)
  OBVIOUS
<1>7. \/ SameUsers(r.d, Data)
      \/ /\ r.d \in DataRecord /\ r.d.files = Data.files
         /\ \E fd \in FD : FdOpened(r.d, Data, fd, shm)
  BY <1>2, <1>5, <1>6, OpenTyped
<1>8. r.d \in DataRecord
  BY <1>7 DEF SameUsers
<1>9. Data' = r.d \/ SameUsers(Data', Data)
  <2>1. Return(r.d)
    BY <1>1, <1>4, <1>6 DEF cfs_open_existing
  <2>. QED BY <1>8, <2>1, Returned
<1>10. /\ Data' \in DataRecord /\ Data'.files = Data.files
       /\ SameUsers(Data', Data) \/ \E fd \in FD : FdOpened(Data', Data, fd, shm)
  BY <1>7, <1>9 DEF SameUsers
<1>. QED BY <1>1, <1>3, <1>4, <1>10

\* cfs_open of a new file.
LEMMA OpenNewStep ==
  ASSUME ShmTyped, NEW name \in Name, NEW size \in Size, cfs_open_new(name, size)
  PROVE  /\ \A i \in 1 .. Len(shm_list) : shm_list[i].name # name
         /\ \/ SameUsers(Data', Data)
            \/ \E e \in FileRecord :
                 Added(Data', Data, name, e) /\ Inside(free_list, e.block.ptr)
<1>1. shm_list \in Seq(FileRecord) /\ Data \in DataRecord
  BY Typed DEF ShmTyped
<1>2. \A i \in 1 .. Len(shm_list) : shm_list[i].name # name
  <2>1. PICK k : k = Find(name)
    OBVIOUS
  <2>2. k = 0
    BY <2>1 DEF cfs_open_new
  <2>3. \/ k = 0 /\ \A i \in 1 .. Len(shm_list) : shm_list[i].name # name
        \/ k \in 1 .. Len(shm_list) /\ shm_list[k].name = name
    BY <2>1, FindName
  <2>. QED BY <2>2, <2>3
<1>3. PICK c : c = Allocated(my_malloc(Data, size), name, size)
  OBVIOUS
<1>4. \/ SameUsers(c, Data)
      \/ \E e \in FileRecord : Added(c, Data, name, e) /\ Inside(free_list, e.block.ptr)
  <2>1. Data.free = free_list
    BY DEF Data
  <2>. QED BY <1>1, <1>3, <2>1, AllocatedTyped
<1>5. c \in DataRecord
  BY <1>4 DEF SameUsers, Added
<1>6. Data' = c \/ SameUsers(Data', Data)
  <2>1. Return(c)
    BY <1>3 DEF cfs_open_new
  <2>. QED BY <1>5, <2>1, Returned
<1>. QED BY <1>2, <1>4, <1>6

\* cfs_close.
LEMMA CloseStep ==
  ASSUME ShmTyped, NEW fd \in FD, cfs_close(fd)
  PROVE  \/ SameUsers(Data', Data)
         \/ /\ Data' \in DataRecord /\ Data'.files = Data.files
            /\ Data'.fds = [Data.fds EXCEPT ![fd] = CLOSED]
<1>1. Data \in DataRecord /\ open_fd_cache \in [FD -> OpenRecord]
  BY Typed DEF ShmTyped
<1>2. open_fd_cache[fd].block \in Given
  BY <1>1 DEF cfs_close, OpenRecord
<1>3. PICK f : f = my_free(Data, open_fd_cache[fd].block)
  OBVIOUS
<1>4. f \in DataRecord /\ f.files = Data.files /\ f.fds = Data.fds
  BY <1>1, <1>2, <1>3, FreeTyped DEF SameUsers, Content
<1>5. PICK fds : fds = [f.fds EXCEPT ![fd] = CLOSED]
  OBVIOUS
<1>6. PICK c : c = [f EXCEPT !.fds = fds]
  OBVIOUS
<1>7. fds \in [FD -> OpenRecord]
  BY <1>4, <1>5, DataParts DEF OpenRecord
<1>8. c \in DataRecord /\ c.files = Data.files /\ c.fds = fds
  BY <1>4, <1>6, <1>7 DEF DataRecord
<1>9. c = [f EXCEPT !.fds[fd] = CLOSED]
  BY <1>5, <1>6
<1>10. Return(c)
  BY <1>3, <1>9 DEF cfs_close
<1>11. Data' = c \/ SameUsers(Data', Data)
  BY <1>8, <1>10, Returned
<1>. QED BY <1>4, <1>5, <1>8, <1>11

\* Descriptor fd stays on its file.
FdMoved(r, d, fd) ==
  /\ r \in DataRecord /\ r.files = d.files
  /\ d.fds[fd] # CLOSED /\ r.fds[fd] # CLOSED /\ r.fds[fd].shm = d.fds[fd].shm
  /\ \A g \in FD : g # fd => r.fds[g] = d.fds[g]

\* The offset of an open descriptor is set.
LEMMA OffsetSet ==
  ASSUME ShmTyped, NEW fd \in FD, open_fd_cache[fd] # CLOSED, NEW offset \in Nat,
         Return([Data EXCEPT !.fds[fd].offset = offset])
  PROVE  FdMoved(Data', Data, fd)
<1>1. Data \in DataRecord /\ Data.fds \in [FD -> OpenRecord] /\ Data.fds[fd] # CLOSED
  BY Typed DEF ShmTyped, Data
<1>2. PICK e : e = [Data.fds[fd] EXCEPT !.offset = offset]
  OBVIOUS
<1>3. e \in OpenRecord /\ e # CLOSED /\ e.shm = Data.fds[fd].shm
  BY <1>1, <1>2 DEF OpenRecord, CLOSED, NULL
<1>4. PICK fds : fds = [Data.fds EXCEPT ![fd] = e]
  OBVIOUS
<1>5. fds \in [FD -> OpenRecord] /\ fds[fd] = e /\ \A g \in FD : g # fd => fds[g] = Data.fds[g]
  BY <1>1, <1>3, <1>4
<1>6. PICK c : c = [Data EXCEPT !.fds = fds]
  OBVIOUS
<1>7. c \in DataRecord /\ c.files = Data.files /\ c.fds = fds
  BY <1>1, <1>5, <1>6 DEF DataRecord
<1>8. c = [Data EXCEPT !.fds = [Data.fds EXCEPT ![fd] =
                                  [Data.fds[fd] EXCEPT !.offset = offset]]]
  BY <1>2, <1>4, <1>6
<1>9. Return(c)
  BY <1>8
<1>10. Data' = c
  <2>1. c.control = Data.control
    BY <1>6
  <2>2. c.control # "hang"
    BY <1>9, <2>1, NotHanging
  <2>. QED BY <1>7, <1>9, <2>2, Returned
<1>. QED BY <1>1, <1>3, <1>5, <1>7, <1>10 DEF FdMoved

\* cfs_read, cfs_write and cfs_seek.
LEMMA MoveStep ==
  ASSUME ShmTyped, NEW fd \in FD, cfs_access(fd) \/ cfs_seek(fd)
  PROVE  FdMoved(Data', Data, fd)
<1>1. open_fd_cache[fd] # CLOSED
  BY DEF cfs_access, cfs_seek
<1>2. CASE cfs_access(fd)
  <2>1. open_fd_cache \in [FD -> OpenRecord] /\ Data.fds = open_fd_cache
    BY Typed DEF Data
  <2>2. Data.fds[fd].offset + 1 \in Nat
    BY <1>1, <2>1 DEF OpenRecord
  <2>3. Return([Data EXCEPT !.fds[fd].offset = Data.fds[fd].offset + 1])
    BY <1>2 DEF cfs_access
  <2>. QED BY <1>1, <2>2, <2>3, OffsetSet
<1>3. CASE cfs_seek(fd)
  <2>1. PICK offset \in 0 .. FileOf(fd).size - 1 :
          Return([Data EXCEPT !.fds[fd].offset = offset])
    BY <1>3 DEF cfs_seek
  <2>2. offset \in Nat
    OBVIOUS
  <2>. QED BY <1>1, <2>1, <2>2, OffsetSet
<1>. QED BY <1>2, <1>3

\* cfs_remove.
LEMMA RemoveStep ==
  ASSUME ShmTyped, NEW name \in Name, cfs_remove(name)
  PROVE  \/ SameUsers(Data', Data)
         \/ \E k \in 1 .. Len(shm_list) :
           /\ shm_list[k].name = name
           /\ \A fd \in FD : open_fd_cache[fd].shm # shm_list[k].block.ptr
           /\ Data' \in DataRecord /\ Data'.fds = Data.fds
           /\ Data'.files = RemoveAt(shm_list, k)
<1>1. shm_list \in Seq(FileRecord) /\ Data \in DataRecord /\ Data.files = shm_list
  BY Typed DEF ShmTyped, Data
<1>2. PICK k : k = Find(name)
  OBVIOUS
<1>3. k \in 1 .. Len(shm_list) /\ shm_list[k].name = name
  <2>1. k # 0
    BY <1>2 DEF cfs_remove
  <2>. QED BY <1>2, <2>1, FindName
<1>4. \A fd \in FD : open_fd_cache[fd].shm # shm_list[k].block.ptr
  BY <1>2 DEF cfs_remove
<1>5. shm_list[k].block \in Given
  <2>1. shm_list[k] \in FileRecord
    BY <1>1, <1>3, ListElements
  <2>. QED BY <2>1 DEF FileRecord
<1>6. PICK f : f = my_free(Data, shm_list[k].block)
  OBVIOUS
<1>7. f \in DataRecord /\ f.files = shm_list /\ f.fds = Data.fds
  BY <1>1, <1>5, <1>6, FreeTyped DEF SameUsers, Content
<1>8. PICK files : files = RemoveAt(shm_list, k)
  OBVIOUS
<1>9. files \in Seq(FileRecord)
  BY <1>1, <1>3, <1>8, RemoveList
<1>10. PICK c : c = [f EXCEPT !.files = files]
  OBVIOUS
<1>11. c \in DataRecord /\ c.files = files /\ c.fds = Data.fds
  BY <1>7, <1>9, <1>10 DEF DataRecord
<1>12. Return(c)
  <2>1. Return([f EXCEPT !.files = RemoveAt(f.files, k)])
    BY <1>2, <1>6 DEF cfs_remove
  <2>. QED BY <1>7, <1>8, <1>10, <2>1
<1>13. Data' = c \/ SameUsers(Data', Data)
  BY <1>11, <1>12, Returned
<1>. QED BY <1>3, <1>4, <1>8, <1>11, <1>13

\* cfs_format.
LEMMA FormatStep ==
  ASSUME cfs_format
  PROVE  /\ Data' \in DataRecord /\ Data'.files = <<>>
         /\ Data'.fds = [fd \in FD |-> CLOSED]
<1>1. Data' = [free |-> InitialList, files |-> <<>>, fds |-> [fd \in FD |-> CLOSED],
               control |-> "ready"]
  BY DEF cfs_format, Data
<1>. QED BY <1>1, InitialTyped

\* No two files have one name, and an open descriptor is on a file of the list.
Linked(d) ==
  /\ \A i, j \in 1 .. Len(d.files) : d.files[i].name = d.files[j].name => i = j
  /\ \A fd \in FD : d.fds[fd] # CLOSED =>
       \E i \in 1 .. Len(d.files) : d.files[i].block.ptr = d.fds[fd].shm

\* A list with a new first element.
LEMMA InFront ==
  ASSUME NEW S, NEW s \in Seq(S), NEW x \in S, NEW t, t = <<x>> \o s
  PROVE  /\ t \in Seq(S) /\ Len(t) = Len(s) + 1 /\ t[1] = x
         /\ \A i \in 1 .. Len(s) : t[i + 1] = s[i]
<1>1. Len(s) \in Nat
  BY ListElements
<1>2. PICK y : y = <<x>>
  OBVIOUS
<1>3. y \in Seq(S) /\ Len(y) = 1 /\ y[1] = x
  BY <1>2, Single
<1>4. PICK n : n = 1
  OBVIOUS
<1>5. n = Len(y) /\ t = y \o s
  BY <1>2, <1>3, <1>4
<1>6. /\ t \in Seq(S) /\ Len(t) = n + Len(s)
      /\ \A i \in 1 .. n : t[i] = y[i]
      /\ \A i \in 1 .. Len(s) : t[n + i] = s[i]
  BY <1>3, <1>5, Join
<1>7. ASSUME NEW i \in 1 .. Len(s)
      PROVE  t[i + 1] = s[i]
  <2>1. i + 1 = n + i
    BY <1>1, <1>4
  <2>. QED BY <1>6, <2>1
<1>. QED BY <1>1, <1>3, <1>4, <1>6, <1>7

\* A new file, with a name of its own, keeps the lists linked.
LEMMA AddedLinked ==
  ASSUME NEW d \in DataRecord, Linked(d), NEW name, NEW e, NEW r, Added(r, d, name, e),
         \A i \in 1 .. Len(d.files) : d.files[i].name # name
  PROVE  Linked(r)
<1>1. d.files \in Seq(FileRecord) /\ Len(d.files) \in Nat
  BY DataParts, ListElements
<1>2. e \in FileRecord /\ e.name = name
  BY DEF Added
<1>3. PICK t : t = <<e>> \o d.files
  OBVIOUS
<1>4. /\ r.files = t /\ t \in Seq(FileRecord) /\ Len(t) = Len(d.files) + 1 /\ t[1] = e
      /\ \A i \in 1 .. Len(d.files) : t[i + 1] = d.files[i]
  <2>1. r.files = t
    BY <1>3 DEF Added
  <2>. QED BY <1>1, <1>2, <1>3, <2>1, InFront
<1>5. \A i \in 1 .. Len(t) : \/ i = 1 /\ t[i] = e
                             \/ i - 1 \in 1 .. Len(d.files) /\ t[i] = d.files[i - 1]
  <2>. TAKE i \in 1 .. Len(t)
  <2>1. i # 1 => i - 1 \in 1 .. Len(d.files) /\ (i - 1) + 1 = i
    BY <1>1, <1>4
  <2>. QED BY <1>4, <2>1
<1>6. ASSUME NEW i \in 1 .. Len(t), NEW j \in 1 .. Len(t), t[i].name = t[j].name
      PROVE  i = j
  <2>1. CASE i = 1 \/ j = 1
    BY <1>2, <1>5, <1>6, <2>1
  <2>2. CASE i # 1 /\ j # 1
    <3>1. /\ i - 1 \in 1 .. Len(d.files) /\ t[i] = d.files[i - 1]
          /\ j - 1 \in 1 .. Len(d.files) /\ t[j] = d.files[j - 1]
      BY <1>5, <2>2
    <3>2. d.files[i - 1].name = d.files[j - 1].name
      BY <1>6, <3>1
    <3>3. i - 1 = j - 1
      BY <3>1, <3>2 DEF Linked
    <3>. QED BY <1>4, <3>3
  <2>. QED BY <2>1, <2>2
<1>7. ASSUME NEW fd \in FD, r.fds[fd] # CLOSED
      PROVE  \E i \in 1 .. Len(t) : t[i].block.ptr = r.fds[fd].shm
  <2>1. \/ r.fds[fd] = d.fds[fd]
        \/ r.fds[fd].shm = e.block.ptr
    BY DEF Added, FdOpened
  <2>2. CASE r.fds[fd] = d.fds[fd]
    <3>1. PICK i \in 1 .. Len(d.files) : d.files[i].block.ptr = d.fds[fd].shm
      BY <1>7, <2>2 DEF Linked
    <3>2. i + 1 \in 1 .. Len(t)
      BY <1>1, <1>4
    <3>. QED BY <1>4, <2>2, <3>1, <3>2
  <2>3. CASE r.fds[fd].shm = e.block.ptr
    <3>1. 1 \in 1 .. Len(t)
      BY <1>1, <1>4
    <3>. QED BY <1>4, <2>3, <3>1
  <2>. QED BY <2>1, <2>2, <2>3
<1>. QED BY <1>4, <1>6, <1>7 DEF Linked

\* A file no descriptor is on can be removed.
LEMMA RemovedLinked ==
  ASSUME NEW d \in DataRecord, Linked(d), NEW k \in 1 .. Len(d.files),
         \A fd \in FD : d.fds[fd].shm # d.files[k].block.ptr,
         NEW r, r.files = RemoveAt(d.files, k), r.fds = d.fds
  PROVE  Linked(r)
<1>1. d.files \in Seq(FileRecord) /\ Len(d.files) \in Nat
  BY DataParts, ListElements
<1>2. PICK t : t = RemoveAt(d.files, k)
  OBVIOUS
<1>3. /\ t \in Seq(FileRecord) /\ Len(t) = Len(d.files) - 1
      /\ \A i \in 1 .. k - 1 : t[i] = d.files[i]
      /\ \A i \in k + 1 .. Len(d.files) : t[i - 1] = d.files[i]
  <2>1. PICK s \in Seq(FileRecord) : s = d.files
    BY <1>1
  <2>2. k \in 1 .. Len(s) /\ t = RemoveAt(s, k)
    BY <1>2, <2>1
  <2>3. t \in Seq(FileRecord) /\ IsRemove(s, k, t)
    BY <2>2, RemoveList
  <2>. QED BY <2>1, <2>3 DEF IsRemove
<1>4. \A i \in 1 .. Len(t) :
        \/ i < k /\ i \in 1 .. Len(d.files) /\ t[i] = d.files[i]
        \/ i >= k /\ i + 1 \in 1 .. Len(d.files) /\ t[i] = d.files[i + 1]
  <2>. TAKE i \in 1 .. Len(t)
  <2>1. CASE i < k
    <3>1. i \in 1 .. k - 1 /\ i \in 1 .. Len(d.files)
      BY <1>1, <2>1
    <3>. QED BY <1>3, <2>1, <3>1
  <2>2. CASE i >= k
    <3>1. i + 1 \in k + 1 .. Len(d.files) /\ (i + 1) - 1 = i
      BY <1>1, <1>3, <2>2
    <3>2. i + 1 \in 1 .. Len(d.files)
      BY <1>1, <3>1
    <3>. QED BY <1>3, <2>2, <3>1, <3>2
  <2>. QED BY <1>1, <1>3, <2>1, <2>2
<1>5. ASSUME NEW i \in 1 .. Len(t), NEW j \in 1 .. Len(t), t[i].name = t[j].name
      PROVE  i = j
  <2>1. PICK m \in 1 .. Len(d.files) :
          t[i] = d.files[m] /\ ((i < k /\ m = i) \/ (i >= k /\ m = i + 1))
    BY <1>4
  <2>2. PICK n \in 1 .. Len(d.files) :
          t[j] = d.files[n] /\ ((j < k /\ n = j) \/ (j >= k /\ n = j + 1))
    BY <1>4
  <2>3. m = n
    BY <1>5, <2>1, <2>2 DEF Linked
  <2>. QED BY <1>1, <1>3, <2>1, <2>2, <2>3
<1>6. ASSUME NEW fd \in FD, r.fds[fd] # CLOSED
      PROVE  \E i \in 1 .. Len(t) : t[i].block.ptr = r.fds[fd].shm
  <2>1. PICK i \in 1 .. Len(d.files) : d.files[i].block.ptr = d.fds[fd].shm
    BY <1>6 DEF Linked
  <2>2. i # k
    BY <2>1
  <2>3. CASE i < k
    <3>1. i \in 1 .. k - 1 /\ i \in 1 .. Len(t)
      BY <1>1, <1>3, <2>3
    <3>. QED BY <1>3, <2>1, <3>1
  <2>4. CASE i > k
    <3>1. i \in k + 1 .. Len(d.files) /\ i - 1 \in 1 .. Len(t)
      BY <1>1, <1>3, <2>4
    <3>. QED BY <1>3, <2>1, <3>1
  <2>. QED BY <2>2, <2>3, <2>4
<1>. QED BY <1>2, <1>5, <1>6 DEF Linked

\* A descriptor is opened on a file of the list.
LEMMA OpenedLinked ==
  ASSUME NEW d, Linked(d), NEW fd \in FD, NEW k \in 1 .. Len(d.files),
         NEW r, FdOpened(r, d, fd, d.files[k].block.ptr), r.files = d.files
  PROVE  Linked(r)
<1>1. ASSUME NEW g \in FD, r.fds[g] # CLOSED
      PROVE  \E i \in 1 .. Len(r.files) : r.files[i].block.ptr = r.fds[g].shm
  <2>1. CASE g = fd
    BY <2>1 DEF FdOpened
  <2>2. CASE g # fd
    BY <1>1, <2>2 DEF FdOpened, Linked
  <2>. QED BY <2>1, <2>2
<1>. QED BY <1>1 DEF Linked

-----------------------------------------------------------------------------
(* The heap and the lists, after every step.                                *)

\* Before the first call.
LEMMA ShmTypedInit == Init => ShmTyped /\ Linked(Data)
<1>. SUFFICES ASSUME Init PROVE ShmTyped /\ Linked(Data)
  OBVIOUS
<1>1. Data = [free |-> InitialList, files |-> <<>>, fds |-> [fd \in FD |-> CLOSED],
              control |-> "ready"]
  BY DEF Init, Data
<1>2. Linked(Data)
  BY <1>1 DEF Linked
<1>. QED BY <1>1, <1>2, InitialTyped DEF ShmTyped

\* Every call keeps the heap typed and the lists linked.
LEMMA ShmTypedStep ==
  ASSUME ShmTyped, Linked(Data), [Next]_vars
  PROVE  ShmTyped' /\ Linked(Data)'
<1>. SUFFICES Data' \in DataRecord /\ Linked(Data')
  BY DEF ShmTyped
<1>1. Data \in DataRecord /\ Data.files = shm_list /\ Data.fds = open_fd_cache
  BY DEF ShmTyped, Data
<1>0. ASSUME SameUsers(Data', Data)
      PROVE  Data' \in DataRecord /\ Linked(Data')
  BY <1>0 DEF SameUsers, Linked
<1>2. ASSUME NEW name \in Name, cfs_open_existing(name)
      PROVE  Data' \in DataRecord /\ Linked(Data')
  <2>1. PICK k \in 1 .. Len(Data.files) :
          /\ Data' \in DataRecord /\ Data'.files = Data.files
          /\ \/ SameUsers(Data', Data)
             \/ \E fd \in FD : FdOpened(Data', Data, fd, Data.files[k].block.ptr)
    BY <1>1, <1>2, OpenExistingStep
  <2>2. CASE SameUsers(Data', Data)
    BY <1>0, <2>2
  <2>3. CASE \E fd \in FD : FdOpened(Data', Data, fd, Data.files[k].block.ptr)
    BY <2>1, <2>3, OpenedLinked
  <2>. QED BY <2>1, <2>2, <2>3
<1>3. ASSUME NEW name \in Name, NEW size \in Size, cfs_open_new(name, size)
      PROVE  Data' \in DataRecord /\ Linked(Data')
  <2>1. /\ \A i \in 1 .. Len(Data.files) : Data.files[i].name # name
        /\ SameUsers(Data', Data) \/ \E e \in FileRecord : Added(Data', Data, name, e)
    BY <1>1, <1>3, OpenNewStep
  <2>2. CASE SameUsers(Data', Data)
    BY <1>0, <2>2
  <2>3. CASE \E e \in FileRecord : Added(Data', Data, name, e)
    <3>1. PICK e \in FileRecord : Added(Data', Data, name, e)
      BY <2>3
    <3>2. Linked(Data')
      BY <1>1, <2>1, <3>1, AddedLinked
    <3>. QED BY <3>1, <3>2 DEF Added
  <2>. QED BY <2>1, <2>2, <2>3
<1>4. ASSUME NEW name \in Name, cfs_remove(name)
      PROVE  Data' \in DataRecord /\ Linked(Data')
  <2>. SUFFICES ASSUME ~ SameUsers(Data', Data)
                PROVE  Data' \in DataRecord /\ Linked(Data')
    BY <1>0
  <2>1. PICK k \in 1 .. Len(Data.files) :
          /\ \A fd \in FD : Data.fds[fd].shm # Data.files[k].block.ptr
          /\ Data' \in DataRecord /\ Data'.fds = Data.fds
          /\ Data'.files = RemoveAt(Data.files, k)
    BY <1>1, <1>4, RemoveStep
  <2>2. PICK r : r = Data'
    OBVIOUS
  <2>3. Linked(r)
    BY <1>1, <2>1, <2>2, RemovedLinked
  <2>. QED BY <2>1, <2>2, <2>3
<1>5. ASSUME NEW fd \in FD, cfs_close(fd)
      PROVE  Data' \in DataRecord /\ Linked(Data')
  <2>. SUFFICES ASSUME ~ SameUsers(Data', Data)
                PROVE  Data' \in DataRecord /\ Linked(Data')
    BY <1>0
  <2>1. /\ Data' \in DataRecord /\ Data'.files = Data.files
        /\ Data'.fds = [Data.fds EXCEPT ![fd] = CLOSED]
    BY <1>5, CloseStep
  <2>2. Data.fds \in [FD -> OpenRecord]
    BY <1>1, DataParts
  <2>3. \A g \in FD : Data'.fds[g] # CLOSED => Data'.fds[g] = Data.fds[g]
    BY <2>1, <2>2
  <2>. QED BY <2>1, <2>3 DEF Linked
<1>6. ASSUME NEW fd \in FD, cfs_access(fd) \/ cfs_seek(fd)
      PROVE  Data' \in DataRecord /\ Linked(Data')
  <2>1. FdMoved(Data', Data, fd)
    BY <1>6, MoveStep
  <2>2. \A g \in FD : Data'.fds[g] # CLOSED =>
          Data.fds[g] # CLOSED /\ Data'.fds[g].shm = Data.fds[g].shm
    BY <2>1 DEF FdMoved
  <2>. QED BY <2>1, <2>2 DEF Linked, FdMoved
<1>7. ASSUME cfs_format
      PROVE  Data' \in DataRecord /\ Linked(Data')
  <2>1. /\ Data' \in DataRecord /\ Data'.files = <<>>
        /\ Data'.fds = [fd \in FD |-> CLOSED]
    BY <1>7, FormatStep
  <2>. QED BY <2>1 DEF Linked
<1>8. ASSUME UNCHANGED vars
      PROVE  Data' \in DataRecord /\ Linked(Data')
  <2>1. Data' = Data
    BY <1>8 DEF vars, Data
  <2>. QED BY <1>1, <2>1
<1>. QED BY <1>2, <1>3, <1>4, <1>5, <1>6, <1>7, <1>8 DEF Next

\* For every size of the buffer and of files: the free list holds chunks of at
\* least one byte, every struct in use has the block my_malloc gave it, and an
\* open descriptor is on a file of the list, of which no two have one name
\* (shared-mem.c:136-270, my_malloc.c:39-140).
THEOREM ShmIsTyped == Spec => [](ShmTyped /\ Linked(Data))
<1>. QED BY ShmTypedInit, ShmTypedStep, PTL DEF Spec

-----------------------------------------------------------------------------
(* To allocate and to free.                                                 *)

\* There is a place for every address at which no free chunk starts.
LEMMA PlaceExists ==
  ASSUME NEW list \in Seq(Chunk), NEW ptr \in Nat,
         \A i \in 1 .. Len(list) : list[i].addr # ptr
  PROVE  Places(list, ptr) # {}
<1>1. Len(list) \in Nat /\ \A i \in 1 .. Len(list) : list[i] \in Chunk
  BY ListElements
<1>. DEFINE I == {k \in 0 .. Len(list) : k < Len(list) => ptr < list[k + 1].addr}
<1>2. I \subseteq Nat /\ Len(list) \in I
  BY <1>1
<1>3. PICK k \in I : \A j \in I : k <= j
  BY <1>2, LeastElement
<1>4. ASSUME k > 0
      PROVE  list[k].addr < ptr
  <2>1. k - 1 \in 0 .. Len(list) /\ (k - 1) + 1 = k /\ k - 1 < Len(list) /\ ~ (k <= k - 1)
    BY <1>1, <1>4
  <2>2. ~ (ptr < list[k].addr)
    <3>1. k - 1 \notin I
      BY <1>3, <2>1
    <3>. QED BY <2>1, <3>1
  <2>3. k \in 1 .. Len(list)
    BY <1>1, <1>4
  <2>4. list[k].addr \in Nat
    BY <1>1, <2>3 DEF Chunk
  <2>. QED BY <2>2, <2>3, <2>4
<1>5. k \in Places(list, ptr)
  BY <1>4 DEF Places
<1>. QED BY <1>5

\* What a list can serve, by its positions.
LEMMA ServesAt ==
  ASSUME NEW list \in Seq(Chunk), NEW n
  PROVE  Serves(list, n) <=> \E i \in 1 .. Len(list) : list[i].size >= n
BY ListElements DEF Serves

\* Whatever can be allocated from a list can be from one whose chunks are larger.
LEMMA LargerServes ==
  ASSUME NEW list \in Seq(Chunk), NEW new \in Seq(Chunk), NEW n \in Nat, Serves(list, n),
         \A i \in 1 .. Len(list) : \E j \in 1 .. Len(new) : new[j].size >= list[i].size
  PROVE  Serves(new, n)
<1>1. PICK i \in 1 .. Len(list) : list[i].size >= n
  BY ServesAt
<1>2. PICK j \in 1 .. Len(new) : new[j].size >= list[i].size
  OBVIOUS
<1>3. list[i] \in Chunk /\ new[j] \in Chunk
  BY ListElements
<1>4. list[i].size \in Nat /\ new[j].size \in Nat
  BY <1>3 DEF Chunk
<1>5. new[j].size >= n
  BY <1>1, <1>2, <1>4
<1>. QED BY <1>5, ServesAt

\* A block that is put into a list makes no chunk smaller, and is in one.
LEMMA InsertGrows ==
  ASSUME NEW list \in Seq(Chunk), NEW k \in 0 .. Len(list), NEW block \in Given,
         NEW new \in Seq(Chunk), Inserted(list, k, block, new)
  PROVE  /\ \A i \in 1 .. Len(list) : \E j \in 1 .. Len(new) : new[j].size >= list[i].size
         /\ \E j \in 1 .. Len(new) : new[j].size >= block.size
<1>1. /\ Len(list) \in Nat
      /\ \A i \in 1 .. Len(list) : list[i] \in Chunk /\ list[i].size \in Nat
  BY Chunks
<1>2. block.ptr \in Nat /\ block.ptr > FREE_CHUNK /\ block.size \in Nat \ {0}
  BY DEF Given
<1>3. CASE /\ k < Len(list)
           /\ new = [list EXCEPT ![k + 1] =
                       [addr |-> block.ptr - FREE_CHUNK - 1,
                        size |-> block.size + FREE_CHUNK + list[k + 1].size]]
  <2>1. k + 1 \in 1 .. Len(list)
    BY <1>1, <1>3
  <2>2. PICK c : c = [addr |-> block.ptr - FREE_CHUNK - 1,
                      size |-> block.size + FREE_CHUNK + list[k + 1].size]
    OBVIOUS
  <2>3. c \in Chunk /\ c.size >= block.size /\ c.size >= list[k + 1].size
    <3>1. block.ptr - FREE_CHUNK - 1 \in Nat
      BY <1>2 DEF FREE_CHUNK
    <3>2. /\ block.size + FREE_CHUNK + list[k + 1].size \in Nat \ {0}
          /\ block.size + FREE_CHUNK + list[k + 1].size >= block.size
          /\ block.size + FREE_CHUNK + list[k + 1].size >= list[k + 1].size
      BY <1>1, <1>2, <2>1 DEF FREE_CHUNK
    <3>. QED BY <2>2, <3>1, <3>2 DEF Chunk
  <2>4. /\ Len(new) = Len(list) /\ new[k + 1] = c
        /\ \A i \in 1 .. Len(list) : i # k + 1 => new[i] = list[i]
    BY <1>3, <2>1, <2>2, <2>3, ChangeChunk
  <2>5. \A i \in 1 .. Len(list) : new[i].size >= list[i].size
    BY <1>1, <2>3, <2>4
  <2>. QED BY <2>1, <2>3, <2>4, <2>5
<1>4. CASE /\ k > 0
           /\ new = [list EXCEPT ![k] =
                       [addr |-> list[k].addr,
                        size |-> list[k].size + FREE_CHUNK + block.size]]
  <2>1. k \in 1 .. Len(list)
    BY <1>1, <1>4
  <2>2. PICK c : c = [addr |-> list[k].addr,
                      size |-> list[k].size + FREE_CHUNK + block.size]
    OBVIOUS
  <2>3. c \in Chunk /\ c.size >= block.size /\ c.size >= list[k].size
    BY <1>1, <1>2, <2>1, <2>2 DEF Chunk, FREE_CHUNK
  <2>4. /\ Len(new) = Len(list) /\ new[k] = c
        /\ \A i \in 1 .. Len(list) : i # k => new[i] = list[i]
    BY <1>4, <2>1, <2>2, <2>3, ChangeChunk
  <2>5. \A i \in 1 .. Len(list) : new[i].size >= list[i].size
    BY <1>1, <2>3, <2>4
  <2>. QED BY <2>1, <2>3, <2>4, <2>5
<1>5. CASE new = InsertAt(list, k + 1,
                   [addr |-> block.ptr - FREE_CHUNK - 1, size |-> block.size])
  <2>1. PICK c : c = [addr |-> block.ptr - FREE_CHUNK - 1, size |-> block.size]
    OBVIOUS
  <2>2. c \in Chunk /\ c.size = block.size
    BY <1>2, <2>1 DEF Chunk, FREE_CHUNK
  <2>3. /\ Len(new) = Len(list) + 1
        /\ \A i \in 1 .. k : new[i] = list[i]
        /\ new[k + 1] = c
        /\ \A i \in k + 1 .. Len(list) : new[i + 1] = list[i]
    <3>1. new = InsertAt(list, k + 1, c)
      BY <1>5, <2>1
    <3>2. IsInsert(list, k, c, new)
      BY <2>2, <3>1, InsertList
    <3>. QED BY <3>2 DEF IsInsert
  <2>4. ASSUME NEW i \in 1 .. Len(list)
        PROVE  \E j \in 1 .. Len(new) : new[j].size >= list[i].size
    <3>1. CASE i <= k
      <4>1. i \in 1 .. k /\ i \in 1 .. Len(new)
        BY <1>1, <2>3, <3>1
      <4>2. new[i].size >= list[i].size
        BY <1>1, <2>3, <4>1
      <4>. QED BY <4>1, <4>2
    <3>2. CASE i > k
      <4>1. i \in k + 1 .. Len(list) /\ i + 1 \in 1 .. Len(new)
        BY <1>1, <2>3, <3>2
      <4>2. new[i + 1].size >= list[i].size
        BY <1>1, <2>3, <4>1
      <4>. QED BY <4>1, <4>2
    <3>. QED BY <3>1, <3>2
  <2>5. k + 1 \in 1 .. Len(new) /\ new[k + 1].size >= block.size
    BY <1>1, <1>2, <2>2, <2>3
  <2>. QED BY <2>4, <2>5
<1>. QED BY <1>3, <1>4, <1>5 DEF Inserted, Meets, Follows

\* A chunk that was split is whole again when its block is freed.
LEMMA SplitReturns ==
  ASSUME NEW list \in Seq(Chunk), Ascending(list), NEW k \in 1 .. Len(list),
         NEW size \in Nat \ {0}, NEW block \in Given, block.ptr < INIT_BUF_SIZE,
         block.ptr = list[k].addr + FREE_CHUNK + 1,
         NEW new \in Seq(Chunk), SplitOff(list, k, size, block, new),
         NEW after \in Seq(Chunk), Freed(new, block, after)
  PROVE  after = list
<1>. DEFINE ptr == block.ptr
<1>0. /\ ptr = list[k].addr + FREE_CHUNK + 1 /\ ptr < INIT_BUF_SIZE
      /\ list[k].size > size + FREE_CHUNK /\ block.size = size
      /\ new = [list EXCEPT ![k] = [addr |-> ptr + size,
                                    size |-> list[k].size - size - FREE_CHUNK]]
  BY DEF SplitOff
<1>. HIDE DEF ptr
<1>1. Len(list) \in Nat
  BY Chunks
<1>2. PICK addr \in Nat, n \in Nat \ {0} : list[k] = [addr |-> addr, size |-> n]
  <2>1. list[k] \in Chunk
    BY Chunks
  <2>. QED BY <2>1 DEF Chunk
<1>3. list[k].addr = addr /\ list[k].size = n
  BY <1>2
<1>4. PICK c : c = [addr |-> ptr + size, size |-> n - size - FREE_CHUNK]
  OBVIOUS
<1>5. c \in Chunk /\ c.addr = ptr + size /\ c.size = n - size - FREE_CHUNK
  <2>1. ptr + size \in Nat /\ n - size - FREE_CHUNK \in Nat \ {0}
    BY <1>0, <1>3 DEF FREE_CHUNK
  <2>. QED BY <1>4, <2>1 DEF Chunk
<1>6. /\ Len(new) = Len(list) /\ new[k] = c
      /\ \A i \in 1 .. Len(list) : i # k => new[i] = list[i]
  BY <1>0, <1>3, <1>4, <1>5, ChangeChunk
<1>7. \A i \in 1 .. k - 1 : new[i].addr \in Nat /\ new[i].addr < addr
  <2>. TAKE i \in 1 .. k - 1
  <2>1. i \in 1 .. Len(list) /\ i < k
    BY <1>1
  <2>2. list[i].addr \in Nat /\ list[i].addr < list[k].addr
    BY <2>1, Chunks DEF Ascending
  <2>. QED BY <1>3, <1>6, <2>1, <2>2
<1>8. ptr = addr + 5
  BY <1>0, <1>3 DEF FREE_CHUNK
<1>9. k - 1 \in Places(new, ptr)
  <2>1. k - 1 \in 0 .. Len(new) /\ (k - 1) + 1 = k
    BY <1>1, <1>6
  <2>2. k - 1 > 0 => new[k - 1].addr < ptr
    <3>1. k - 1 > 0 => k - 1 \in 1 .. k - 1
      BY <1>1
    <3>. QED BY <1>7, <1>8, <3>1
  <2>3. ptr < new[k].addr
    BY <1>5, <1>6, <1>8
  <2>. QED BY <2>1, <2>2, <2>3 DEF Places
<1>10. ASSUME NEW j \in Places(new, ptr)
       PROVE  j >= k - 1
  <2>1. j \in 0 .. Len(list) /\ (j < Len(list) => ptr < new[j + 1].addr)
    BY <1>6 DEF Places
  <2>2. CASE j < k - 1
    <3>1. j + 1 \in 1 .. k - 1 /\ j < Len(list)
      BY <1>1, <2>1, <2>2
    <3>. QED BY <1>7, <1>8, <2>1, <3>1
  <2>. QED BY <2>1, <2>2
<1>11. [new EXCEPT ![k] = [addr |-> ptr - FREE_CHUNK - 1,
                           size |-> size + FREE_CHUNK + new[k].size]] = list
  <2>1. PICK e : e = [addr |-> ptr - FREE_CHUNK - 1, size |-> size + FREE_CHUNK + new[k].size]
    OBVIOUS
  <2>2. ptr - FREE_CHUNK - 1 = addr
    BY <1>8 DEF FREE_CHUNK
  <2>3. size + FREE_CHUNK + new[k].size = n
    BY <1>5, <1>6 DEF FREE_CHUNK
  <2>4. e = list[k]
    BY <1>2, <2>1, <2>2, <2>3
  <2>5. PICK t : t = [new EXCEPT ![k] = e]
    OBVIOUS
  <2>6. /\ Len(t) = Len(new) /\ t \in Seq(Chunk) /\ t[k] = e
        /\ \A i \in 1 .. Len(new) : i # k => t[i] = new[i]
    <3>1. k \in 1 .. Len(new) /\ e \in Chunk
      BY <1>6, <2>4, ListElements
    <3>. QED BY <2>5, <3>1, ChangeChunk
  <2>7. t = list
    <3>1. \A i \in 1 .. Len(list) : t[i] = list[i]
      BY <1>6, <2>4, <2>6
    <3>2. Len(t) = Len(list)
      BY <1>6, <2>6
    <3>. QED BY <2>6, <3>1, <3>2, SeqEqual
  <2>. QED BY <2>1, <2>5, <2>7
<1>12. PICK m \in 0 .. Len(new) : FirstPlace(new, ptr, m) /\ Inserted(new, m, block, after)
  <2>1. Places(new, ptr) # {} /\ ~ (ptr >= INIT_BUF_SIZE)
    BY <1>0, <1>8, <1>9, ShmAssumption
  <2>. QED BY <2>1 DEF Freed, ptr
<1>13. m = k - 1
  <2>1. m <= k - 1 /\ m >= k - 1
    BY <1>9, <1>10, <1>12 DEF FirstPlace
  <2>. QED BY <1>1, <2>1
<1>14. /\ m < Len(new) /\ m + 1 = k
       /\ block.ptr + block.size = new[m + 1].addr
  BY <1>0, <1>1, <1>5, <1>6, <1>13 DEF ptr
<1>15. after = [new EXCEPT ![m + 1] =
                  [addr |-> block.ptr - FREE_CHUNK - 1,
                   size |-> block.size + FREE_CHUNK + new[m + 1].size]]
  BY <1>12, <1>14 DEF Inserted, Meets
<1>. QED BY <1>0, <1>11, <1>14, <1>15 DEF ptr

\* A list without chunk k can serve what it could, if another chunk is as large.
LEMMA WithoutServes ==
  ASSUME NEW list \in Seq(Chunk), NEW k \in 1 .. Len(list), NEW new \in Seq(Chunk),
         IsRemove(list, k, new), NEW after \in Seq(Chunk), NEW n \in Nat, Serves(list, n),
         \A i \in 1 .. Len(new) : \E j \in 1 .. Len(after) : after[j].size >= new[i].size,
         \E j \in 1 .. Len(after) : after[j].size >= list[k].size
  PROVE  Serves(after, n)
<1>1. Len(list) \in Nat
  BY Chunks
<1>2. ASSUME NEW i \in 1 .. Len(list)
      PROVE  \E j \in 1 .. Len(after) : after[j].size >= list[i].size
  <2>1. CASE i = k
    BY <2>1
  <2>2. CASE i < k
    <3>1. i \in 1 .. k - 1 /\ i \in 1 .. Len(new)
      BY <1>1, <2>2 DEF IsRemove
    <3>2. new[i] = list[i]
      BY <3>1 DEF IsRemove
    <3>. QED BY <3>1, <3>2
  <2>3. CASE i > k
    <3>1. i \in k + 1 .. Len(list) /\ i - 1 \in 1 .. Len(new)
      BY <1>1, <2>3 DEF IsRemove
    <3>2. new[i - 1] = list[i]
      BY <3>1 DEF IsRemove
    <3>. QED BY <3>1, <3>2
  <2>. QED BY <1>1, <2>1, <2>2, <2>3
<1>. QED BY <1>2, LargerServes

\* A block given out as a whole chunk is freed, or another chunk is as large.
LEMMA WholeReturns ==
  ASSUME NEW list \in Seq(Chunk), NEW k \in 1 .. Len(list),
         NEW block \in Given, block.size = list[k].size, block.ptr < INIT_BUF_SIZE,
         \A c \in ToSet(list) : c.addr = block.ptr => c.size >= block.size,
         NEW new \in Seq(Chunk), new = RemoveAt(list, k),
         NEW after \in Seq(Chunk), Freed(new, block, after),
         NEW n \in Nat, Serves(list, n)
  PROVE  Serves(after, n)
<1>1. IsRemove(list, k, new) /\ Len(list) \in Nat
  BY RemoveList, Chunks
<1>2. block.ptr \in Nat
  BY DEF Given
<1>3. CASE \E m \in 0 .. Len(new) : Inserted(new, m, block, after)
  <2>1. /\ \A i \in 1 .. Len(new) : \E j \in 1 .. Len(after) : after[j].size >= new[i].size
        /\ \E j \in 1 .. Len(after) : after[j].size >= block.size
    BY <1>3, InsertGrows
  <2>. QED BY <1>1, <2>1, WithoutServes
<1>4. CASE after = new /\ Places(new, block.ptr) = {}
  <2>1. PICK i \in 1 .. Len(new) : new[i].addr = block.ptr
    BY <1>2, <1>4, PlaceExists
  <2>2. \E m \in 1 .. Len(list) : list[m] = new[i]
    <3>1. CASE i < k
      <4>1. i \in 1 .. k - 1 /\ i \in 1 .. Len(list)
        BY <1>1, <3>1
      <4>. QED BY <1>1, <4>1 DEF IsRemove
    <3>2. CASE i >= k
      <4>1. i + 1 \in k + 1 .. Len(list) /\ i + 1 \in 1 .. Len(list) /\ (i + 1) - 1 = i
        BY <1>1, <3>2 DEF IsRemove
      <4>. QED BY <1>1, <4>1 DEF IsRemove
    <3>. QED BY <3>1, <3>2
  <2>3. new[i] \in ToSet(list)
    BY <2>2, ListElements
  <2>4. after[i].size >= block.size
    BY <1>4, <2>1, <2>3
  <2>5. \A j \in 1 .. Len(new) : after[j].size >= new[j].size
    BY <1>4, Chunks
  <2>. QED BY <1>1, <1>4, <2>4, <2>5, WithoutServes
<1>5. ~ (block.ptr >= INIT_BUF_SIZE)
  BY <1>2, ShmAssumption
<1>. QED BY <1>3, <1>4, <1>5 DEF Freed

\* A block that was allocated is freed again.
LEMMA FreeUndoes ==
  ASSUME NEW d \in DataRecord, d.control = "ready", Ascending(d.free),
         NEW size \in Nat \ {0}, NEW r, r = my_malloc(d, size), r.block.ptr < INIT_BUF_SIZE,
         \A c \in ToSet(d.free) : c.addr = r.block.ptr => c.size >= r.block.size,
         NEW n \in Nat, Serves(d.free, n)
  PROVE  Serves(my_free(r.d, r.block).free, n)
<1>1. CASE r.block = NO_BLOCK /\ r.d = d
  <2>1. r.block.ptr \notin 1 .. INIT_BUF_SIZE - 1
    BY <1>1, ShmAssumption DEF NO_BLOCK, NULL
  <2>2. my_free(r.d, r.block) = d
    BY <1>1, <2>1 DEF my_free
  <2>. QED BY <2>2
<1>2. CASE /\ r.block \in Given
           /\ \E new \in Seq(Chunk) :
                r.d = WithFree(d, new) /\ TakenFrom(d.free, size, r.block, new)
  <2>1. PICK new \in Seq(Chunk) :
          r.d = WithFree(d, new) /\ TakenFrom(d.free, size, r.block, new)
    BY <1>2
  <2>2. PICK block \in Given : block = r.block
    BY <1>2
  <2>3. r.d \in DataRecord /\ r.d.free = new /\ r.d.control = "ready"
    BY <2>1, FreeOnly
  <2>4. PICK after \in Seq(Chunk) :
          my_free(r.d, block) = WithFree(r.d, after) /\ Freed(new, block, after)
    BY <2>3, FreeGives
  <2>5. my_free(r.d, r.block).free = after
    BY <2>2, <2>3, <2>4, FreeOnly
  <2>6. PICK list \in Seq(Chunk) : list = d.free
    BY DataParts
  <2>7. TakenFrom(list, size, block, new)
    BY <2>1, <2>2, <2>6
  <2>8. PICK k \in 1 .. Len(list) :
          /\ list[k].size >= size /\ block.ptr = list[k].addr + FREE_CHUNK + 1
          /\ Taken(list, k, size, block, new)
    BY <2>7 DEF TakenFrom
  <2>9. /\ Ascending(list) /\ Serves(list, n) /\ block.ptr < INIT_BUF_SIZE
        /\ \A c \in ToSet(list) : c.addr = block.ptr => c.size >= block.size
    BY <2>2, <2>6
  <2>10. CASE SplitOff(list, k, size, block, new)
    <3>1. after = list
      BY <2>4, <2>8, <2>9, <2>10, SplitReturns
    <3>. QED BY <2>5, <2>9, <3>1
  <2>11. CASE GoneWhole(list, k, size, block, new)
    <3>1. block.size = list[k].size /\ new = RemoveAt(list, k)
      BY <2>11 DEF GoneWhole
    <3>2. Serves(after, n)
      BY <2>4, <2>9, <3>1, WholeReturns
    <3>. QED BY <2>5, <3>2
  <2>. QED BY <2>8, <2>10, <2>11 DEF Taken
<1>. QED BY <1>1, <1>2, MallocGives

\* For every size of the buffer and of files, and in every state in which the
\* free list is in the order of addresses: what could be allocated still can be
\* after a block was allocated and freed again, whichever chunk my_malloc splits
\* or takes and my_free merges (my_malloc.c:39-140).
THEOREM ShmFreeUndoesMalloc == Spec => []FreeUndoesMalloc
<1>1. ASSUME ShmTyped
      PROVE  FreeUndoesMalloc
  <2>1. Data \in DataRecord /\ Data.free = free_list /\ Data.control = control
    BY <1>1 DEF ShmTyped, Data
  <2>2. ASSUME Ascending(free_list), control = "ready",
               NEW size \in (Size \cup {SHM_ENTRY + 1, OPEN_SHM_ENTRY + 1}) \ {0},
               NEW r, r = my_malloc(Data, size), r.block.ptr < INIT_BUF_SIZE,
               \A c \in ToSet(free_list) : c.addr = r.block.ptr => c.size >= r.block.size,
               NEW n \in 1 .. INIT_BUF_SIZE, Serves(free_list, n)
        PROVE  Serves(my_free(r.d, r.block).free, n)
    <3>1. size \in Nat \ {0} /\ n \in Nat
      BY ShmAssumption DEF SHM_ENTRY, OPEN_SHM_ENTRY
    <3>. QED BY <2>1, <2>2, <3>1, FreeUndoes
  <2>. QED BY <2>2 DEF FreeUndoesMalloc
<1>. QED BY <1>1, ShmIsTyped, PTL

-----------------------------------------------------------------------------
(* The back-end as the front-end sees it.                                   *)

\* No two files have their structs at one address.
Distinct(d) ==
  \A i, j \in 1 .. Len(d.files) : d.files[i].block.ptr = d.files[j].block.ptr => i = j

\* The names of the files, and for each descriptor that of the file it is on.
IsView(d, files, fds) ==
  /\ files = {d.files[i].name : i \in 1 .. Len(d.files)}
  /\ fds = [fd \in FD |-> fds[fd]]
  /\ \A fd \in FD :
       /\ d.fds[fd] = CLOSED => fds[fd] = NULL
       /\ \A i \in 1 .. Len(d.files) :
            d.files[i].block.ptr = d.fds[fd].shm => fds[fd] = d.files[i].name

\* What Shm gives Cfs for its variables.
CfsFiles == {e.name : e \in ToSet(shm_list)}
CfsFds == [fd \in FD |->
             IF \E e \in ToSet(shm_list) : e.block.ptr = open_fd_cache[fd].shm
             THEN FileOf(fd).name ELSE NULL]

\* Where no block was given out twice, the structs of files are distinct.
LEMMA WholeIsDistinct == ShmTyped /\ Whole => Distinct(Data)
<1>. SUFFICES ASSUME ShmTyped, Whole,
                     NEW i \in 1 .. Len(shm_list), NEW j \in 1 .. Len(shm_list),
                     shm_list[i].block.ptr = shm_list[j].block.ptr, i # j
              PROVE  FALSE
  BY DEF Distinct, Data
<1>1. shm_list \in Seq(FileRecord) /\ DOMAIN shm_list = 1 .. Len(shm_list)
  BY Typed, ListElements
<1>2. PICK ptr : ptr = shm_list[i].block.ptr
  OBVIOUS
<1>3. ptr \in Nat
  <2>1. shm_list[i] \in FileRecord
    BY <1>1, ListElements
  <2>. QED BY <1>2, <2>1 DEF FileRecord, Given
<1>4. /\ Area("struct", <<"file", i>>, ptr, SHM_ENTRY) \in Areas
      /\ Area("struct", <<"file", j>>, ptr, SHM_ENTRY) \in Areas
  <2>1. ASSUME NEW k \in 1 .. Len(shm_list), shm_list[k].block.ptr = ptr
        PROVE  Area("struct", <<"file", k>>, ptr, SHM_ENTRY) \in Areas
    <3>1. PICK s : s = [of |-> <<"file", k>>, block |-> shm_list[k].block, size |-> SHM_ENTRY]
      OBVIOUS
    <3>2. s \in Structs
      BY <1>1, <3>1 DEF Structs
    <3>3. Area("struct", s.of, s.block.ptr, s.size) \in Areas
      BY <3>2 DEF Areas
    <3>. QED BY <2>1, <3>1, <3>3
  <2>. QED BY <1>2, <2>1
<1>5. Area("struct", <<"file", i>>, ptr, SHM_ENTRY)
        # Area("struct", <<"file", j>>, ptr, SHM_ENTRY)
  BY DEF Area
<1>6. Bytes(ptr, SHM_ENTRY) \cap Bytes(ptr, SHM_ENTRY) = {}
  BY <1>4, <1>5 DEF Whole, GivesFreeMemory, Area
<1>7. ptr \in Bytes(ptr, SHM_ENTRY)
  BY <1>3 DEF Bytes, SHM_ENTRY
<1>. QED BY <1>6, <1>7

\* What the front-end sees.
LEMMA View == ShmTyped /\ Distinct(Data) => IsView(Data, CfsFiles, CfsFds)
<1>. SUFFICES ASSUME ShmTyped, Distinct(Data)
              PROVE  IsView(Data, CfsFiles, CfsFds)
  OBVIOUS
<1>1. /\ shm_list \in Seq(FileRecord) /\ open_fd_cache \in [FD -> OpenRecord]
      /\ Data.files = shm_list /\ Data.fds = open_fd_cache
  BY Typed DEF Data
<1>2. ToSet(shm_list) = {shm_list[i] : i \in 1 .. Len(shm_list)}
  BY <1>1, ListElements
<1>3. CfsFiles = {shm_list[i].name : i \in 1 .. Len(shm_list)}
  BY <1>2 DEF CfsFiles
<1>4. CfsFds = [fd \in FD |-> CfsFds[fd]]
  BY DEF CfsFds
<1>5. ASSUME NEW fd \in FD, open_fd_cache[fd] = CLOSED
      PROVE  CfsFds[fd] = NULL
  <2>1. \A e \in ToSet(shm_list) : e.block.ptr # 0
    <3>1. \A e \in ToSet(shm_list) : e \in FileRecord
      BY <1>1, ListElements
    <3>2. \A e \in FileRecord : e.block.ptr # 0
      BY DEF FileRecord, Given, FREE_CHUNK
    <3>. QED BY <3>1, <3>2
  <2>2. open_fd_cache[fd].shm = 0
    BY <1>5 DEF CLOSED, NULL
  <2>. QED BY <2>1, <2>2 DEF CfsFds
<1>6. ASSUME NEW fd \in FD, NEW i \in 1 .. Len(shm_list),
             shm_list[i].block.ptr = open_fd_cache[fd].shm
      PROVE  CfsFds[fd] = shm_list[i].name
  <2>1. PICK e : e = FileOf(fd)
    OBVIOUS
  <2>2. PICK k \in 1 .. Len(shm_list) :
          e = shm_list[k] /\ shm_list[k].block.ptr = open_fd_cache[fd].shm
    BY <1>6, <2>1, FindStruct
  <2>3. k = i
    BY <1>1, <1>6, <2>2 DEF Distinct
  <2>4. shm_list[i] \in ToSet(shm_list)
    BY <1>2
  <2>5. CfsFds[fd] = FileOf(fd).name
    BY <1>6, <2>4 DEF CfsFds
  <2>. QED BY <2>1, <2>2, <2>3, <2>5
<1>. QED BY <1>1, <1>3, <1>4, <1>5, <1>6 DEF IsView

\* What the front-end sees follows from files and descriptors.
LEMMA SameView ==
  ASSUME NEW d \in DataRecord, Linked(d), NEW r, NEW fds, NEW fdsNew, NEW files, NEW filesNew,
         IsView(d, files, fds), IsView(r, filesNew, fdsNew), r.files = d.files,
         NEW fd \in FD, r.fds[fd].shm = d.fds[fd].shm,
         r.fds[fd] = CLOSED <=> d.fds[fd] = CLOSED
  PROVE  filesNew = files /\ fdsNew[fd] = fds[fd]
<1>1. filesNew = files
  BY DEF IsView
<1>2. CASE d.fds[fd] = CLOSED
  BY <1>2 DEF IsView
<1>3. CASE d.fds[fd] # CLOSED
  <2>1. PICK i \in 1 .. Len(d.files) : d.files[i].block.ptr = d.fds[fd].shm
    BY <1>3 DEF Linked
  <2>2. fds[fd] = d.files[i].name
    BY <2>1 DEF IsView
  <2>3. fdsNew[fd] = d.files[i].name
    BY <2>1 DEF IsView
  <2>. QED BY <1>1, <2>2, <2>3
<1>. QED BY <1>1, <1>2, <1>3

\* Functions of descriptors that agree are the same.
LEMMA SameFds ==
  ASSUME NEW a, NEW b, a = [fd \in FD |-> a[fd]], b = [fd \in FD |-> b[fd]],
         \A fd \in FD : a[fd] = b[fd]
  PROVE  a = b
<1>1. [fd \in FD |-> a[fd]] = [fd \in FD |-> b[fd]]
  OBVIOUS
<1>. QED BY <1>1

\* A step that touches neither files nor descriptors is not seen.
LEMMA StutterView ==
  ASSUME NEW d \in DataRecord, Linked(d), NEW r, NEW fds, NEW fdsNew, NEW files, NEW filesNew,
         IsView(d, files, fds), IsView(r, filesNew, fdsNew), r.files = d.files,
         \A fd \in FD : /\ r.fds[fd].shm = d.fds[fd].shm
                        /\ r.fds[fd] = CLOSED <=> d.fds[fd] = CLOSED
  PROVE  filesNew = files /\ fdsNew = fds
<1>1. filesNew = files
  BY DEF IsView
<1>2. \A fd \in FD : fdsNew[fd] = fds[fd]
  <2>. TAKE fd \in FD
  <2>. QED BY SameView
<1>3. fds = [fd \in FD |-> fds[fd]] /\ fdsNew = [fd \in FD |-> fdsNew[fd]]
  BY DEF IsView
<1>. QED BY <1>1, <1>2, <1>3, SameFds

\* A file of the list is opened on fd.
LEMMA OpenedView ==
  ASSUME NEW d \in DataRecord, Linked(d), NEW r, NEW fds, NEW fdsNew, NEW files, NEW filesNew,
         IsView(d, files, fds), IsView(r, filesNew, fdsNew), r.files = d.files,
         NEW k \in 1 .. Len(d.files), NEW fd \in FD, FdOpened(r, d, fd, d.files[k].block.ptr)
  PROVE  /\ fds[fd] = NULL /\ filesNew = files /\ d.files[k].name \in files
         /\ fdsNew = [fds EXCEPT ![fd] = d.files[k].name]
<1>1. filesNew = files /\ d.files[k].name \in files /\ fds[fd] = NULL
  BY DEF IsView, FdOpened
<1>2. fdsNew[fd] = d.files[k].name
  BY DEF IsView, FdOpened
<1>3. \A g \in FD : g # fd => fdsNew[g] = fds[g]
  <2>. TAKE g \in FD
  <2>. HAVE g # fd
  <2>1. r.fds[g] = d.fds[g]
    BY DEF FdOpened
  <2>. QED BY <2>1, SameView
<1>4. fds = [g \in FD |-> fds[g]] /\ fdsNew = [g \in FD |-> fdsNew[g]]
  BY DEF IsView
<1>5. PICK e : e = [fds EXCEPT ![fd] = d.files[k].name]
  OBVIOUS
<1>6. e = [g \in FD |-> e[g]] /\ \A g \in FD : fdsNew[g] = e[g]
  BY <1>2, <1>3, <1>4, <1>5
<1>. QED BY <1>1, <1>4, <1>5, <1>6, SameFds

\* A descriptor is closed.
LEMMA ClosedView ==
  ASSUME NEW d \in DataRecord, Linked(d), NEW r, NEW fds, NEW fdsNew, NEW files, NEW filesNew,
         IsView(d, files, fds), IsView(r, filesNew, fdsNew), r.files = d.files,
         NEW fd \in FD, r.fds = [d.fds EXCEPT ![fd] = CLOSED]
  PROVE  filesNew = files /\ fdsNew = [fds EXCEPT ![fd] = NULL]
<1>0. d.fds \in [FD -> OpenRecord]
  BY DataParts
<1>1. filesNew = files
  BY DEF IsView
<1>2. fdsNew[fd] = NULL
  BY <1>0 DEF IsView
<1>3. \A g \in FD : g # fd => fdsNew[g] = fds[g]
  <2>. TAKE g \in FD
  <2>. HAVE g # fd
  <2>1. r.fds[g].shm = d.fds[g].shm /\ (r.fds[g] = CLOSED <=> d.fds[g] = CLOSED)
    BY <1>0
  <2>2. CASE d.fds[g] = CLOSED
    BY <2>1, <2>2 DEF IsView
  <2>3. CASE d.fds[g] # CLOSED
    <3>1. PICK i \in 1 .. Len(d.files) : d.files[i].block.ptr = d.fds[g].shm
      BY <2>3 DEF Linked
    <3>2. fds[g] = d.files[i].name /\ fdsNew[g] = d.files[i].name
      BY <2>1, <3>1 DEF IsView
    <3>. QED BY <3>2
  <2>. QED BY <2>2, <2>3
<1>4. fds = [g \in FD |-> fds[g]] /\ fdsNew = [g \in FD |-> fdsNew[g]]
  BY DEF IsView
<1>5. PICK e : e = [fds EXCEPT ![fd] = NULL]
  OBVIOUS
<1>6. e = [g \in FD |-> e[g]] /\ \A g \in FD : fdsNew[g] = e[g]
  BY <1>2, <1>3, <1>4, <1>5
<1>. QED BY <1>1, <1>4, <1>5, <1>6, SameFds

\* A new file is put in front, and opened or not.
LEMMA AddedView ==
  ASSUME NEW d \in DataRecord, Linked(d), NEW r, NEW fds, NEW fdsNew, NEW files, NEW filesNew,
         IsView(d, files, fds), IsView(r, filesNew, fdsNew),
         NEW name, NEW e, Added(r, d, name, e)
  PROVE  /\ filesNew = files \cup {name}
         /\ \/ fdsNew = fds
            \/ \E fd \in FD : fds[fd] = NULL /\ fdsNew = [fds EXCEPT ![fd] = name]
<1>1. d.files \in Seq(FileRecord) /\ Len(d.files) \in Nat
  BY DataParts, ListElements
<1>2. e \in FileRecord /\ e.name = name
  BY DEF Added
<1>3. PICK t : t = <<e>> \o d.files
  OBVIOUS
<1>4. /\ r.files = t /\ Len(t) = Len(d.files) + 1 /\ t[1] = e
      /\ \A i \in 1 .. Len(d.files) : t[i + 1] = d.files[i]
  <2>1. r.files = t
    BY <1>3 DEF Added
  <2>. QED BY <1>1, <1>2, <1>3, <2>1, InFront
<1>5. filesNew = files \cup {name}
  <2>1. \A i \in 1 .. Len(t) : t[i].name \in files \cup {name}
    <3>. TAKE i \in 1 .. Len(t)
    <3>1. CASE i = 1
      BY <1>2, <1>4, <3>1
    <3>2. CASE i # 1
      <4>1. i - 1 \in 1 .. Len(d.files) /\ (i - 1) + 1 = i
        BY <1>1, <1>4, <3>2
      <4>2. t[i] = d.files[i - 1]
        BY <1>4, <4>1
      <4>. QED BY <4>1, <4>2 DEF IsView
    <3>. QED BY <3>1, <3>2
  <2>2. \A i \in 1 .. Len(d.files) : d.files[i].name \in filesNew
    <3>. TAKE i \in 1 .. Len(d.files)
    <3>1. i + 1 \in 1 .. Len(t) /\ t[i + 1] = d.files[i]
      BY <1>1, <1>4
    <3>. QED BY <1>4, <3>1 DEF IsView
  <2>3. name \in filesNew
    <3>1. 1 \in 1 .. Len(t)
      BY <1>1, <1>4
    <3>. QED BY <1>2, <1>4, <3>1 DEF IsView
  <2>4. /\ files = {d.files[i].name : i \in 1 .. Len(d.files)}
        /\ filesNew = {t[i].name : i \in 1 .. Len(t)}
    BY <1>4 DEF IsView
  <2>5. filesNew \subseteq files \cup {name}
    BY <2>1, <2>4
  <2>6. files \cup {name} \subseteq filesNew
    BY <2>2, <2>3, <2>4
  <2>. QED BY <2>5, <2>6
<1>6. ASSUME NEW g \in FD, r.fds[g] = d.fds[g]
      PROVE  fdsNew[g] = fds[g]
  <2>1. CASE d.fds[g] = CLOSED
    BY <1>6, <2>1 DEF IsView
  <2>2. CASE d.fds[g] # CLOSED
    <3>1. PICK i \in 1 .. Len(d.files) : d.files[i].block.ptr = d.fds[g].shm
      BY <2>2 DEF Linked
    <3>2. i + 1 \in 1 .. Len(t) /\ t[i + 1] = d.files[i]
      BY <1>1, <1>4
    <3>3. fds[g] = d.files[i].name
      BY <3>1 DEF IsView
    <3>4. fdsNew[g] = t[i + 1].name
      BY <1>4, <1>6, <3>1, <3>2 DEF IsView
    <3>. QED BY <3>2, <3>3, <3>4
  <2>. QED BY <2>1, <2>2
<1>7. fds = [g \in FD |-> fds[g]] /\ fdsNew = [g \in FD |-> fdsNew[g]]
  BY DEF IsView
<1>8. CASE r.fds = d.fds
  <2>1. \A g \in FD : fdsNew[g] = fds[g]
    BY <1>6, <1>8
  <2>. QED BY <1>5, <1>7, <2>1, SameFds
<1>9. CASE \E fd \in FD : FdOpened(r, d, fd, e.block.ptr)
  <2>1. PICK fd \in FD : FdOpened(r, d, fd, e.block.ptr)
    BY <1>9
  <2>2. fds[fd] = NULL
    BY <2>1 DEF FdOpened, IsView
  <2>3. fdsNew[fd] = name
    <3>1. 1 \in 1 .. Len(t)
      BY <1>1, <1>4
    <3>. QED BY <1>2, <1>4, <2>1, <3>1 DEF FdOpened, IsView
  <2>4. \A g \in FD : g # fd => fdsNew[g] = fds[g]
    BY <1>6, <2>1 DEF FdOpened
  <2>5. PICK f : f = [fds EXCEPT ![fd] = name]
    OBVIOUS
  <2>6. f = [g \in FD |-> f[g]] /\ \A g \in FD : fdsNew[g] = f[g]
    BY <1>7, <2>3, <2>4, <2>5
  <2>7. fdsNew = f
    BY <1>7, <2>6, SameFds
  <2>. QED BY <1>5, <2>2, <2>5, <2>7
<1>. QED BY <1>8, <1>9 DEF Added

\* The file at k, which no descriptor is on, is removed.
LEMMA RemovedView ==
  ASSUME NEW d \in DataRecord, Linked(d), NEW r, NEW fds, NEW fdsNew, NEW files, NEW filesNew,
         IsView(d, files, fds), IsView(r, filesNew, fdsNew),
         NEW k \in 1 .. Len(d.files), NEW name, d.files[k].name = name,
         \A fd \in FD : d.fds[fd].shm # d.files[k].block.ptr,
         r.files = RemoveAt(d.files, k), r.fds = d.fds
  PROVE  /\ filesNew = files \ {name}
         /\ fdsNew = [fd \in FD |-> IF fds[fd] = name THEN NULL ELSE fds[fd]]
<1>1. PICK s \in Seq(FileRecord) : s = d.files
  BY DataParts
<1>2. PICK t : t = RemoveAt(s, k)
  OBVIOUS
<1>3. r.files = t /\ IsRemove(s, k, t) /\ Len(s) \in Nat /\ k \in 1 .. Len(s)
  <2>1. k \in 1 .. Len(s) /\ r.files = t
    BY <1>1, <1>2
  <2>. QED BY <1>2, <2>1, RemoveList, ListElements
<1>4. \A i \in 1 .. Len(s) : i # k => \E j \in 1 .. Len(t) : t[j] = s[i]
  <2>. TAKE i \in 1 .. Len(s)
  <2>. HAVE i # k
  <2>1. CASE i < k
    <3>1. i \in 1 .. k - 1 /\ i \in 1 .. Len(t)
      BY <1>3, <2>1 DEF IsRemove
    <3>. QED BY <1>3, <3>1 DEF IsRemove
  <2>2. CASE i > k
    <3>1. i \in k + 1 .. Len(s) /\ i - 1 \in 1 .. Len(t)
      BY <1>3, <2>2 DEF IsRemove
    <3>. QED BY <1>3, <3>1 DEF IsRemove
  <2>. QED BY <1>3, <2>1, <2>2
<1>5. \A j \in 1 .. Len(t) : \E i \in 1 .. Len(s) : i # k /\ t[j] = s[i]
  <2>. TAKE j \in 1 .. Len(t)
  <2>1. CASE j < k
    <3>1. j \in 1 .. k - 1 /\ j \in 1 .. Len(s) /\ j # k
      BY <1>3, <2>1 DEF IsRemove
    <3>. QED BY <1>3, <3>1 DEF IsRemove
  <2>2. CASE j >= k
    <3>1. j + 1 \in k + 1 .. Len(s) /\ j + 1 \in 1 .. Len(s) /\ j + 1 # k /\ (j + 1) - 1 = j
      BY <1>3, <2>2 DEF IsRemove
    <3>2. t[(j + 1) - 1] = s[j + 1]
      BY <1>3, <3>1 DEF IsRemove
    <3>. QED BY <3>1, <3>2
  <2>. QED BY <1>3, <2>1, <2>2
<1>6. \A i \in 1 .. Len(s) : s[i].name = name => i = k
  BY <1>1, <1>3 DEF Linked
<1>7. filesNew = files \ {name}
  <2>1. /\ files = {s[i].name : i \in 1 .. Len(s)}
        /\ filesNew = {t[j].name : j \in 1 .. Len(t)}
    BY <1>1, <1>3 DEF IsView
  <2>2. filesNew \subseteq files \ {name}
    BY <1>5, <1>6, <2>1
  <2>3. files \ {name} \subseteq filesNew
    BY <1>1, <1>4, <2>1
  <2>. QED BY <2>2, <2>3
<1>8. ASSUME NEW fd \in FD
      PROVE  fdsNew[fd] = IF fds[fd] = name THEN NULL ELSE fds[fd]
  <2>1. CASE d.fds[fd] = CLOSED
    <3>1. fds[fd] = NULL /\ fdsNew[fd] = NULL
      BY <2>1 DEF IsView
    <3>. QED BY <3>1
  <2>2. CASE d.fds[fd] # CLOSED
    <3>1. PICK i \in 1 .. Len(s) : s[i].block.ptr = d.fds[fd].shm
      BY <1>1, <2>2 DEF Linked
    <3>2. i # k
      BY <1>1, <3>1
    <3>3. PICK j \in 1 .. Len(t) : t[j] = s[i]
      BY <1>4, <3>2
    <3>4. fds[fd] = s[i].name
      BY <1>1, <3>1 DEF IsView
    <3>5. fdsNew[fd] = t[j].name
      BY <1>3, <3>1, <3>3 DEF IsView
    <3>6. fds[fd] # name
      BY <1>6, <3>2, <3>4
    <3>. QED BY <3>3, <3>4, <3>5, <3>6
  <2>. QED BY <2>1, <2>2
<1>9. fdsNew = [g \in FD |-> fdsNew[g]]
  BY DEF IsView
<1>10. PICK f : f = [fd \in FD |-> IF fds[fd] = name THEN NULL ELSE fds[fd]]
  OBVIOUS
<1>11. f = [g \in FD |-> f[g]] /\ \A g \in FD : fdsNew[g] = f[g]
  BY <1>8, <1>10
<1>. QED BY <1>7, <1>9, <1>10, <1>11, SameFds

\* What the front-end sees, before and after a step.
Seen == IsView(Data, CfsFiles, CfsFds)

\* Nothing is seen: an open call that is refused, or a closed descriptor closed.
LEMMA NothingSeen ==
  ASSUME ShmTyped, Linked(Data), Seen, CfsFiles' = CfsFiles, CfsFds' = CfsFds
  PROVE  Cfs!OpenOrClose
<1>1. Data.files \in Seq(FileRecord) /\ Len(Data.files) \in Nat
  BY DataParts, ListElements DEF ShmTyped
<1>2. CASE 1 \in 1 .. Len(Data.files)
  <2>1. PICK name : name = Data.files[1].name
    OBVIOUS
  <2>2. Data.files[1] \in FileRecord
    BY <1>1, <1>2, ListElements
  <2>3. name \in Name
    BY <2>1, <2>2 DEF FileRecord
  <2>4. name \in CfsFiles
    BY <1>2, <2>1 DEF Seen, IsView
  <2>5. CfsFiles' = CfsFiles \cup {name}
    BY <2>4
  <2>6. Cfs!cfs_open_refused(name)
    BY <2>5 DEF Cfs!cfs_open_refused, CfsFiles, CfsFds
  <2>. QED BY <2>3, <2>6 DEF Cfs!OpenOrClose
<1>3. CASE 1 \notin 1 .. Len(Data.files)
  <2>1. 0 \in FD
    BY ShmAssumption DEF FD
  <2>2. Len(Data.files) = 0
    BY <1>1, <1>3
  <2>3. CfsFds[0] = NULL
    BY <2>1, <2>2 DEF Seen, IsView, Linked
  <2>4. CfsFds = [fd \in FD |-> CfsFds[fd]]
    BY DEF Seen, IsView
  <2>5. CfsFds' = [CfsFds EXCEPT ![0] = NULL]
    BY <2>1, <2>3, <2>4
  <2>6. Cfs!cfs_close(0)
    BY <2>5 DEF Cfs!cfs_close, CfsFiles, CfsFds
  <2>. QED BY <2>1, <2>6 DEF Cfs!OpenOrClose
<1>. QED BY <1>2, <1>3

\* A struct in a free chunk belongs to no file there is.
LEMMA InsideIsNew ==
  ASSUME ShmTyped, NoneFreed, NEW ptr, Inside(free_list, ptr), NEW i \in 1 .. Len(shm_list)
  PROVE  shm_list[i].block.ptr # ptr
<1>1. PICK k \in 1 .. Len(free_list) :
        ptr \in Bytes(free_list[k].addr, FREE_CHUNK + 1 + free_list[k].size)
  BY DEF Inside
<1>2. shm_list[i] \in ToSet(shm_list) /\ free_list[k] \in ToSet(free_list)
  BY Typed, ListElements
<1>. QED BY <1>1, <1>2 DEF NoneFreed

\* A new file with a struct of its own keeps the structs distinct.
LEMMA AddedDistinct ==
  ASSUME NEW d \in DataRecord, Distinct(d), NEW name, NEW e, NEW r, Added(r, d, name, e),
         \A i \in 1 .. Len(d.files) : d.files[i].block.ptr # e.block.ptr
  PROVE  Distinct(r)
<1>1. d.files \in Seq(FileRecord) /\ Len(d.files) \in Nat
  BY DataParts, ListElements
<1>2. PICK t : t = <<e>> \o d.files
  OBVIOUS
<1>3. /\ r.files = t /\ Len(t) = Len(d.files) + 1 /\ t[1] = e
      /\ \A i \in 1 .. Len(d.files) : t[i + 1] = d.files[i]
  <2>1. r.files = t /\ e \in FileRecord
    BY <1>2 DEF Added
  <2>. QED BY <1>1, <1>2, <2>1, InFront
<1>4. \A i \in 1 .. Len(t) : \/ i = 1 /\ t[i] = e
                             \/ i - 1 \in 1 .. Len(d.files) /\ t[i] = d.files[i - 1]
  <2>. TAKE i \in 1 .. Len(t)
  <2>1. i # 1 => i - 1 \in 1 .. Len(d.files) /\ (i - 1) + 1 = i
    BY <1>1, <1>3
  <2>. QED BY <1>3, <2>1
<1>5. ASSUME NEW i \in 1 .. Len(t), NEW j \in 1 .. Len(t),
             t[i].block.ptr = t[j].block.ptr
      PROVE  i = j
  <2>1. CASE i = 1 /\ j # 1
    <3>1. t[i] = e /\ j - 1 \in 1 .. Len(d.files) /\ t[j] = d.files[j - 1]
      BY <1>3, <1>4, <2>1
    <3>2. d.files[j - 1].block.ptr = e.block.ptr
      BY <1>5, <3>1
    <3>. QED BY <3>1, <3>2
  <2>3. CASE i # 1 /\ j = 1
    <3>1. t[j] = e /\ i - 1 \in 1 .. Len(d.files) /\ t[i] = d.files[i - 1]
      BY <1>3, <1>4, <2>3
    <3>2. d.files[i - 1].block.ptr = e.block.ptr
      BY <1>5, <3>1
    <3>. QED BY <3>1, <3>2
  <2>2. CASE i # 1 /\ j # 1
    <3>1. /\ i - 1 \in 1 .. Len(d.files) /\ t[i] = d.files[i - 1]
          /\ j - 1 \in 1 .. Len(d.files) /\ t[j] = d.files[j - 1]
      BY <1>4, <2>2
    <3>2. d.files[i - 1].block.ptr = d.files[j - 1].block.ptr
      BY <1>5, <3>1
    <3>3. i - 1 = j - 1
      BY <3>1, <3>2 DEF Distinct
    <3>. QED BY <1>3, <3>3
  <2>. QED BY <2>1, <2>2, <2>3
<1>. QED BY <1>3, <1>5 DEF Distinct

\* So does removing one.
LEMMA RemovedDistinct ==
  ASSUME NEW d \in DataRecord, Distinct(d), NEW k \in 1 .. Len(d.files),
         NEW r, r.files = RemoveAt(d.files, k)
  PROVE  Distinct(r)
<1>1. PICK s \in Seq(FileRecord) : s = d.files
  BY DataParts
<1>2. PICK t : t = RemoveAt(s, k)
  OBVIOUS
<1>3. IsRemove(s, k, t) /\ Len(s) \in Nat
  <2>1. k \in 1 .. Len(s)
    BY <1>1
  <2>. QED BY <1>2, <2>1, RemoveList, ListElements
<1>4. \A i \in 1 .. Len(t) :
        \/ i < k /\ i \in 1 .. Len(s) /\ t[i] = s[i]
        \/ i >= k /\ i + 1 \in 1 .. Len(s) /\ t[i] = s[i + 1]
  <2>. TAKE i \in 1 .. Len(t)
  <2>1. CASE i < k
    <3>1. i \in 1 .. k - 1 /\ i \in 1 .. Len(s)
      BY <1>1, <1>3, <2>1
    <3>. QED BY <1>3, <2>1, <3>1 DEF IsRemove
  <2>2. CASE i >= k
    <3>1. i + 1 \in k + 1 .. Len(s) /\ (i + 1) - 1 = i /\ i + 1 \in 1 .. Len(s)
      BY <1>1, <1>3, <2>2 DEF IsRemove
    <3>2. t[(i + 1) - 1] = s[i + 1]
      BY <1>3, <3>1 DEF IsRemove
    <3>. QED BY <2>2, <3>1, <3>2
  <2>. QED BY <1>1, <1>3, <2>1, <2>2 DEF IsRemove
<1>5. ASSUME NEW i \in 1 .. Len(t), NEW j \in 1 .. Len(t),
             t[i].block.ptr = t[j].block.ptr
      PROVE  i = j
  <2>1. PICK m \in 1 .. Len(s) : t[i] = s[m] /\ ((i < k /\ m = i) \/ (i >= k /\ m = i + 1))
    BY <1>4
  <2>2. PICK n \in 1 .. Len(s) : t[j] = s[n] /\ ((j < k /\ n = j) \/ (j >= k /\ n = j + 1))
    BY <1>4
  <2>3. m = n
    BY <1>1, <1>5, <2>1, <2>2 DEF Distinct
  <2>. QED BY <1>1, <1>3, <2>1, <2>2, <2>3
<1>. QED BY <1>1, <1>2, <1>5 DEF Distinct

\* The structs of files stay distinct: a new one was in a free chunk.
LEMMA DistinctStep ==
  ASSUME ShmTyped, NoneFreed, Distinct(Data), [Next]_vars
  PROVE  Distinct(Data')
<1>1. Data \in DataRecord /\ Data.files = shm_list /\ Data.fds = open_fd_cache
  BY DEF ShmTyped, Data
<1>2. ASSUME Data'.files = Data.files
      PROVE  Distinct(Data')
  BY <1>2 DEF Distinct
<1>3. ASSUME SameUsers(Data', Data)
      PROVE  Distinct(Data')
  BY <1>2, <1>3 DEF SameUsers
<1>4. ASSUME NEW name \in Name, cfs_open_existing(name)
      PROVE  Distinct(Data')
  BY <1>2, <1>4, OpenExistingStep
<1>5. ASSUME NEW name \in Name, NEW size \in Size, cfs_open_new(name, size)
      PROVE  Distinct(Data')
  <2>. SUFFICES ASSUME NEW e \in FileRecord, Added(Data', Data, name, e),
                       Inside(free_list, e.block.ptr)
                PROVE  Distinct(Data')
    BY <1>3, <1>5, OpenNewStep
  <2>1. PICK r : r = Data'
    OBVIOUS
  <2>2. Added(r, Data, name, e)
    BY <2>1
  <2>3. \A i \in 1 .. Len(Data.files) : Data.files[i].block.ptr # e.block.ptr
    BY <1>1, InsideIsNew
  <2>4. Distinct(r)
    BY <1>1, <2>2, <2>3, AddedDistinct
  <2>. QED BY <2>1, <2>4
<1>6. ASSUME NEW name \in Name, cfs_remove(name)
      PROVE  Distinct(Data')
  <2>. SUFFICES ASSUME NEW k \in 1 .. Len(Data.files),
                       Data'.files = RemoveAt(Data.files, k)
                PROVE  Distinct(Data')
    BY <1>1, <1>3, <1>6, RemoveStep
  <2>1. PICK r : r = Data'
    OBVIOUS
  <2>2. r.files = RemoveAt(Data.files, k)
    BY <2>1
  <2>3. Distinct(r)
    BY <1>1, <2>2, RemovedDistinct
  <2>. QED BY <2>1, <2>3
<1>7. ASSUME NEW fd \in FD, cfs_close(fd)
      PROVE  Distinct(Data')
  BY <1>2, <1>3, <1>7, CloseStep
<1>8. ASSUME NEW fd \in FD, cfs_access(fd) \/ cfs_seek(fd)
      PROVE  Distinct(Data')
  <2>1. FdMoved(Data', Data, fd)
    BY <1>8, MoveStep
  <2>. QED BY <1>2, <2>1 DEF FdMoved
<1>9. ASSUME cfs_format
      PROVE  Distinct(Data')
  <2>1. Data'.files = <<>>
    BY <1>9, FormatStep
  <2>. QED BY <2>1 DEF Distinct
<1>10. ASSUME UNCHANGED vars
       PROVE  Distinct(Data')
  <2>1. Data' = Data
    BY <1>10 DEF vars, Data
  <2>. QED BY <1>2, <2>1
<1>. QED BY <1>4, <1>5, <1>6, <1>7, <1>8, <1>9, <1>10 DEF Next

\* Every call is one of the interface's.
LEMMA StepRefines ==
  ASSUME ShmTyped, Linked(Data), Seen, Seen', Next
  PROVE  \/ Cfs!OpenOrClose
         \/ \E name \in Name : Cfs!cfs_remove(name)
         \/ cfs_format /\ Cfs!cfs_format
<1>1. /\ Data \in DataRecord /\ Data.files = shm_list /\ Data.fds = open_fd_cache
      /\ IsView(Data, CfsFiles, CfsFds) /\ IsView(Data', CfsFiles', CfsFds')
  BY DEF ShmTyped, Data, Seen
<1>0. ASSUME SameUsers(Data', Data)
      PROVE  Cfs!OpenOrClose
  <2>1. PICK r : r = Data'
    OBVIOUS
  <2>2. r.files = Data.files /\ r.fds = Data.fds /\ IsView(r, CfsFiles', CfsFds')
    BY <1>0, <1>1, <2>1 DEF SameUsers
  <2>3. \A fd \in FD : /\ r.fds[fd].shm = Data.fds[fd].shm
                       /\ r.fds[fd] = CLOSED <=> Data.fds[fd] = CLOSED
    BY <2>2
  <2>4. CfsFiles' = CfsFiles /\ CfsFds' = CfsFds
    BY <1>1, <2>2, <2>3, StutterView
  <2>. QED BY <2>4, NothingSeen
<1>2. ASSUME NEW name \in Name, cfs_open_existing(name)
      PROVE  Cfs!OpenOrClose
  <2>1. PICK k \in 1 .. Len(Data.files) :
          /\ Data.files[k].name = name
          /\ Data' \in DataRecord /\ Data'.files = Data.files
          /\ \/ SameUsers(Data', Data)
             \/ \E fd \in FD : FdOpened(Data', Data, fd, Data.files[k].block.ptr)
    BY <1>1, <1>2, OpenExistingStep
  <2>2. CASE SameUsers(Data', Data)
    BY <1>0, <2>2
  <2>3. CASE \E fd \in FD : FdOpened(Data', Data, fd, Data.files[k].block.ptr)
    <3>1. PICK fd \in FD : FdOpened(Data', Data, fd, Data.files[k].block.ptr)
      BY <2>3
    <3>2. PICK r : r = Data'
      OBVIOUS
    <3>3. /\ r.files = Data.files /\ IsView(r, CfsFiles', CfsFds')
          /\ FdOpened(r, Data, fd, Data.files[k].block.ptr)
      BY <1>1, <2>1, <3>1, <3>2
    <3>4. /\ CfsFds[fd] = NULL /\ CfsFiles' = CfsFiles /\ Data.files[k].name \in CfsFiles
          /\ CfsFds' = [CfsFds EXCEPT ![fd] = Data.files[k].name]
      BY <1>1, <3>3, OpenedView
    <3>5. /\ CfsFds[fd] = NULL /\ CfsFiles' = CfsFiles \cup {name}
          /\ CfsFds' = [CfsFds EXCEPT ![fd] = name]
      BY <2>1, <3>4
    <3>6. Cfs!cfs_open(name, fd)
      BY <3>5 DEF Cfs!cfs_open, CfsFiles, CfsFds
    <3>. QED BY <3>6 DEF Cfs!OpenOrClose
  <2>. QED BY <2>1, <2>2, <2>3
<1>3. ASSUME NEW name \in Name, NEW size \in Size, cfs_open_new(name, size)
      PROVE  Cfs!OpenOrClose
  <2>1. SameUsers(Data', Data) \/ \E e \in FileRecord : Added(Data', Data, name, e)
    BY <1>1, <1>3, OpenNewStep
  <2>2. PICK r : r = Data'
    OBVIOUS
  <2>3. IsView(r, CfsFiles', CfsFds')
    BY <1>1, <2>2
  <2>4. CASE SameUsers(Data', Data)
    BY <1>0, <2>4
  <2>5. CASE \E e \in FileRecord : Added(Data', Data, name, e)
    <3>1. PICK e : Added(r, Data, name, e)
      BY <2>2, <2>5
    <3>2. /\ CfsFiles' = CfsFiles \cup {name}
          /\ \/ CfsFds' = CfsFds
             \/ \E fd \in FD : CfsFds[fd] = NULL /\ CfsFds' = [CfsFds EXCEPT ![fd] = name]
      BY <1>1, <2>3, <3>1, AddedView
    <3>3. CASE CfsFds' = CfsFds
      <4>1. Cfs!cfs_open_refused(name)
        BY <3>2, <3>3 DEF Cfs!cfs_open_refused, CfsFiles, CfsFds
      <4>. QED BY <4>1 DEF Cfs!OpenOrClose
    <3>4. CASE \E fd \in FD : CfsFds[fd] = NULL /\ CfsFds' = [CfsFds EXCEPT ![fd] = name]
      <4>1. PICK fd \in FD : CfsFds[fd] = NULL /\ CfsFds' = [CfsFds EXCEPT ![fd] = name]
        BY <3>4
      <4>2. Cfs!cfs_open(name, fd)
        BY <3>2, <4>1 DEF Cfs!cfs_open, CfsFiles, CfsFds
      <4>. QED BY <4>2 DEF Cfs!OpenOrClose
    <3>. QED BY <3>2, <3>3, <3>4
  <2>. QED BY <2>1, <2>4, <2>5
<1>4. ASSUME NEW name \in Name, cfs_remove(name), ~ SameUsers(Data', Data)
      PROVE  Cfs!cfs_remove(name)
  <2>1. PICK k \in 1 .. Len(Data.files) :
          /\ Data.files[k].name = name
          /\ \A fd \in FD : Data.fds[fd].shm # Data.files[k].block.ptr
          /\ Data'.fds = Data.fds /\ Data'.files = RemoveAt(Data.files, k)
    BY <1>1, <1>4, RemoveStep
  <2>2. PICK r : r = Data'
    OBVIOUS
  <2>3. /\ IsView(r, CfsFiles', CfsFds') /\ r.fds = Data.fds
        /\ r.files = RemoveAt(Data.files, k)
    BY <1>1, <2>1, <2>2
  <2>4. /\ CfsFiles' = CfsFiles \ {name}
        /\ CfsFds' = [fd \in FD |-> IF CfsFds[fd] = name THEN NULL ELSE CfsFds[fd]]
    BY <1>1, <2>1, <2>3, RemovedView
  <2>. QED BY <2>4 DEF Cfs!cfs_remove, CfsFiles, CfsFds
<1>5. ASSUME NEW fd \in FD, cfs_close(fd), ~ SameUsers(Data', Data)
      PROVE  Cfs!OpenOrClose
  <2>1. PICK r : r = Data'
    OBVIOUS
  <2>2. /\ r.files = Data.files /\ r.fds = [Data.fds EXCEPT ![fd] = CLOSED]
        /\ IsView(r, CfsFiles', CfsFds')
    BY <1>1, <1>5, <2>1, CloseStep
  <2>3. CfsFiles' = CfsFiles /\ CfsFds' = [CfsFds EXCEPT ![fd] = NULL]
    BY <1>1, <2>2, ClosedView
  <2>4. Cfs!cfs_close(fd)
    BY <2>3 DEF Cfs!cfs_close, CfsFiles, CfsFds
  <2>. QED BY <2>4 DEF Cfs!OpenOrClose
<1>6. ASSUME NEW fd \in FD, cfs_access(fd) \/ cfs_seek(fd)
      PROVE  Cfs!OpenOrClose
  <2>1. PICK r : r = Data'
    OBVIOUS
  <2>2. FdMoved(r, Data, fd)
    BY <1>6, <2>1, MoveStep
  <2>3. /\ r.files = Data.files /\ IsView(r, CfsFiles', CfsFds')
        /\ \A g \in FD : /\ r.fds[g].shm = Data.fds[g].shm
                         /\ r.fds[g] = CLOSED <=> Data.fds[g] = CLOSED
    BY <1>1, <2>1, <2>2 DEF FdMoved
  <2>4. CfsFiles' = CfsFiles /\ CfsFds' = CfsFds
    BY <1>1, <2>3, StutterView
  <2>. QED BY <2>4, NothingSeen
<1>7. ASSUME cfs_format
      PROVE  Cfs!cfs_format
  <2>1. Data'.files = <<>> /\ Data'.fds = [fd \in FD |-> CLOSED]
    BY <1>7, FormatStep
  <2>2. CfsFiles' = {}
    BY <1>1, <2>1 DEF IsView
  <2>3. \A fd \in FD : CfsFds'[fd] = NULL
    BY <1>1, <2>1 DEF IsView
  <2>4. CfsFds' = [fd \in FD |-> CfsFds'[fd]]
    BY <1>1 DEF IsView
  <2>5. CfsFds' = [fd \in FD |-> NULL]
    BY <2>3, <2>4
  <2>. QED BY <2>2, <2>5 DEF Cfs!cfs_format, Cfs!NONE_OPEN, CfsFiles, CfsFds
<1>. QED BY <1>0, <1>2, <1>3, <1>4, <1>5, <1>6, <1>7 DEF Next

\* For every size of the buffer and of files, also 0: as long as no file of the
\* list was freed and no block given out twice, every call does what the front-end
\* expects of a back-end, also one that fails for lack of memory or of a
\* descriptor, whatever structs move in the buffer (shared-mem.c:136-270).
THEOREM ShmImplementsCfs == Spec => ImplementsCfs
<1>. DEFINE Good == ShmTyped /\ Linked(Data)
            Effect == \/ Cfs!OpenOrClose
                      \/ \E name \in Name : Cfs!cfs_remove(name)
                      \/ cfs_format /\ Cfs!cfs_format
<1>1. Good /\ Whole => Distinct(Data)
  BY WholeIsDistinct
<1>2. Good /\ Distinct(Data) => Seen
  BY View DEF Seen
<1>3. Good /\ Whole /\ [Next]_vars => Distinct(Data)'
  <2>. SUFFICES ASSUME ShmTyped, Whole, [Next]_vars, Distinct(Data)
                PROVE  Distinct(Data')
    BY <1>1
  <2>1. NoneFreed
    BY DEF Whole
  <2>. QED BY <2>1, DistinctStep
<1>4. Good /\ Seen /\ Seen' /\ Next => Effect
  BY StepRefines
<1>5. Good /\ Good' /\ [Next]_vars => [Whole => Effect]_vars
  <2>. SUFFICES ASSUME Good, Good', Next, Whole
                PROVE  Effect
    OBVIOUS
  <2>1. Seen
    BY <1>1, <1>2
  <2>2. Distinct(Data)'
    BY <1>3
  <2>3. Seen'
    BY <1>2, <2>2, PTL
  <2>. QED BY <1>4, <2>1, <2>3
<1>6. Spec => []Good
  BY ShmIsTyped
<1>. HIDE DEF Good, Effect
<1>. QED BY <1>5, <1>6, PTL DEF Spec, ImplementsCfs, Effect

-----------------------------------------------------------------------------
(* The bytes that are free: the fold over the list, by its partial sums.    *)

\* The bytes of the chunks whose positions are in a set, the last one last.
SumOver(list, g, n) ==
  g = [s \in SUBSET (1 .. n) |->
         IF s = {} THEN 0 ELSE g[s \ {Max(s)}] + list[Max(s)].size]

\* The greatest of the first n numbers, and of a set that holds it.
LEMMA MaxOfFirst ==
  ASSUME NEW n \in Nat, NEW s \in SUBSET (1 .. n + 1), n + 1 \in s
  PROVE  Max(s) = n + 1
<1>1. \A x \in s : n + 1 >= x
  OBVIOUS
<1>2. Max(s) \in s /\ \A x \in s : Max(s) >= x
  BY <1>1 DEF Max
<1>3. Max(s) >= n + 1 /\ Max(s) \in 1 .. n + 1
  BY <1>2
<1>. QED BY <1>3

\* The sums exist: the fold is defined.
LEMMA SumsExist ==
  ASSUME NEW list \in Seq(Chunk), NEW top \in Nat
  PROVE  \E g : SumOver(list, g, top)
<1>. DEFINE C == {n \in Nat : \E g : SumOver(list, g, n)}
<1>1. 0 \in C
  <2>1. SUBSET (1 .. 0) = {{}}
    OBVIOUS
  <2>2. PICK g : g = [s \in SUBSET (1 .. 0) |-> 0]
    OBVIOUS
  <2>3. SumOver(list, g, 0)
    BY <2>1, <2>2 DEF SumOver
  <2>. QED BY <2>3
<1>2. ASSUME NEW n \in 0 .. top - 1, n \in C
      PROVE  n + 1 \in C
  <2>1. PICK g : SumOver(list, g, n)
    BY <1>2
  <2>2. PICK h : h = [s \in SUBSET (1 .. n + 1) |->
                        IF n + 1 \in s THEN g[s \ {n + 1}] + list[n + 1].size ELSE g[s]]
    OBVIOUS
  <2>3. n \in Nat /\ \A s \in SUBSET (1 .. n + 1) : n + 1 \notin s => s \in SUBSET (1 .. n)
    OBVIOUS
  <2>4. ASSUME NEW s \in SUBSET (1 .. n + 1)
        PROVE  h[s] = IF s = {} THEN 0 ELSE h[s \ {Max(s)}] + list[Max(s)].size
    <3>1. CASE n + 1 \in s
      <4>1. Max(s) = n + 1
        BY <2>3, <3>1, MaxOfFirst
      <4>2. s \ {n + 1} \in SUBSET (1 .. n + 1) /\ n + 1 \notin s \ {n + 1} /\ s # {}
        BY <3>1
      <4>3. h[s \ {n + 1}] = g[s \ {n + 1}]
        BY <2>2, <4>2
      <4>. QED BY <2>2, <3>1, <4>1, <4>2, <4>3
    <3>2. CASE n + 1 \notin s
      <4>1. s \in SUBSET (1 .. n) /\ h[s] = g[s]
        BY <2>2, <2>3, <3>2
      <4>2. g[s] = IF s = {} THEN 0 ELSE g[s \ {Max(s)}] + list[Max(s)].size
        BY <2>1, <4>1 DEF SumOver
      <4>3. s \ {Max(s)} \in SUBSET (1 .. n + 1) /\ n + 1 \notin s \ {Max(s)}
        BY <3>2
      <4>4. h[s \ {Max(s)}] = g[s \ {Max(s)}]
        BY <2>2, <4>3
      <4>. QED BY <4>1, <4>2, <4>4
    <3>. QED BY <3>1, <3>2
  <2>5. SumOver(list, h, n + 1)
    <3>1. h = [s \in SUBSET (1 .. n + 1) |-> h[s]]
      BY <2>2
    <3>2. [s \in SUBSET (1 .. n + 1) |-> h[s]] =
            [s \in SUBSET (1 .. n + 1) |->
               IF s = {} THEN 0 ELSE h[s \ {Max(s)}] + list[Max(s)].size]
      BY <2>4
    <3>. QED BY <3>1, <3>2 DEF SumOver
  <2>. QED BY <2>3, <2>5
<1>. HIDE DEF C
<1>3. top \in 0 .. top
  OBVIOUS
<1>4. top \in C
  BY <1>1, <1>2, <1>3, UpTo
<1>. QED BY <1>4 DEF C

\* The partial sums of a list.
Sums(list, f) ==
  /\ f \in [0 .. Len(list) -> Nat] /\ f[0] = 0
  /\ \A n \in 1 .. Len(list) : f[n] = f[n - 1] + list[n].size

\* Bytesfree is the last partial sum.
LEMMA BytesfreeSums ==
  ASSUME NEW list \in Seq(Chunk)
  PROVE  \E f : Sums(list, f) /\ Bytesfree(list) = f[Len(list)]
<1>1. /\ Len(list) \in Nat /\ DOMAIN list = 1 .. Len(list)
      /\ \A i \in 1 .. Len(list) : list[i].size \in Nat
  BY Chunks
<1>2. PICK top \in Nat : top = Len(list)
  BY <1>1
<1>3. PICK g : g = CHOOSE h : h = [s \in SUBSET (1 .. top) |->
                 IF s = {} THEN 0 ELSE h[s \ {Max(s)}] + list[Max(s)].size]
  OBVIOUS
<1>4. Bytesfree(list) = g[1 .. top]
  BY <1>1, <1>2, <1>3 DEF Bytesfree, FoldLeft, MapThenFoldSet
<1>5. \E h : h = [s \in SUBSET (1 .. top) |->
                    IF s = {} THEN 0 ELSE h[s \ {Max(s)}] + list[Max(s)].size]
  BY SumsExist DEF SumOver
<1>6. SumOver(list, g, top)
  BY <1>3, <1>5 DEF SumOver
<1>7. g[{}] = 0
  BY <1>6 DEF SumOver
<1>8. \A n \in 1 .. top : g[1 .. n] = g[1 .. n - 1] + list[n].size
  <2>. TAKE n \in 1 .. top
  <2>1. PICK m \in Nat : m + 1 = n
    <3>1. n - 1 \in Nat /\ (n - 1) + 1 = n
      OBVIOUS
    <3>. QED BY <3>1
  <2>2. 1 .. n \in SUBSET (1 .. m + 1) /\ m + 1 \in 1 .. n
    BY <2>1
  <2>3. Max(1 .. n) = n
    BY <2>1, <2>2, MaxOfFirst
  <2>4. (1 .. n) \ {n} = 1 .. n - 1
    OBVIOUS
  <2>5. n \in 1 .. n /\ 1 .. n \in SUBSET (1 .. top)
    OBVIOUS
  <2>. QED BY <1>6, <2>3, <2>4, <2>5 DEF SumOver
<1>9. PICK f : f = [n \in 0 .. top |-> g[1 .. n]]
  OBVIOUS
<1>10. f[0] = 0 /\ \A n \in 1 .. top : f[n] = f[n - 1] + list[n].size
  <2>1. 1 .. 0 = {} /\ 0 \in 0 .. top
    OBVIOUS
  <2>2. \A n \in 1 .. top : n \in 0 .. top /\ n - 1 \in 0 .. top
    OBVIOUS
  <2>. QED BY <1>7, <1>8, <1>9, <2>1, <2>2
<1>11. \A n \in 0 .. top : f[n] \in Nat
  <2>. DEFINE C == {n \in 0 .. top : f[n] \in Nat}
  <2>1. 0 \in C
    BY <1>10
  <2>2. \A n \in 0 .. top - 1 : n \in C => n + 1 \in C
    <3>. TAKE n \in 0 .. top - 1
    <3>. HAVE n \in C
    <3>1. n + 1 \in 1 .. top /\ n + 1 \in 0 .. top /\ (n + 1) - 1 = n
      OBVIOUS
    <3>2. f[n + 1] = f[n] + list[n + 1].size
      BY <1>10, <3>1
    <3>3. list[n + 1].size \in Nat
      BY <1>1, <1>2, <3>1
    <3>. QED BY <3>1, <3>2, <3>3
  <2>. HIDE DEF C
  <2>3. \A n \in 0 .. top : n \in C
    BY <2>1, <2>2, UpTo
  <2>. QED BY <2>3 DEF C
<1>12. f \in [0 .. top -> Nat] /\ f[top] = g[1 .. top]
  BY <1>9, <1>11
<1>13. Sums(list, f)
  BY <1>2, <1>10, <1>12 DEF Sums
<1>. QED BY <1>2, <1>4, <1>12, <1>13

\* A chunk that grows by some bytes.
LEMMA ChangedSum ==
  ASSUME NEW list \in Seq(Chunk), NEW new \in Seq(Chunk), NEW k \in 1 .. Len(list),
         Len(new) = Len(list), \A i \in 1 .. Len(list) : i # k => new[i] = list[i],
         NEW delta \in Nat, new[k].size = list[k].size + delta
  PROVE  Bytesfree(new) = Bytesfree(list) + delta /\ Bytesfree(list) \in Nat
<1>1. /\ Len(list) \in Nat
      /\ \A i \in 1 .. Len(list) : list[i].size \in Nat /\ new[i].size \in Nat
  BY Chunks
<1>2. PICK top \in Nat : top = Len(list)
  BY <1>1
<1>3. PICK f : Sums(list, f) /\ Bytesfree(list) = f[top]
  BY <1>2, BytesfreeSums
<1>4. PICK g : Sums(new, g) /\ Bytesfree(new) = g[top]
  BY <1>2, BytesfreeSums
<1>5. /\ f \in [0 .. top -> Nat] /\ f[0] = 0
      /\ \A n \in 1 .. top : f[n] = f[n - 1] + list[n].size
  BY <1>2, <1>3 DEF Sums
<1>6. /\ g \in [0 .. top -> Nat] /\ g[0] = 0
      /\ \A n \in 1 .. top : g[n] = g[n - 1] + new[n].size
  BY <1>2, <1>4 DEF Sums
<1>. DEFINE C == {n \in Nat : g[n] = f[n] + (IF n >= k THEN delta ELSE 0)}
<1>7. 0 \in C
  BY <1>5, <1>6
<1>8. ASSUME NEW n \in 0 .. top - 1, n \in C
      PROVE  n + 1 \in C
  <2>1. n + 1 \in 1 .. top /\ (n + 1) - 1 = n /\ n \in 0 .. top /\ n + 1 \in Nat
    OBVIOUS
  <2>2. f[n + 1] = f[n] + list[n + 1].size /\ g[n + 1] = g[n] + new[n + 1].size
    BY <1>5, <1>6, <2>1
  <2>3. f[n] \in Nat /\ g[n] \in Nat /\ list[n + 1].size \in Nat /\ new[n + 1].size \in Nat
    BY <1>1, <1>2, <1>5, <1>6, <2>1
  <2>4. g[n] = f[n] + (IF n >= k THEN delta ELSE 0)
    BY <1>8
  <2>5. CASE n + 1 < k
    <3>1. new[n + 1] = list[n + 1]
      BY <1>2, <2>1, <2>5
    <3>. QED BY <2>1, <2>2, <2>3, <2>4, <2>5, <3>1
  <2>6. CASE n + 1 = k
    BY <2>1, <2>2, <2>3, <2>4, <2>6
  <2>7. CASE n + 1 > k
    <3>1. new[n + 1] = list[n + 1]
      BY <1>2, <2>1, <2>7
    <3>. QED BY <2>1, <2>2, <2>3, <2>4, <2>7, <3>1
  <2>. QED BY <2>1, <2>5, <2>6, <2>7
<1>. HIDE DEF C
<1>9. top \in 0 .. top
  OBVIOUS
<1>10. top \in C
  BY <1>7, <1>8, <1>9, UpTo
<1>11. top >= k
  BY <1>2
<1>. QED BY <1>3, <1>4, <1>5, <1>9, <1>10, <1>11 DEF C

\* One more chunk.
LEMMA InsertedSum ==
  ASSUME NEW list \in Seq(Chunk), NEW new \in Seq(Chunk), NEW k \in 0 .. Len(list),
         NEW x \in Chunk, IsInsert(list, k, x, new)
  PROVE  Bytesfree(new) = Bytesfree(list) + x.size /\ Bytesfree(list) \in Nat
<1>1. /\ Len(list) \in Nat
      /\ \A i \in 1 .. Len(list) : list[i].size \in Nat
  BY Chunks
<1>2. PICK top \in Nat : top = Len(list)
  BY <1>1
<1>3. PICK f : Sums(list, f) /\ Bytesfree(list) = f[top]
  BY <1>2, BytesfreeSums
<1>4. Len(new) = top + 1
  BY <1>2 DEF IsInsert
<1>5. PICK g : Sums(new, g) /\ Bytesfree(new) = g[top + 1]
  BY <1>4, BytesfreeSums
<1>6. /\ f \in [0 .. top -> Nat] /\ f[0] = 0
      /\ \A n \in 1 .. top : f[n] = f[n - 1] + list[n].size
  BY <1>2, <1>3 DEF Sums
<1>7. /\ g \in [0 .. top + 1 -> Nat] /\ g[0] = 0
      /\ \A n \in 1 .. top + 1 : g[n] = g[n - 1] + new[n].size
  BY <1>4, <1>5 DEF Sums
<1>8. x.size \in Nat
  BY DEF Chunk
<1>9. /\ \A i \in 1 .. k : new[i] = list[i]
      /\ new[k + 1] = x
      /\ \A i \in k + 1 .. top : new[i + 1] = list[i]
  BY <1>2 DEF IsInsert
<1>. DEFINE C == {n \in Nat : /\ n <= k => g[n] = f[n]
                              /\ n >= k => g[n + 1] = f[n] + x.size}
<1>10. k \in 0 .. top
  BY <1>2
<1>11. ASSUME NEW n \in 0 .. top, n <= k => g[n] = f[n], n = k
       PROVE  g[n + 1] = f[n] + x.size
  <2>1. n + 1 \in 1 .. top + 1 /\ (n + 1) - 1 = n
    OBVIOUS
  <2>2. g[n + 1] = g[n] + new[n + 1].size
    BY <1>7, <2>1
  <2>. QED BY <1>9, <1>10, <1>11, <2>2
<1>12. 0 \in C
  <2>1. 0 \in 0 .. top /\ g[0] = f[0]
    BY <1>6, <1>7
  <2>2. 0 >= k => g[0 + 1] = f[0] + x.size
    BY <1>10, <1>11, <2>1
  <2>. QED BY <2>1, <2>2
<1>13. ASSUME NEW n \in 0 .. top - 1, n \in C
       PROVE  n + 1 \in C
  <2>1. /\ n + 1 \in 1 .. top /\ n + 1 \in 0 .. top /\ (n + 1) - 1 = n /\ n \in 0 .. top
        /\ n + 1 \in 1 .. top + 1 /\ n + 1 \in Nat
    OBVIOUS
  <2>2. f[n + 1] = f[n] + list[n + 1].size /\ g[n + 1] = g[n] + new[n + 1].size
    BY <1>6, <1>7, <2>1
  <2>3. f[n] \in Nat /\ list[n + 1].size \in Nat
    BY <1>1, <1>2, <1>6, <2>1
  <2>4. n + 1 <= k => g[n + 1] = f[n + 1]
    <3>. HAVE n + 1 <= k
    <3>1. n + 1 \in 1 .. k /\ n <= k
      BY <1>10, <2>1
    <3>. QED BY <1>9, <1>13, <2>2, <3>1
  <2>5. n + 1 >= k => g[(n + 1) + 1] = f[n + 1] + x.size
    <3>1. CASE n + 1 = k
      BY <1>11, <2>1, <2>4, <3>1
    <3>2. CASE n + 1 > k
      <4>1. /\ n >= k /\ n + 1 \in k + 1 .. top /\ (n + 1) + 1 \in 1 .. top + 1
            /\ ((n + 1) + 1) - 1 = n + 1
        BY <1>10, <2>1, <3>2
      <4>2. g[(n + 1) + 1] = g[n + 1] + new[(n + 1) + 1].size
        BY <1>7, <4>1
      <4>3. g[n + 1] = f[n] + x.size
        BY <1>13, <4>1
      <4>4. new[(n + 1) + 1] = list[n + 1]
        BY <1>9, <4>1
      <4>. QED BY <1>8, <2>2, <2>3, <4>2, <4>3, <4>4
    <3>. QED BY <1>10, <2>1, <3>1, <3>2
  <2>. QED BY <2>1, <2>4, <2>5
<1>. HIDE DEF C
<1>14. top \in 0 .. top /\ top >= k
  BY <1>10
<1>15. top \in C
  BY <1>12, <1>13, <1>14, UpTo
<1>. QED BY <1>3, <1>5, <1>6, <1>14, <1>15 DEF C

-----------------------------------------------------------------------------
(* Every struct in use can be given back.                                   *)

\* The bytes of a block are free once it is in the list.
LEMMA InsertedBytes ==
  ASSUME NEW list \in Seq(Chunk), NEW k \in 0 .. Len(list), NEW block \in Given,
         NEW new \in Seq(Chunk), Inserted(list, k, block, new)
  PROVE  Bytesfree(new) >= Bytesfree(list) + block.size
<1>1. /\ Len(list) \in Nat
      /\ \A i \in 1 .. Len(list) : list[i] \in Chunk /\ list[i].size \in Nat
                                   /\ list[i].addr \in Nat
  BY Chunks
<1>2. block.ptr \in Nat /\ block.ptr > FREE_CHUNK /\ block.size \in Nat \ {0}
  BY DEF Given
<1>3. CASE /\ Meets(list, k, block)
           /\ new = [list EXCEPT ![k + 1] =
                       [addr |-> block.ptr - FREE_CHUNK - 1,
                        size |-> block.size + FREE_CHUNK + list[k + 1].size]]
  <2>1. k + 1 \in 1 .. Len(list)
    BY <1>1, <1>3 DEF Meets
  <2>2. PICK c : c = [addr |-> block.ptr - FREE_CHUNK - 1,
                      size |-> block.size + FREE_CHUNK + list[k + 1].size]
    OBVIOUS
  <2>3. PICK delta : delta = block.size + FREE_CHUNK
    OBVIOUS
  <2>4. c \in Chunk /\ c.size = list[k + 1].size + delta /\ delta \in Nat
    <3>1. block.ptr - FREE_CHUNK - 1 \in Nat
      BY <1>2 DEF FREE_CHUNK
    <3>2. block.size + FREE_CHUNK + list[k + 1].size \in Nat \ {0}
      BY <1>1, <1>2, <2>1 DEF FREE_CHUNK
    <3>3. block.size + FREE_CHUNK + list[k + 1].size = list[k + 1].size + delta
      BY <1>1, <1>2, <2>1, <2>3 DEF FREE_CHUNK
    <3>4. delta \in Nat
      BY <1>2, <2>3 DEF FREE_CHUNK
    <3>. QED BY <2>2, <3>1, <3>2, <3>3, <3>4 DEF Chunk
  <2>5. PICK j \in 1 .. Len(list) : j = k + 1
    BY <2>1
  <2>6. /\ Len(new) = Len(list) /\ new[j] = c
        /\ \A i \in 1 .. Len(list) : i # j => new[i] = list[i]
    BY <1>3, <2>2, <2>4, <2>5, ChangeChunk
  <2>7. new[j].size = list[j].size + delta
    BY <2>4, <2>5, <2>6
  <2>8. Bytesfree(new) = Bytesfree(list) + delta /\ Bytesfree(list) \in Nat
    BY <2>4, <2>6, <2>7, ChangedSum
  <2>. QED BY <1>2, <2>3, <2>8 DEF FREE_CHUNK
<1>4. CASE /\ Follows(list, k, block)
           /\ new = [list EXCEPT ![k] =
                       [addr |-> list[k].addr,
                        size |-> list[k].size + FREE_CHUNK + block.size]]
  <2>1. k \in 1 .. Len(list)
    BY <1>1, <1>4 DEF Follows
  <2>2. PICK c : c = [addr |-> list[k].addr,
                      size |-> list[k].size + FREE_CHUNK + block.size]
    OBVIOUS
  <2>3. PICK delta : delta = FREE_CHUNK + block.size
    OBVIOUS
  <2>4. c \in Chunk /\ c.size = list[k].size + delta /\ delta \in Nat
    <3>1. list[k].size + FREE_CHUNK + block.size \in Nat \ {0}
      BY <1>1, <1>2, <2>1 DEF FREE_CHUNK
    <3>2. list[k].size + FREE_CHUNK + block.size = list[k].size + delta
      <4>1. PICK n \in Nat : n = list[k].size
        BY <1>1, <2>1
      <4>2. PICK m \in Nat : m = block.size
        BY <1>2
      <4>3. (n + 4) + m = n + (4 + m)
        BY SMT
      <4>. QED BY <2>3, <4>1, <4>2, <4>3 DEF FREE_CHUNK
    <3>3. delta \in Nat
      BY <1>2, <2>3 DEF FREE_CHUNK
    <3>. QED BY <1>1, <2>1, <2>2, <3>1, <3>2, <3>3 DEF Chunk
  <2>5. /\ Len(new) = Len(list) /\ new[k] = c
        /\ \A i \in 1 .. Len(list) : i # k => new[i] = list[i]
    BY <1>4, <2>1, <2>2, <2>4, ChangeChunk
  <2>6. new[k].size = list[k].size + delta
    BY <2>4, <2>5
  <2>7. Bytesfree(new) = Bytesfree(list) + delta /\ Bytesfree(list) \in Nat
    BY <2>1, <2>4, <2>5, <2>6, ChangedSum
  <2>. QED BY <1>2, <2>3, <2>7 DEF FREE_CHUNK
<1>5. CASE new = InsertAt(list, k + 1,
                   [addr |-> block.ptr - FREE_CHUNK - 1, size |-> block.size])
  <2>1. PICK c : c = [addr |-> block.ptr - FREE_CHUNK - 1, size |-> block.size]
    OBVIOUS
  <2>2. c \in Chunk /\ c.size = block.size
    BY <1>2, <2>1 DEF Chunk, FREE_CHUNK
  <2>3. new = InsertAt(list, k + 1, c)
    BY <1>5, <2>1
  <2>4. IsInsert(list, k, c, new)
    BY <2>2, <2>3, InsertList
  <2>5. Bytesfree(new) = Bytesfree(list) + c.size /\ Bytesfree(list) \in Nat
    BY <2>2, <2>4, InsertedSum
  <2>. QED BY <1>2, <2>2, <2>5
<1>. QED BY <1>3, <1>4, <1>5 DEF Inserted

\* A list stays in order when a chunk is moved or inserted between its neighbours.
LEMMA InsertedAscends ==
  ASSUME NEW list \in Seq(Chunk), Ascending(list), NEW k \in 0 .. Len(list),
         NEW block \in Given, NEW new \in Seq(Chunk), Inserted(list, k, block, new),
         k > 0 => list[k].addr < block.ptr - FREE_CHUNK - 1,
         k < Len(list) => block.ptr < list[k + 1].addr
  PROVE  Ascending(new)
<1>1. /\ Len(list) \in Nat /\ DOMAIN list = 1 .. Len(list)
      /\ \A i \in 1 .. Len(list) : list[i] \in Chunk /\ list[i].addr \in Nat
                                   /\ list[i].size \in Nat
  BY Chunks
<1>2. Len(new) \in Nat /\ DOMAIN new = 1 .. Len(new)
  BY Chunks
<1>3. block.ptr \in Nat /\ block.ptr > FREE_CHUNK /\ block.size \in Nat \ {0}
  BY DEF Given
<1>4. PICK addr \in Nat : addr = block.ptr - FREE_CHUNK - 1
  BY <1>3 DEF FREE_CHUNK
<1>5. \A i \in 1 .. Len(list) : i <= k => list[i].addr < addr
  <2>. TAKE i \in 1 .. Len(list)
  <2>. HAVE i <= k
  <2>1. k \in 1 .. Len(list) /\ list[k].addr < addr
    BY <1>1, <1>4
  <2>2. i < k => list[i].addr < list[k].addr
    BY <1>1, <2>1 DEF Ascending
  <2>3. list[i].addr \in Nat /\ list[k].addr \in Nat
    BY <1>1, <2>1
  <2>. QED BY <2>1, <2>2, <2>3
<1>6. \A i \in 1 .. Len(list) : i > k => addr < list[i].addr
  <2>. TAKE i \in 1 .. Len(list)
  <2>. HAVE i > k
  <2>1. k + 1 \in 1 .. Len(list) /\ block.ptr < list[k + 1].addr
    BY <1>1
  <2>2. addr < list[k + 1].addr
    BY <1>1, <1>3, <1>4, <2>1 DEF FREE_CHUNK
  <2>3. k + 1 < i => list[k + 1].addr < list[i].addr
    BY <1>1, <2>1 DEF Ascending
  <2>4. list[i].addr \in Nat /\ list[k + 1].addr \in Nat
    BY <1>1, <2>1
  <2>. QED BY <2>2, <2>3, <2>4
<1>7. \A i, j \in 1 .. Len(list) : i < j => list[i].addr < list[j].addr
  BY <1>1 DEF Ascending
<1>8. CASE /\ Meets(list, k, block)
           /\ new = [list EXCEPT ![k + 1] =
                       [addr |-> block.ptr - FREE_CHUNK - 1,
                        size |-> block.size + FREE_CHUNK + list[k + 1].size]]
  <2>1. PICK m \in 1 .. Len(list) : m = k + 1
    BY <1>1, <1>8 DEF Meets
  <2>2. PICK c : c = [addr |-> addr, size |-> block.size + FREE_CHUNK + list[m].size]
    OBVIOUS
  <2>3. c \in Chunk /\ c.addr = addr
    <3>1. block.size + FREE_CHUNK + list[m].size \in Nat \ {0}
      BY <1>1, <1>3, <2>1 DEF FREE_CHUNK
    <3>. QED BY <2>2, <3>1 DEF Chunk
  <2>4. /\ Len(new) = Len(list) /\ new[m] = c
        /\ \A i \in 1 .. Len(list) : i # m => new[i] = list[i]
    BY <1>4, <1>8, <2>1, <2>2, <2>3, ChangeChunk
  <2>5. ASSUME NEW i \in 1 .. Len(list), NEW j \in 1 .. Len(list), i < j
        PROVE  new[i].addr < new[j].addr
    <3>1. CASE i # m /\ j # m
      BY <1>7, <2>4, <2>5, <3>1
    <3>2. CASE i = m
      <4>1. j > k /\ j # m
        BY <2>1, <2>5, <3>2
      <4>. QED BY <1>6, <2>3, <2>4, <3>2, <4>1
    <3>3. CASE j = m
      <4>1. i <= k /\ i # m
        BY <2>1, <2>5, <3>3
      <4>. QED BY <1>5, <2>3, <2>4, <3>3, <4>1
    <3>. QED BY <3>1, <3>2, <3>3
  <2>. QED BY <1>2, <2>4, <2>5 DEF Ascending
<1>9. CASE /\ Follows(list, k, block)
           /\ new = [list EXCEPT ![k] =
                       [addr |-> list[k].addr,
                        size |-> list[k].size + FREE_CHUNK + block.size]]
  <2>1. k \in 1 .. Len(list)
    BY <1>1, <1>9 DEF Follows
  <2>2. PICK c : c = [addr |-> list[k].addr,
                      size |-> list[k].size + FREE_CHUNK + block.size]
    OBVIOUS
  <2>3. c \in Chunk /\ c.addr = list[k].addr
    <3>1. list[k].size + FREE_CHUNK + block.size \in Nat \ {0}
      BY <1>1, <1>3, <2>1 DEF FREE_CHUNK
    <3>. QED BY <1>1, <2>1, <2>2, <3>1 DEF Chunk
  <2>4. /\ Len(new) = Len(list) /\ new[k] = c
        /\ \A i \in 1 .. Len(list) : i # k => new[i] = list[i]
    BY <1>9, <2>1, <2>2, <2>3, ChangeChunk
  <2>5. \A i \in 1 .. Len(list) : new[i].addr = list[i].addr
    BY <2>3, <2>4
  <2>. QED BY <1>2, <1>7, <2>4, <2>5 DEF Ascending
<1>10. CASE new = InsertAt(list, k + 1,
                    [addr |-> block.ptr - FREE_CHUNK - 1, size |-> block.size])
  <2>1. PICK c : c = [addr |-> addr, size |-> block.size]
    OBVIOUS
  <2>2. c \in Chunk /\ c.addr = addr
    BY <1>3, <2>1 DEF Chunk
  <2>3. new = InsertAt(list, k + 1, c)
    BY <1>4, <1>10, <2>1
  <2>4. IsInsert(list, k, c, new)
    BY <2>2, <2>3, InsertList
  <2>5. \A i \in 1 .. Len(new) :
          \/ i <= k /\ i \in 1 .. Len(list) /\ new[i] = list[i]
          \/ i = k + 1 /\ new[i] = c
          \/ i > k + 1 /\ i - 1 \in 1 .. Len(list) /\ new[i] = list[i - 1]
    <3>. TAKE i \in 1 .. Len(new)
    <3>1. CASE i <= k
      <4>1. i \in 1 .. k /\ i \in 1 .. Len(list)
        BY <1>1, <3>1
      <4>. QED BY <2>4, <3>1, <4>1 DEF IsInsert
    <3>2. CASE i = k + 1
      BY <2>4, <3>2 DEF IsInsert
    <3>3. CASE i > k + 1
      <4>1. i - 1 \in k + 1 .. Len(list) /\ i - 1 \in 1 .. Len(list) /\ (i - 1) + 1 = i
        BY <1>1, <2>4, <3>3 DEF IsInsert
      <4>2. new[(i - 1) + 1] = list[i - 1]
        BY <2>4, <4>1 DEF IsInsert
      <4>. QED BY <3>3, <4>1, <4>2
    <3>. QED BY <1>1, <3>1, <3>2, <3>3
  <2>6. ASSUME NEW i \in 1 .. Len(new), NEW j \in 1 .. Len(new), i < j
        PROVE  new[i].addr < new[j].addr
    <3>1. CASE i <= k
      <4>1. i \in 1 .. Len(list) /\ new[i] = list[i]
        BY <1>1, <2>5, <3>1
      <4>2. CASE j <= k
        <5>1. j \in 1 .. Len(list) /\ new[j] = list[j]
          BY <1>1, <2>5, <4>2
        <5>. QED BY <1>7, <2>6, <4>1, <5>1
      <4>3. CASE j = k + 1
        <5>1. new[j] = c
          BY <1>1, <2>5, <4>3
        <5>. QED BY <1>5, <2>2, <3>1, <4>1, <5>1
      <4>4. CASE j > k + 1
        <5>1. j - 1 \in 1 .. Len(list) /\ new[j] = list[j - 1] /\ i < j - 1
          BY <1>1, <2>5, <3>1, <4>4
        <5>. QED BY <1>7, <4>1, <5>1
      <4>. QED BY <1>1, <4>2, <4>3, <4>4
    <3>2. CASE i = k + 1
      <4>1. j - 1 \in 1 .. Len(list) /\ new[j] = list[j - 1] /\ j - 1 > k /\ new[i] = c
        BY <1>1, <2>5, <2>6, <3>2
      <4>. QED BY <1>6, <2>2, <4>1
    <3>3. CASE i > k + 1
      <4>1. i - 1 \in 1 .. Len(list) /\ new[i] = list[i - 1]
        BY <1>1, <2>5, <3>3
      <4>2. j - 1 \in 1 .. Len(list) /\ new[j] = list[j - 1] /\ i - 1 < j - 1
        BY <1>1, <2>5, <2>6, <3>3
      <4>. QED BY <1>7, <4>1, <4>2
    <3>. QED BY <1>1, <3>1, <3>2, <3>3
  <2>. QED BY <1>2, <2>6 DEF Ascending
<1>. QED BY <1>8, <1>9, <1>10 DEF Inserted

\* Where no block was given out twice, a struct lies apart from the free chunks.
LEMMA StructApart ==
  ASSUME ShmTyped, Whole, NEW s \in Structs
  PROVE  /\ s.block \in Given /\ s.block.ptr < INIT_BUF_SIZE
         /\ \A k \in 1 .. Len(free_list) :
              /\ free_list[k].addr # s.block.ptr
              /\ free_list[k].addr < s.block.ptr =>
                   free_list[k].addr < s.block.ptr - FREE_CHUNK - 1
<1>1. /\ free_list \in Seq(Chunk) /\ shm_list \in Seq(FileRecord)
      /\ open_fd_cache \in [FD -> OpenRecord]
  BY Typed
<1>2. /\ DOMAIN free_list = 1 .. Len(free_list)
      /\ \A k \in 1 .. Len(free_list) : free_list[k].addr \in Nat
  BY <1>1, Chunks
<1>3. /\ s.block \in Given /\ s.size \in {SHM_ENTRY, OPEN_SHM_ENTRY}
      /\ s.of[1] \in {"file", "fd"}
  <2>1. CASE \E i \in DOMAIN shm_list :
               s = [of |-> <<"file", i>>, block |-> shm_list[i].block, size |-> SHM_ENTRY]
    <3>1. PICK i \in DOMAIN shm_list :
            s = [of |-> <<"file", i>>, block |-> shm_list[i].block, size |-> SHM_ENTRY]
      BY <2>1
    <3>2. shm_list[i] \in FileRecord
      BY <1>1, ListElements
    <3>3. shm_list[i].block \in Given
      BY <3>2 DEF FileRecord
    <3>. QED BY <3>1, <3>3
  <2>2. CASE \E fd \in FD :
               /\ open_fd_cache[fd] # CLOSED
               /\ s = [of |-> <<"fd", fd>>, block |-> open_fd_cache[fd].block,
                       size |-> OPEN_SHM_ENTRY]
    <3>1. PICK fd \in FD :
            /\ open_fd_cache[fd] # CLOSED
            /\ s = [of |-> <<"fd", fd>>, block |-> open_fd_cache[fd].block,
                    size |-> OPEN_SHM_ENTRY]
      BY <2>2
    <3>2. open_fd_cache[fd].block \in Given
      BY <1>1, <3>1 DEF OpenRecord
    <3>. QED BY <3>1, <3>2
  <2>. QED BY <2>1, <2>2 DEF Structs
<1>4. PICK ptr \in Nat : ptr = s.block.ptr /\ ptr > FREE_CHUNK
  BY <1>3 DEF Given
<1>5. PICK header : header = Area("header", s.of, ptr - FREE_CHUNK - 1, FREE_CHUNK)
  OBVIOUS
<1>6. PICK struct : struct = Area("struct", s.of, ptr, s.size)
  OBVIOUS
<1>7. header \in Areas /\ struct \in Areas
  BY <1>4, <1>5, <1>6 DEF Areas
<1>8. /\ \A x \in Areas : x.bytes \subseteq Bytes(0, INIT_BUF_SIZE)
      /\ \A x, y \in Areas : x # y => x.bytes \cap y.bytes = {}
  BY DEF Whole, GivesFreeMemory
<1>9. header.bytes = ptr - 5 .. ptr - 2
  BY <1>4, <1>5 DEF Area, Bytes, FREE_CHUNK
<1>10. ptr \in struct.bytes
  <2>1. struct.bytes = ptr .. ptr + s.size - 1
    BY <1>6 DEF Area, Bytes
  <2>2. s.size \in Nat /\ s.size >= 1
    BY <1>3 DEF SHM_ENTRY, OPEN_SHM_ENTRY
  <2>. QED BY <2>1, <2>2
<1>11. ptr < INIT_BUF_SIZE
  <2>1. ptr \in Bytes(0, INIT_BUF_SIZE)
    BY <1>7, <1>8, <1>10
  <2>. QED BY <2>1, ShmAssumption DEF Bytes
<1>12. ASSUME NEW k \in 1 .. Len(free_list)
       PROVE  /\ free_list[k].addr # ptr
              /\ free_list[k].addr < ptr => free_list[k].addr < ptr - FREE_CHUNK - 1
  <2>1. PICK a \in Nat : a = free_list[k].addr
    BY <1>2
  <2>2. PICK chunk : chunk = Area("header", <<"free", k>>, a, FREE_CHUNK)
    OBVIOUS
  <2>3. chunk \in Areas
    BY <1>2, <2>1, <2>2 DEF Areas
  <2>4. chunk.bytes = a .. a + 3
    BY <2>2 DEF Area, Bytes, FREE_CHUNK
  <2>5. chunk # header /\ chunk # struct
    <3>1. chunk.of[1] = "free" /\ header.of = s.of /\ struct.of = s.of
      BY <1>5, <1>6, <2>2 DEF Area
    <3>. QED BY <1>3, <3>1
  <2>6. chunk.bytes \cap header.bytes = {} /\ chunk.bytes \cap struct.bytes = {}
    BY <1>7, <1>8, <2>3, <2>5
  <2>7. ptr \notin a .. a + 3
    BY <1>10, <2>4, <2>6
  <2>8. a \notin ptr - 5 .. ptr - 2
    BY <1>9, <2>4, <2>6
  <2>9. a # ptr /\ (a < ptr => a < ptr - FREE_CHUNK - 1)
    BY <2>7, <2>8 DEF FREE_CHUNK
  <2>. QED BY <2>1, <2>9
<1>. QED BY <1>3, <1>4, <1>11, <1>12

\* A struct that is given back is found a place, and its bytes are free.
LEMMA StructReturns ==
  ASSUME ShmTyped, Whole, Ascending(free_list), control = "ready", NEW s \in Structs,
         NEW list, list = my_free(Data, s.block).free
  PROVE  Ascending(list) /\ Bytesfree(list) >= Bytesfree(free_list) + s.block.size
<1>1. /\ Data \in DataRecord /\ Data.free = free_list /\ Data.control = "ready"
      /\ free_list \in Seq(Chunk)
  BY Typed DEF ShmTyped, Data
<1>2. PICK block \in Given : block = s.block
  BY StructApart
<1>3. /\ block.ptr < INIT_BUF_SIZE
      /\ \A k \in 1 .. Len(free_list) :
           /\ free_list[k].addr # block.ptr
           /\ free_list[k].addr < block.ptr =>
                free_list[k].addr < block.ptr - FREE_CHUNK - 1
  BY <1>2, StructApart
<1>4. PICK new \in Seq(Chunk) :
        my_free(Data, block) = WithFree(Data, new) /\ Freed(free_list, block, new)
  BY <1>1, <1>2, FreeGives
<1>5. list = new
  BY <1>1, <1>2, <1>4, FreeOnly
<1>6. block.ptr \in Nat
  BY DEF Given
<1>7. Places(free_list, block.ptr) # {}
  BY <1>1, <1>3, <1>6, PlaceExists
<1>8. ~ (block.ptr >= INIT_BUF_SIZE)
  BY <1>3, <1>6, ShmAssumption
<1>9. PICK k \in 0 .. Len(free_list) :
        FirstPlace(free_list, block.ptr, k) /\ Inserted(free_list, k, block, new)
  BY <1>4, <1>7, <1>8 DEF Freed
<1>10. Len(free_list) \in Nat
  BY <1>1, Chunks
<1>11. k > 0 => free_list[k].addr < block.ptr - FREE_CHUNK - 1
  <2>. HAVE k > 0
  <2>1. k \in 1 .. Len(free_list)
    BY <1>10
  <2>2. free_list[k].addr < block.ptr
    BY <1>9, <2>1 DEF FirstPlace, Places
  <2>. QED BY <1>3, <2>1, <2>2
<1>12. k < Len(free_list) => block.ptr < free_list[k + 1].addr
  BY <1>9 DEF FirstPlace, Places
<1>13. Ascending(new)
  BY <1>1, <1>9, <1>11, <1>12, InsertedAscends
<1>14. Bytesfree(new) >= Bytesfree(free_list) + block.size
  BY <1>1, <1>9, InsertedBytes
<1>. QED BY <1>2, <1>5, <1>13, <1>14

\* For every size of the buffer and of files, and in every state in which no
\* block was given out twice: each struct in use can be given back; my_free finds
\* it a place, keeps the order of the list, and all of the struct's bytes are free
\* again (my_malloc.c:98-140).
THEOREM ShmBlocksReturn == Spec => []BlocksReturn
<1>1. ShmTyped => BlocksReturn
  BY StructReturns DEF BlocksReturn
<1>. QED BY <1>1, ShmIsTyped, PTL

=============================================================================
