------------------------------ MODULE SfsProofs ------------------------------
(***************************************************************************)
(* Theorems about Sfs, for every number of files, permissions, descriptors *)
(* and modules, and whatever the back-end refuses.                         *)
(***************************************************************************)
EXTENDS Sfs, TLAPS, FiniteSetTheorems, SequenceTheorems, LeastElements

-----------------------------------------------------------------------------
(* The inductive invariant: what holds of the data of a call, once the      *)
(* front-end is initialised.                                                *)

PermRecord == [sm_id : SM \cup {NULL}, flags : SUBSET Bit, file : File \cup {NULL}]
FileRecord == [name : Name \cup {NULL}, open_count : Int, acl : Seq(Perm)]
Contents == {"absent", "empty", "data"}

DataRecord ==
  [perm : [Perm -> PermRecord], file : [File -> FileRecord],
   freePerms : Seq(Perm), freeFiles : Seq(File), files : Seq(File),
   fds : [FD -> Perm \cup {NULL}],
   cfs : [CFS_FD -> Name \cup {NULL}], content : [Name -> Contents]]

\* The files of d are the ones with a name; all others are free and cleared.
FilesInv(d) ==
  /\ IsInjective(d.freeFiles) /\ IsInjective(d.files)
  /\ \A f \in File :
       IF f \in ToSet(d.files)
       THEN f \notin ToSet(d.freeFiles) /\ d.file[f].name \in Name
       ELSE f \in ToSet(d.freeFiles) /\ d.file[f] = NoFile
  /\ \A f, g \in ToSet(d.files) : d.file[f].name = d.file[g].name => f = g

\* The permissions that belong to a file are its access control list; all others
\* are free and cleared.
PermsInv(d) ==
  /\ IsInjective(d.freePerms)
  /\ \A p \in Perm : p \in ToSet(d.freePerms) <=> d.perm[p].file = NULL
  /\ \A p \in Perm : d.perm[p].file = NULL => d.perm[p] = NoPerm
  /\ \A f \in File :
       /\ IsInjective(d.file[f].acl)
       /\ \A p \in Perm : p \in ToSet(d.file[f].acl) <=> d.perm[p].file = f
  /\ \A p \in Perm : d.perm[p].file # NULL =>
       /\ d.perm[p].sm_id \in SM /\ d.perm[p].flags # {}
       /\ d.perm[p].file \in ToSet(d.files)

\* A module has one entry in a list, and the first entry is the creator's.
AclInv(d) ==
  /\ \A p, q \in Perm : /\ d.perm[p].file # NULL
                        /\ d.perm[p].file = d.perm[q].file
                        /\ d.perm[p].sm_id = d.perm[q].sm_id
                        => p = q
  /\ \A f \in ToSet(d.files) :
       d.file[f].acl # <<>> /\ d.perm[Head(d.file[f].acl)].flags = SFS_CREATOR

\* The descriptors cached for file f.
Connections(d, f) == {fd \in FD : d.fds[fd] # NULL /\ d.perm[d.fds[fd]].file = f}

\* The cached descriptors have a permission, and are the ones that are counted and
\* the ones that are open in the back-end.
FdsInv(d) ==
  /\ \A fd \in FD : d.fds[fd] # NULL => d.perm[d.fds[fd]].file # NULL
  /\ \A f \in File : d.file[f].open_count = Cardinality(Connections(d, f))
  /\ \A fd \in CFS_FD :
       d.cfs[fd] = IF fd \in FD /\ d.fds[fd] # NULL
                   THEN d.file[d.perm[d.fds[fd]].file].name ELSE NULL

Good(d) == d \in DataRecord /\ FilesInv(d) /\ PermsInv(d) /\ AclInv(d) /\ FdsInv(d)

\* Before the initialisation nothing is there but the files of the back-end.
Cleared(d) ==
  /\ d \in DataRecord
  /\ d.perm = [p \in Perm |-> NoPerm] /\ d.file = [f \in File |-> NoFile]
  /\ d.freePerms = <<>> /\ d.freeFiles = <<>> /\ d.files = <<>>
  /\ d.fds = [fd \in FD |-> NULL] /\ d.cfs = [fd \in CFS_FD |-> NULL]

SfsInv ==
  /\ INIT_DONE \in BOOLEAN
  /\ IF INIT_DONE THEN Good(Data) ELSE Cleared(Data)

-----------------------------------------------------------------------------
(* Lists without repetitions.                                               *)

\* The sets of elements of sequences, by the positions 1 .. Len.
LEMMA ListElements ==
  ASSUME NEW S, NEW s \in Seq(S)
  PROVE  /\ ToSet(s) = {s[i] : i \in 1 .. Len(s)} /\ ToSet(s) \subseteq S
         /\ Len(s) \in Nat
         /\ IsInjective(s) <=> \A i, j \in 1 .. Len(s) : s[i] = s[j] => i = j
         /\ s = <<>> <=> ToSet(s) = {}
         /\ s # <<>> => Head(s) = s[1] /\ Len(s) >= 1 /\ Head(s) \in ToSet(s)
<1>1. /\ Len(s) \in Nat /\ DOMAIN s = 1 .. Len(s)
      /\ \A i \in 1 .. Len(s) : s[i] \in S
  BY LenProperties
<1>2. ToSet(s) = {s[i] : i \in 1 .. Len(s)}
  BY <1>1 DEF ToSet
<1>3. ToSet(s) \subseteq S
  BY <1>1, <1>2
<1>4. IsInjective(s) <=> \A i, j \in 1 .. Len(s) : s[i] = s[j] => i = j
  BY <1>1 DEF IsInjective
<1>5. s # <<>> <=> Len(s) # 0
  BY EmptySeq
<1>6. s = <<>> <=> ToSet(s) = {}
  <2>1. s # <<>> => 1 \in 1 .. Len(s)
    BY <1>1, <1>5
  <2>2. s = <<>> => 1 .. Len(s) = {}
    BY <1>5
  <2>. QED BY <1>2, <2>1, <2>2
<1>7. s # <<>> => Head(s) = s[1] /\ Len(s) >= 1 /\ Head(s) \in ToSet(s)
  <2>1. s # <<>> => Len(s) >= 1 /\ 1 \in 1 .. Len(s)
    BY <1>1, <1>5
  <2>2. s # <<>> => Head(s) = s[1]
    OBVIOUS
  <2>. QED BY <1>2, <2>1, <2>2
<1>. QED BY <1>1, <1>2, <1>3, <1>4, <1>6, <1>7

\* The empty list.
LEMMA EmptyList == ToSet(<<>>) = {} /\ IsInjective(<<>>)
<1>1. <<>> \in Seq(Int) /\ Len(<<>>) = 0
  OBVIOUS
<1>2. PICK s \in Seq(Int) : s = <<>> /\ Len(s) = 0
  BY <1>1, Zenon
<1>3. 1 .. 0 = {}
  OBVIOUS
<1>4. /\ ToSet(s) = {} <=> s = <<>>
      /\ IsInjective(s) <=> \A i, j \in 1 .. Len(s) : s[i] = s[j] => i = j
  BY ListElements
<1>5. \A i, j \in 1 .. 0 : s[i] = s[j] => i = j
  BY <1>3
<1>6. ToSet(s) = {} /\ IsInjective(s)
  BY <1>2, <1>4, <1>5
<1>. QED BY <1>2, <1>6

\* An element is put in front.
LEMMA PushList ==
  ASSUME NEW S, NEW s \in Seq(S), NEW x \in S
  PROVE  /\ <<x>> \o s \in Seq(S)
         /\ ToSet(<<x>> \o s) = ToSet(s) \cup {x}
         /\ IsInjective(s) /\ x \notin ToSet(s) => IsInjective(<<x>> \o s)
<1>. DEFINE t == <<x>> \o s
<1>1. <<x>> \in Seq(S) /\ Len(<<x>>) = 1 /\ <<x>>[1] = x
  OBVIOUS
<1>2. /\ t \in Seq(S) /\ Len(t) = Len(s) + 1 /\ Len(s) \in Nat
      /\ \A i \in 1 .. Len(s) + 1 : t[i] = IF i <= 1 THEN x ELSE s[i - 1]
  BY <1>1, ConcatProperties, ListElements
<1>. HIDE DEF t
<1>3. t[1] = x /\ \A i \in 1 .. Len(s) : t[i + 1] = s[i]
  BY <1>2
<1>4. \A j \in 1 .. Len(t) : j = 1 \/ \E i \in 1 .. Len(s) : j = i + 1
  <2>1. \A j \in 1 .. Len(t) : j # 1 => j - 1 \in 1 .. Len(s) /\ j = (j - 1) + 1
    BY <1>2
  <2>. QED BY <2>1
<1>5. ToSet(t) = ToSet(s) \cup {x}
  <2>1. ToSet(s) = {s[i] : i \in 1 .. Len(s)} /\ ToSet(t) = {t[i] : i \in 1 .. Len(t)}
    BY <1>2, ListElements
  <2>2. 1 \in 1 .. Len(t) /\ \A i \in 1 .. Len(s) : i + 1 \in 1 .. Len(t)
    BY <1>2
  <2>3. x \in ToSet(t) /\ ToSet(s) \subseteq ToSet(t)
    BY <1>3, <2>1, <2>2
  <2>4. ToSet(t) \subseteq ToSet(s) \cup {x}
    BY <1>3, <1>4, <2>1, SMTT(30)
  <2>. QED BY <2>3, <2>4
<1>6. ASSUME IsInjective(s), x \notin ToSet(s)
      PROVE  IsInjective(t)
  <2>. SUFFICES ASSUME NEW i \in 1 .. Len(t), NEW j \in 1 .. Len(t), t[i] = t[j]
                PROVE  i = j
    BY <1>2, ListElements
  <2>1. \A k \in 1 .. Len(s) : s[k] # x
    BY <1>6, ListElements
  <2>2. \A k, l \in 1 .. Len(s) : s[k] = s[l] => k = l
    BY <1>6, ListElements
  <2>3. CASE i = 1 \/ j = 1
    BY <1>3, <1>4, <2>1, <2>3
  <2>4. CASE i # 1 /\ j # 1
    <3>1. PICK k \in 1 .. Len(s) : i = k + 1
      BY <1>4, <2>4
    <3>2. PICK l \in 1 .. Len(s) : j = l + 1
      BY <1>4, <2>4
    <3>. QED BY <1>3, <2>2, <3>1, <3>2
  <2>. QED BY <2>3, <2>4
<1>. QED BY <1>2, <1>5, <1>6 DEF t

\* The first element is taken.
LEMMA PopList ==
  ASSUME NEW S, NEW s \in Seq(S), s # <<>>, IsInjective(s)
  PROVE  /\ Head(s) \in S /\ Tail(s) \in Seq(S) /\ IsInjective(Tail(s))
         /\ ToSet(Tail(s)) = ToSet(s) \ {Head(s)}
<1>1. /\ Head(s) \in S /\ Tail(s) \in Seq(S) /\ Len(Tail(s)) = Len(s) - 1
      /\ Len(s) \in Nat \ {0} /\ Head(s) = s[1]
      /\ \A i \in 1 .. Len(Tail(s)) : Tail(s)[i] = s[i + 1]
  BY HeadTailProperties, EmptySeq
<1>2. \A i, j \in 1 .. Len(s) : s[i] = s[j] => i = j
  BY ListElements
<1>. DEFINE t == Tail(s)
<1>3. /\ ToSet(s) = {s[i] : i \in 1 .. Len(s)} /\ ToSet(t) = {t[i] : i \in 1 .. Len(t)}
      /\ IsInjective(t) <=> \A i, j \in 1 .. Len(t) : t[i] = t[j] => i = j
  BY <1>1, ListElements
<1>4. /\ \A i \in 1 .. Len(t) : i + 1 \in 1 .. Len(s) /\ i + 1 # 1
      /\ \A i, j \in 1 .. Len(t) : i + 1 = j + 1 => i = j
      /\ \A i \in 1 .. Len(t) : t[i] = s[i + 1]
      /\ 1 \in 1 .. Len(s)
  BY <1>1
<1>5. ASSUME NEW i \in 1 .. Len(t), NEW j \in 1 .. Len(t), t[i] = t[j]
      PROVE  i = j
  <2>1. s[i + 1] = s[j + 1] /\ i + 1 \in 1 .. Len(s) /\ j + 1 \in 1 .. Len(s)
    BY <1>4, <1>5
  <2>2. i + 1 = j + 1
    BY <1>2, <2>1
  <2>. QED BY <1>4, <2>2
<1>6. IsInjective(Tail(s))
  BY <1>3, <1>5
<1>7. ToSet(Tail(s)) \subseteq ToSet(s) \ {Head(s)}
  <2>. SUFFICES ASSUME NEW i \in 1 .. Len(t)
                PROVE  t[i] \in ToSet(s) \ {Head(s)}
    BY <1>3
  <2>1. t[i] = s[i + 1] /\ i + 1 \in 1 .. Len(s) /\ i + 1 # 1
    BY <1>4
  <2>. QED BY <1>1, <1>2, <1>3, <1>4, <2>1
<1>8. ToSet(s) \ {Head(s)} \subseteq ToSet(Tail(s))
  <2>. SUFFICES ASSUME NEW i \in 1 .. Len(s), i # 1
                PROVE  s[i] \in ToSet(Tail(s))
    BY <1>1, <1>3
  <2>1. i - 1 \in 1 .. Len(t) /\ i = (i - 1) + 1
    BY <1>1
  <2>2. t[i - 1] = s[i]
    BY <1>4, <2>1
  <2>. QED BY <1>3, <2>1, <2>2
<1>. QED BY <1>1, <1>6, <1>7, <1>8

\* An element is appended.
LEMMA AppendList ==
  ASSUME NEW S, NEW s \in Seq(S), NEW x \in S
  PROVE  /\ Append(s, x) \in Seq(S) /\ Append(s, x) # <<>>
         /\ ToSet(Append(s, x)) = ToSet(s) \cup {x}
         /\ IsInjective(s) /\ x \notin ToSet(s) => IsInjective(Append(s, x))
         /\ s # <<>> => Head(Append(s, x)) = Head(s)
<1>. DEFINE t == Append(s, x)
<1>1. /\ t \in Seq(S) /\ t # <<>> /\ Len(t) = Len(s) + 1 /\ Len(s) \in Nat
      /\ \A i \in 1 .. Len(s) : t[i] = s[i]
      /\ t[Len(s) + 1] = x
  BY AppendProperties, ListElements
<1>2. s # <<>> => Head(t) = Head(s)
  BY HeadTailAppend
<1>. HIDE DEF t
<1>3. ToSet(t) = ToSet(s) \cup {x}
  <2>1. ToSet(s) = {s[i] : i \in 1 .. Len(s)} /\ ToSet(t) = {t[i] : i \in 1 .. Len(t)}
    BY <1>1, ListElements
  <2>2. /\ Len(s) + 1 \in 1 .. Len(t) /\ 1 .. Len(s) \subseteq 1 .. Len(t)
        /\ \A i \in 1 .. Len(t) : i = Len(s) + 1 \/ i \in 1 .. Len(s)
    BY <1>1
  <2>3. x \in ToSet(t) /\ ToSet(s) \subseteq ToSet(t)
    BY <1>1, <2>1, <2>2
  <2>4. ToSet(t) \subseteq ToSet(s) \cup {x}
    BY <1>1, <2>1, <2>2
  <2>. QED BY <2>3, <2>4
<1>4. ASSUME IsInjective(s), x \notin ToSet(s)
      PROVE  IsInjective(t)
  BY <1>1, <1>4, ListElements
<1>. QED BY <1>1, <1>2, <1>3, <1>4 DEF t

\* The element at a position is taken out.
LEMMA CutList ==
  ASSUME NEW S, NEW s \in Seq(S), IsInjective(s), NEW k \in 1 .. Len(s)
  PROVE  /\ RemoveAt(s, k) \in Seq(S) /\ IsInjective(RemoveAt(s, k))
         /\ ToSet(RemoveAt(s, k)) = ToSet(s) \ {s[k]}
         /\ k # 1 => RemoveAt(s, k) # <<>> /\ Head(RemoveAt(s, k)) = Head(s)
<1>. DEFINE front == SubSeq(s, 1, k - 1)
            back == SubSeq(s, k + 1, Len(s))
            t == RemoveAt(s, k)
<1>1. Len(s) \in Nat /\ k \in Nat /\ k >= 1 /\ k <= Len(s)
      /\ \A i \in 1 .. Len(s) : s[i] \in S
  BY ListElements, ElementOfSeq
<1>2. /\ front \in Seq(S) /\ Len(front) = k - 1
      /\ \A i \in 1 .. k - 1 : front[i] = s[i]
  <2>1. k - 1 \in Int /\ \A i \in 1 .. k - 1 : s[i] \in S
    BY <1>1
  <2>2. /\ front \in Seq(S) /\ Len(front) = IF 1 <= k - 1 THEN k - 1 - 1 + 1 ELSE 0
        /\ \A i \in 1 .. k - 1 - 1 + 1 : front[i] = s[1 + i - 1]
    BY <2>1, SubSeqProperties
  <2>. HIDE DEF front
  <2>. QED BY <1>1, <2>2
<1>3. /\ back \in Seq(S) /\ Len(back) = Len(s) - k
      /\ \A i \in 1 .. Len(s) - k : back[i] = s[k + i]
  <2>1. k + 1 \in Int /\ Len(s) \in Int /\ \A i \in k + 1 .. Len(s) : s[i] \in S
    BY <1>1
  <2>2. /\ back \in Seq(S)
        /\ Len(back) = IF k + 1 <= Len(s) THEN Len(s) - (k + 1) + 1 ELSE 0
        /\ \A i \in 1 .. Len(s) - (k + 1) + 1 : back[i] = s[k + 1 + i - 1]
    BY <2>1, SubSeqProperties
  <2>. HIDE DEF back
  <2>. QED BY <1>1, <2>2
<1>4. t = front \o back
  BY DEF RemoveAt
<1>. HIDE DEF front, back, t
<1>5. /\ t \in Seq(S) /\ Len(t) = Len(s) - 1
      /\ \A i \in 1 .. Len(t) : t[i] = IF i < k THEN s[i] ELSE s[i + 1]
  <2>1. /\ t \in Seq(S) /\ Len(t) = Len(front) + Len(back)
        /\ \A i \in 1 .. Len(front) + Len(back) :
             t[i] = IF i <= Len(front) THEN front[i] ELSE back[i - Len(front)]
    BY <1>2, <1>3, <1>4, ConcatProperties
  <2>2. ASSUME NEW i \in 1 .. Len(s) - 1
        PROVE  t[i] = IF i < k THEN s[i] ELSE s[i + 1]
    <3>1. CASE i < k
      <4>1. i \in 1 .. k - 1 /\ i \in 1 .. Len(front) + Len(back) /\ i <= Len(front)
        BY <1>1, <1>2, <1>3, <3>1
      <4>. QED BY <1>2, <2>1, <3>1, <4>1
    <3>2. CASE ~ (i < k)
      <4>1. i - Len(front) \in 1 .. Len(s) - k /\ k + (i - Len(front)) = i + 1
        BY <1>1, <1>2, <3>2
      <4>2. i \in 1 .. Len(front) + Len(back) /\ ~ (i <= Len(front))
        BY <1>1, <1>2, <1>3, <3>2
      <4>3. t[i] = back[i - Len(front)]
        BY <2>1, <4>2
      <4>4. back[i - Len(front)] = s[k + (i - Len(front))]
        BY <1>3, <4>1
      <4>. QED BY <3>2, <4>1, <4>3, <4>4
    <3>. QED BY <3>1, <3>2
  <2>. QED BY <1>1, <1>2, <1>3, <2>1, <2>2
<1>6. \A i, j \in 1 .. Len(s) : s[i] = s[j] => i = j
  BY ListElements
<1>7. IsInjective(t)
  <2>. SUFFICES ASSUME NEW i \in 1 .. Len(t), NEW j \in 1 .. Len(t), t[i] = t[j]
                PROVE  i = j
    BY <1>5, ListElements
  <2>. DEFINE old(n) == IF n < k THEN n ELSE n + 1
  <2>1. old(i) \in 1 .. Len(s) /\ old(j) \in 1 .. Len(s)
        /\ t[i] = s[old(i)] /\ t[j] = s[old(j)]
    BY <1>1, <1>5
  <2>2. old(i) = old(j)
    BY <1>6, <2>1
  <2>. QED BY <2>2
<1>10. ToSet(s) = {s[i] : i \in 1 .. Len(s)} /\ ToSet(t) = {t[i] : i \in 1 .. Len(t)}
  BY <1>5, ListElements
<1>8. ToSet(t) = ToSet(s) \ {s[k]}
  <2>1. ASSUME NEW i \in 1 .. Len(t)
        PROVE  t[i] \in ToSet(s) \ {s[k]}
    <3>. DEFINE n == IF i < k THEN i ELSE i + 1
    <3>1. n \in 1 .. Len(s) /\ t[i] = s[n] /\ n # k
      BY <1>1, <1>5
    <3>. HIDE DEF n
    <3>2. s[n] # s[k]
      BY <1>6, <3>1
    <3>. QED BY <1>10, <3>1, <3>2
  <2>2. ASSUME NEW n \in 1 .. Len(s), s[n] # s[k]
        PROVE  s[n] \in ToSet(t)
    <3>. DEFINE i == IF n < k THEN n ELSE n - 1
    <3>1. n # k
      BY <2>2
    <3>2. i \in 1 .. Len(t) /\ t[i] = s[n]
      BY <1>1, <1>5, <3>1
    <3>. HIDE DEF i
    <3>. QED BY <1>10, <3>2
  <2>. QED BY <1>10, <2>1, <2>2
<1>9. k # 1 => t # <<>> /\ Head(t) = Head(s)
  <2>. SUFFICES ASSUME k # 1 PROVE t # <<>> /\ Head(t) = Head(s)
    OBVIOUS
  <2>1. 1 \in 1 .. Len(t) /\ t[1] = s[1]
    BY <1>1, <1>5
  <2>2. t # <<>> /\ s # <<>>
    BY <1>1, <1>5, <2>1, EmptySeq
  <2>. QED BY <1>5, <2>1, <2>2, ListElements
<1>. QED BY <1>5, <1>7, <1>8, <1>9 DEF t

\* A list is reversed and put in front of another.
LEMMA ReverseOnto ==
  ASSUME NEW S, NEW r \in Seq(S), NEW s \in Seq(S)
  PROVE  /\ Reverse(r) \o s \in Seq(S)
         /\ ToSet(Reverse(r) \o s) = ToSet(r) \cup ToSet(s)
         /\ IsInjective(r) /\ IsInjective(s) /\ ToSet(r) \cap ToSet(s) = {}
              => IsInjective(Reverse(r) \o s)
<1>. DEFINE v == Reverse(r)
            t == v \o s
            n == Len(r)
<1>1. n \in Nat /\ Len(s) \in Nat /\ \A i \in 1 .. n : r[i] \in S
  BY ListElements, ElementOfSeq
<1>2. v = [i \in 1 .. n |-> r[(n - i) + 1]]
  BY DEF Reverse
<1>. HIDE DEF v
<1>3. \A i \in 1 .. n : (n - i) + 1 \in 1 .. n /\ (n - ((n - i) + 1)) + 1 = i
  BY <1>1
<1>4. v \in [1 .. n -> S]
  BY <1>1, <1>2, <1>3
<1>5. v \in Seq(S) /\ Len(v) = n
  BY <1>1, <1>4
<1>6. /\ t \in Seq(S) /\ Len(t) = n + Len(s)
      /\ \A i \in 1 .. n + Len(s) : t[i] = IF i <= n THEN v[i] ELSE s[i - n]
  <2>1. /\ t \in Seq(S) /\ Len(t) = Len(v) + Len(s)
        /\ \A i \in 1 .. Len(v) + Len(s) : t[i] = IF i <= Len(v) THEN v[i] ELSE s[i - Len(v)]
    BY <1>5, ConcatProperties
  <2>. HIDE DEF t, n
  <2>. QED BY <1>5, <2>1
<1>. HIDE DEF t, n
<1>7. /\ \A i \in 1 .. n : t[i] = r[(n - i) + 1]
      /\ \A i \in 1 .. Len(s) : t[i + n] = s[i]
  <2>1. ASSUME NEW i \in 1 .. n PROVE t[i] = r[(n - i) + 1]
    BY <1>1, <1>2, <1>6
  <2>2. ASSUME NEW i \in 1 .. Len(s) PROVE t[i + n] = s[i]
    <3>1. i + n \in 1 .. n + Len(s) /\ ~ (i + n <= n) /\ (i + n) - n = i
      BY <1>1
    <3>. QED BY <1>6, <3>1
  <2>. QED BY <2>1, <2>2
<1>8. \A j \in 1 .. Len(t) : j \in 1 .. n \/ \E i \in 1 .. Len(s) : j = i + n
  <2>1. \A j \in 1 .. Len(t) : j \notin 1 .. n => j - n \in 1 .. Len(s) /\ j = (j - n) + n
    BY <1>1, <1>6
  <2>. QED BY <2>1
<1>9. ToSet(r) = {r[i] : i \in 1 .. n} /\ ToSet(s) = {s[i] : i \in 1 .. Len(s)}
      /\ ToSet(t) = {t[i] : i \in 1 .. Len(t)}
  BY <1>6, ListElements DEF n
<1>10. ToSet(t) = ToSet(r) \cup ToSet(s)
  <2>1. ToSet(t) \subseteq ToSet(r) \cup ToSet(s)
    BY <1>3, <1>7, <1>8, <1>9
  <2>2. ASSUME NEW i \in 1 .. n PROVE r[i] \in ToSet(t)
    <3>1. (n - i) + 1 \in 1 .. n /\ t[(n - i) + 1] = r[i] /\ (n - i) + 1 \in 1 .. Len(t)
      BY <1>1, <1>3, <1>6, <1>7
    <3>. QED BY <1>9, <3>1
  <2>3. ASSUME NEW i \in 1 .. Len(s) PROVE s[i] \in ToSet(t)
    <3>1. i + n \in 1 .. Len(t) /\ t[i + n] = s[i]
      BY <1>1, <1>6, <1>7
    <3>. QED BY <1>9, <3>1
  <2>. QED BY <1>9, <2>1, <2>2, <2>3
<1>11. ASSUME IsInjective(r), IsInjective(s), ToSet(r) \cap ToSet(s) = {}
       PROVE  IsInjective(t)
  <2>1. /\ \A i, j \in 1 .. n : r[i] = r[j] => i = j
        /\ \A i, j \in 1 .. Len(s) : s[i] = s[j] => i = j
    BY <1>11, ListElements DEF n
  <2>. SUFFICES ASSUME NEW i \in 1 .. Len(t), NEW j \in 1 .. Len(t), t[i] = t[j]
                PROVE  i = j
    BY <1>6, ListElements
  <2>2. CASE i \in 1 .. n /\ j \in 1 .. n
    <3>1. (n - i) + 1 = (n - j) + 1
      BY <1>3, <1>7, <2>1, <2>2
    <3>. QED BY <1>1, <2>2, <3>1
  <2>3. CASE i \notin 1 .. n /\ j \notin 1 .. n
    BY <1>7, <1>8, <2>1, <2>3
  <2>4. CASE i \in 1 .. n /\ j \notin 1 .. n
    <3>1. t[i] \in ToSet(r) /\ t[j] \in ToSet(s)
      BY <1>3, <1>7, <1>8, <1>9, <2>4
    <3>. QED BY <1>11, <3>1
  <2>5. CASE i \notin 1 .. n /\ j \in 1 .. n
    <3>1. t[i] \in ToSet(s) /\ t[j] \in ToSet(r)
      BY <1>3, <1>7, <1>8, <1>9, <2>5
    <3>. QED BY <1>11, <3>1
  <2>. QED BY <2>2, <2>3, <2>4, <2>5
<1>. QED BY <1>6, <1>10, <1>11 DEF t, v

-----------------------------------------------------------------------------
(* Looking up files and permissions.                                        *)

\* The least number of a non-empty set of positions.
LEMMA MinIsLeast ==
  ASSUME NEW I, I \subseteq Nat, I # {}
  PROVE  Min(I) \in I
<1>1. \E m \in I : \A n \in I : m <= n
  BY LeastElement
<1>. QED BY <1>1 DEF Min

\* Position finds an entry of the module, if there is one.
LEMMA PositionFound ==
  ASSUME NEW d, NEW f, NEW sm, d.file[f].acl \in Seq(Perm)
  PROVE  LET k == Position(d, f, sm)
             acl == d.file[f].acl
         IN  \/ k = 0 /\ \A p \in ToSet(acl) : d.perm[p].sm_id # sm
             \/ /\ k # 0 /\ k \in 1 .. Len(acl) /\ acl[k] \in ToSet(acl)
                /\ d.perm[acl[k]].sm_id = sm
<1>. DEFINE acl == d.file[f].acl
            I == {i \in 1 .. Len(acl) : d.perm[acl[i]].sm_id = sm}
<1>1. Position(d, f, sm) = IF I # {} THEN Min(I) ELSE 0
  BY DEF Position, SelectInSeq
<1>2. ToSet(acl) = {acl[i] : i \in 1 .. Len(acl)} /\ Len(acl) \in Nat
  BY ListElements
<1>3. I # {} => Min(I) \in I
  <2>1. I \subseteq Nat
    BY <1>2
  <2>. QED BY <2>1, MinIsLeast
<1>. DEFINE k == Position(d, f, sm)
<1>4. CASE I = {}
  <2>1. k = 0
    BY <1>1, <1>4
  <2>2. \A p \in ToSet(acl) : d.perm[p].sm_id # sm
    BY <1>2, <1>4
  <2>. QED BY <2>1, <2>2
<1>5. CASE I # {}
  <2>1. k \in I
    BY <1>1, <1>3, <1>5
  <2>2. k # 0 /\ k \in 1 .. Len(acl) /\ acl[k] \in ToSet(acl)
    BY <1>2, <2>1
  <2>. QED BY <2>1, <2>2
<1>. QED BY <1>4, <1>5

\* FilePosition finds the file of that name, if there is one.
LEMMA FilePositionFound ==
  ASSUME NEW d, NEW name, d.files \in Seq(File)
  PROVE  LET k == FilePosition(d, name)
         IN  \/ k = 0 /\ \A f \in ToSet(d.files) : d.file[f].name # name
             \/ /\ k # 0 /\ k \in 1 .. Len(d.files) /\ d.files[k] \in ToSet(d.files)
                /\ d.file[d.files[k]].name = name
<1>. DEFINE I == {i \in 1 .. Len(d.files) : d.file[d.files[i]].name = name}
<1>1. FilePosition(d, name) = IF I # {} THEN Min(I) ELSE 0
  BY DEF FilePosition, SelectInSeq
<1>2. ToSet(d.files) = {d.files[i] : i \in 1 .. Len(d.files)} /\ Len(d.files) \in Nat
  BY ListElements
<1>3. I # {} => Min(I) \in I
  <2>1. I \subseteq Nat
    BY <1>2
  <2>. QED BY <2>1, MinIsLeast
<1>. DEFINE k == FilePosition(d, name)
<1>4. CASE I = {}
  <2>1. k = 0
    BY <1>1, <1>4
  <2>2. \A f \in ToSet(d.files) : d.file[f].name # name
    BY <1>2, <1>4
  <2>. QED BY <2>1, <2>2
<1>5. CASE I # {}
  <2>1. k \in I
    BY <1>1, <1>3, <1>5
  <2>2. k # 0 /\ k \in 1 .. Len(d.files) /\ d.files[k] \in ToSet(d.files)
    BY <1>2, <2>1
  <2>. QED BY <2>1, <2>2
<1>. QED BY <1>4, <1>5

\* What the data of the front-end is made of.
LEMMA GoodTypes ==
  ASSUME NEW d, d \in DataRecord
  PROVE  /\ d.perm \in [Perm -> PermRecord] /\ d.file \in [File -> FileRecord]
         /\ d.freePerms \in Seq(Perm) /\ d.freeFiles \in Seq(File) /\ d.files \in Seq(File)
         /\ d.fds \in [FD -> Perm \cup {NULL}]
         /\ d.cfs \in [CFS_FD -> Name \cup {NULL}] /\ d.content \in [Name -> Contents]
         /\ \A f \in File : d.file[f].acl \in Seq(Perm) /\ d.file[f].open_count \in Int
                            /\ d.file[f].name \in Name \cup {NULL}
         /\ ToSet(d.files) \subseteq File /\ NULL \notin File /\ NULL \notin Perm
         /\ \A p \in Perm : d.perm[p] \in PermRecord
<1>1. d.files \in Seq(File)
  BY DEF DataRecord
<1>2. ToSet(d.files) \subseteq File
  BY <1>1, ListElements
<1>3. NULL \notin File /\ NULL \notin Perm
  BY DEF NULL, File, Perm
<1>4. /\ d.perm \in [Perm -> PermRecord] /\ d.file \in [File -> FileRecord]
      /\ d.freePerms \in Seq(Perm) /\ d.freeFiles \in Seq(File) /\ d.files \in Seq(File)
      /\ d.fds \in [FD -> Perm \cup {NULL}]
      /\ d.cfs \in [CFS_FD -> Name \cup {NULL}] /\ d.content \in [Name -> Contents]
  BY DEF DataRecord
<1>5. \A f \in File : d.file[f].acl \in Seq(Perm) /\ d.file[f].open_count \in Int
                       /\ d.file[f].name \in Name \cup {NULL}
  BY <1>4 DEF FileRecord
<1>. QED BY <1>2, <1>3, <1>4, <1>5

\* A name is looked up.
LEMMA LookupFile ==
  ASSUME NEW d, Good(d), NEW name \in Name
  PROVE  LET f == LOOKUP_FILE(d, name)
         IN  \/ f = NULL /\ \A g \in ToSet(d.files) : d.file[g].name # name
             \/ /\ f # NULL /\ f \in ToSet(d.files) /\ f \in File /\ d.file[f].name = name
                /\ FilePosition(d, name) \in 1 .. Len(d.files)
                /\ f = d.files[FilePosition(d, name)]
<1>1. d.files \in Seq(File) /\ ToSet(d.files) \subseteq File /\ NULL \notin File
  BY GoodTypes DEF Good
<1>. QED BY <1>1, FilePositionFound DEF LOOKUP_FILE

\* A module is looked up in the list of a file.
LEMMA LookupPerm ==
  ASSUME NEW d, Good(d), NEW f \in File, NEW sm
  PROVE  LET p == LOOKUP_PERM(d, f, sm)
         IN  \/ /\ p = NULL /\ Position(d, f, sm) = 0
                /\ \A q \in Perm : d.perm[q].file = f => d.perm[q].sm_id # sm
             \/ /\ p # NULL /\ p \in Perm /\ d.perm[p].file = f /\ d.perm[p].sm_id = sm
                /\ Position(d, f, sm) \in 1 .. Len(d.file[f].acl)
                /\ p = d.file[f].acl[Position(d, f, sm)]
<1>1. d.file[f].acl \in Seq(Perm) /\ NULL \notin Perm
  BY GoodTypes DEF Good
<1>2. ToSet(d.file[f].acl) \subseteq Perm
  BY <1>1, ListElements
<1>3. \A p \in Perm : p \in ToSet(d.file[f].acl) <=> d.perm[p].file = f
  BY DEF Good, PermsInv
<1>. QED BY <1>1, <1>2, <1>3, PositionFound DEF LOOKUP_PERM

\* A successful lookup in two phases finds a file and a permission for it.
LEMMA TwoPhases ==
  ASSUME NEW d, Good(d), NEW name \in Name, NEW want, NEW sm,
         two_phase_lookup(d, name, want, sm)
  PROVE  LET f == LOOKUP_FILE(d, name)
             p == LOOKUP_PERM(d, f, sm)
         IN  /\ f \in ToSet(d.files) /\ f \in File /\ f # NULL /\ d.file[f].name = name
             /\ FilePosition(d, name) \in 1 .. Len(d.files)
             /\ f = d.files[FilePosition(d, name)]
             /\ p \in Perm /\ d.perm[p].file = f /\ d.perm[p].sm_id = sm
             /\ want \subseteq d.perm[p].flags
<1>1. LOOKUP_FILE(d, name) # NULL
  BY DEF two_phase_lookup
<1>2. LOOKUP_PERM(d, LOOKUP_FILE(d, name), sm) # NULL
      /\ want \subseteq d.perm[LOOKUP_PERM(d, LOOKUP_FILE(d, name), sm)].flags
  BY DEF two_phase_lookup, CHK_PERM
<1>. QED BY <1>1, <1>2, LookupFile, LookupPerm

-----------------------------------------------------------------------------
(* The steps of a call keep the data good.                                  *)

\* The front-end's data is the same; what the back-end's files contain does not
\* matter.
SameFrontEnd(d, e) ==
  /\ e.perm = d.perm /\ e.file = d.file /\ e.freePerms = d.freePerms
  /\ e.freeFiles = d.freeFiles /\ e.files = d.files /\ e.fds = d.fds

\* What the back-end stores does not matter to the invariant.
LEMMA ContentGood ==
  ASSUME NEW d, Good(d), NEW e \in DataRecord, SameFrontEnd(d, e), e.cfs = d.cfs
  PROVE  Good(e)
<1>1. \A f : Connections(e, f) = Connections(d, f)
  BY DEF Connections, SameFrontEnd
<1>2. FilesInv(e)
  BY DEF Good, FilesInv, SameFrontEnd
<1>3. PermsInv(e)
  BY DEF Good, PermsInv, SameFrontEnd
<1>4. AclInv(e)
  BY DEF Good, AclInv, SameFrontEnd
<1>5. FdsInv(e)
  BY <1>1 DEF Good, FdsInv, SameFrontEnd
<1>. QED BY <1>2, <1>3, <1>4, <1>5 DEF Good

\* What cfs_open does to the data: it may create the file, and may give a new
\* descriptor for it.
LEMMA BackEndOpens ==
  ASSUME NEW d \in DataRecord, NEW name \in Name, NEW r \in cfs_open(d, name)
  PROVE  /\ r.d \in DataRecord /\ SameFrontEnd(d, r.d)
         /\ \/ r.fd = -1 /\ r.d.cfs = d.cfs
            \/ /\ r.fd \in CFS_FD /\ d.cfs[r.fd] = NULL
               /\ r.d.cfs = [d.cfs EXCEPT ![r.fd] = name]
<1>. DEFINE content == [d.content EXCEPT ![name] = IF @ = "absent" THEN "empty" ELSE @]
            created == [d EXCEPT !.content = content]
<1>1. content \in [Name -> Contents]
  <2>1. d.content \in [Name -> Contents]
    BY GoodTypes
  <2>2. \A c \in Contents : (IF c = "absent" THEN "empty" ELSE c) \in Contents
    BY DEF Contents
  <2>. QED BY <2>1, <2>2
<1>2. created = [d EXCEPT !.content[name] = IF @ = "absent" THEN "empty" ELSE @]
  OBVIOUS
<1>. HIDE DEF content
<1>3. /\ created \in DataRecord /\ SameFrontEnd(d, created) /\ created.cfs = d.cfs
  BY <1>1 DEF DataRecord, SameFrontEnd
<1>4. /\ d \in DataRecord /\ SameFrontEnd(d, d)
  BY DEF SameFrontEnd
<1>5. \/ r = [fd |-> -1, d |-> d] \/ r = [fd |-> -1, d |-> created]
      \/ \E fd \in CFS_FD : d.cfs[fd] = NULL
           /\ r = [fd |-> fd, d |-> [created EXCEPT !.cfs[fd] = name]]
  BY <1>2, ZenonT(60) DEF cfs_open
<1>. HIDE DEF created
<1>6. ASSUME NEW fd \in CFS_FD, d.cfs[fd] = NULL,
             r = [fd |-> fd, d |-> [created EXCEPT !.cfs[fd] = name]]
      PROVE  /\ r.d \in DataRecord /\ SameFrontEnd(d, r.d)
             /\ r.fd = fd /\ r.d.cfs = [d.cfs EXCEPT ![r.fd] = name]
  <2>1. [created.cfs EXCEPT ![fd] = name] \in [CFS_FD -> Name \cup {NULL}]
    BY <1>3 DEF DataRecord
  <2>. QED BY <1>3, <1>6, <2>1 DEF DataRecord, SameFrontEnd
<1>. QED BY <1>3, <1>4, <1>5, <1>6

\* Writing the counter, or the list, of one file.
LEMMA SetFile ==
  ASSUME NEW file \in [File -> FileRecord], NEW f \in File
  PROVE  /\ \A n \in Int :
              LET new == [file EXCEPT ![f].open_count = n]
              IN  /\ new \in [File -> FileRecord] /\ new[f].open_count = n
                  /\ \A g \in File : new[g].name = file[g].name /\ new[g].acl = file[g].acl
                  /\ \A g \in File \ {f} : new[g] = file[g]
         /\ \A acl \in Seq(Perm) :
              LET new == [file EXCEPT ![f].acl = acl]
              IN  /\ new \in [File -> FileRecord] /\ new[f].acl = acl
                  /\ \A g \in File : /\ new[g].name = file[g].name
                                     /\ new[g].open_count = file[g].open_count
                  /\ \A g \in File \ {f} : new[g] = file[g]
  BY DEF FileRecord

\* The files differ in how often they are open only.
SameFiles(d, e) ==
  /\ e.freeFiles = d.freeFiles /\ e.files = d.files
  /\ \A g \in File : e.file[g].name = d.file[g].name /\ e.file[g].acl = d.file[g].acl
  /\ \A g \in File \ ToSet(d.files) : e.file[g] = d.file[g]

\* Opening and closing leaves the files, the entries and the lists in order.
LEMMA SameFilesGood ==
  ASSUME NEW d, Good(d), NEW e, SameFiles(d, e),
         e.perm = d.perm, e.freePerms = d.freePerms
  PROVE  FilesInv(e) /\ PermsInv(e) /\ AclInv(e)
<1>1. ToSet(d.files) \subseteq File
  BY GoodTypes DEF Good
<1>2. FilesInv(e)
  BY <1>1 DEF Good, FilesInv, SameFiles
<1>3. PermsInv(e)
  BY DEF Good, PermsInv, SameFiles
<1>4. AclInv(e)
  BY <1>1 DEF Good, AclInv, SameFiles
<1>. QED BY <1>2, <1>3, <1>4

\* The connections of a file are finitely many.
LEMMA FiniteConnections == \A d, f : IsFiniteSet(Connections(d, f))
<1>1. IsFiniteSet(FD)
  BY SizesAssumption, FS_Interval DEF FD
<1>. QED BY <1>1, FS_Subset DEF Connections

\* A permission in the cache belongs to a file with a name.
LEMMA CachedFile ==
  ASSUME NEW d, Good(d), NEW fd \in FD, d.fds[fd] # NULL
  PROVE  /\ d.fds[fd] \in Perm /\ d.perm[d.fds[fd]].file \in File
         /\ d.perm[d.fds[fd]].file \in ToSet(d.files)
         /\ d.file[d.perm[d.fds[fd]].file].name \in Name
<1>1. d.fds[fd] \in Perm /\ ToSet(d.files) \subseteq File
  BY GoodTypes DEF Good
<1>2. d.perm[d.fds[fd]].file \in ToSet(d.files)
  BY <1>1 DEF Good, FdsInv, PermsInv
<1>. QED BY <1>1, <1>2 DEF Good, FilesInv

\* A new descriptor is cached for a permission, and counted.
Connected(d, e, fd, p, f) ==
  /\ e.perm = d.perm /\ e.freePerms = d.freePerms /\ SameFiles(d, e)
  /\ e.file[f].open_count = d.file[f].open_count + 1
  /\ \A g \in File \ {f} : e.file[g].open_count = d.file[g].open_count
  /\ e.fds[fd] = p /\ \A m \in FD \ {fd} : e.fds[m] = d.fds[m]
  /\ e.cfs[fd] = d.file[f].name /\ \A m \in CFS_FD \ {fd} : e.cfs[m] = d.cfs[m]

\* A new connection keeps the invariant.
LEMMA ConnectedGood ==
  ASSUME NEW d, Good(d), NEW e \in DataRecord,
         NEW fd \in CFS_FD, fd \in FD, d.cfs[fd] = NULL,
         NEW p \in Perm, NEW f \in File, d.perm[p].file = f,
         Connected(d, e, fd, p, f)
  PROVE  Good(e)
<1>1. FilesInv(e) /\ PermsInv(e) /\ AclInv(e)
  BY SameFilesGood DEF Connected
<1>2. d.fds[fd] = NULL
  <2>. SUFFICES ASSUME d.fds[fd] # NULL PROVE FALSE
    OBVIOUS
  <2>1. d.file[d.perm[d.fds[fd]].file].name \in Name
    BY CachedFile
  <2>. QED BY <2>1, NullAssumption DEF Good, FdsInv
<1>3. NULL \notin Perm /\ NULL \notin File
  BY GoodTypes DEF Good
<1>4. \A m \in FD : e.fds[m] # NULL => e.perm[e.fds[m]].file # NULL
  BY <1>3 DEF Good, FdsInv, Connected
<1>5. \A g \in File : g # f => Connections(e, g) = Connections(d, g)
  BY <1>2, <1>3 DEF Connections, Connected
<1>6. Connections(e, f) = Connections(d, f) \cup {fd} /\ fd \notin Connections(d, f)
  BY <1>2, <1>3 DEF Connections, Connected
<1>7. Cardinality(Connections(e, f)) = Cardinality(Connections(d, f)) + 1
  BY <1>6, FS_AddElement, FiniteConnections
<1>8. ASSUME NEW g \in File
      PROVE  e.file[g].open_count = Cardinality(Connections(e, g))
  <2>1. d.file[g].open_count = Cardinality(Connections(d, g))
    BY DEF Good, FdsInv
  <2>. QED BY <1>5, <1>7, <2>1 DEF Connected
<1>9. ASSUME NEW m \in CFS_FD
      PROVE  e.cfs[m] = IF m \in FD /\ e.fds[m] # NULL
                        THEN e.file[e.perm[e.fds[m]].file].name ELSE NULL
  <2>1. CASE m = fd
    BY <1>3, <2>1 DEF Connected, SameFiles
  <2>2. CASE m # fd
    <3>1. d.cfs[m] = IF m \in FD /\ d.fds[m] # NULL
                     THEN d.file[d.perm[d.fds[m]].file].name ELSE NULL
      BY DEF Good, FdsInv
    <3>2. m \in FD /\ d.fds[m] # NULL => d.perm[d.fds[m]].file \in File
      BY CachedFile
    <3>. QED BY <2>2, <3>1, <3>2 DEF Connected, SameFiles
  <2>. QED BY <2>1, <2>2
<1>. QED BY <1>1, <1>4, <1>8, <1>9 DEF Good, FdsInv

\* The data open_back_end_file returns for a new descriptor.
NewConnection(r, fd, p, f) == [r EXCEPT !.file[f].open_count = @ + 1, !.fds[fd] = p]

\* ... is good.
LEMMA ConnectGood ==
  ASSUME NEW d, Good(d), NEW r \in DataRecord, SameFrontEnd(d, r),
         NEW fd \in CFS_FD, fd \in FD, d.cfs[fd] = NULL,
         NEW p \in Perm, NEW f \in File, d.perm[p].file = f,
         r.cfs = [d.cfs EXCEPT ![fd] = d.file[f].name]
  PROVE  LET e == NewConnection(r, fd, p, f)
         IN  Good(e) /\ Connected(d, e, fd, p, f)
<1>. DEFINE file == [d.file EXCEPT ![f].open_count = d.file[f].open_count + 1]
            fds == [d.fds EXCEPT ![fd] = p]
            e == NewConnection(r, fd, p, f)
<1>1. /\ d.file \in [File -> FileRecord] /\ d.fds \in [FD -> Perm \cup {NULL}]
      /\ d.file[f].open_count \in Int /\ d.cfs \in [CFS_FD -> Name \cup {NULL}]
  BY GoodTypes DEF Good
<1>2. d.file[f].open_count + 1 \in Int
  BY <1>1
<1>3. f \in ToSet(d.files)
  <2>1. f # NULL
    BY DEF File, NULL
  <2>. QED BY <2>1 DEF Good, PermsInv
<1>4. /\ file \in [File -> FileRecord]
      /\ file[f].open_count = d.file[f].open_count + 1
      /\ \A g \in File : file[g].name = d.file[g].name /\ file[g].acl = d.file[g].acl
      /\ \A g \in File \ {f} : file[g] = d.file[g]
  BY <1>1, <1>2, SetFile, SMTT(30)
<1>5. /\ fds \in [FD -> Perm \cup {NULL}]
      /\ fds[fd] = p /\ \A m \in FD \ {fd} : fds[m] = d.fds[m]
  BY <1>1
<1>6. /\ r.cfs[fd] = d.file[f].name
      /\ \A m \in CFS_FD \ {fd} : r.cfs[m] = d.cfs[m]
  BY <1>1
<1>7. e = [r EXCEPT !.file = file, !.fds = fds]
  BY DEF SameFrontEnd, NewConnection
<1>. HIDE DEF file, fds
<1>8. /\ e \in DataRecord
      /\ e.perm = r.perm /\ e.freePerms = r.freePerms /\ e.freeFiles = r.freeFiles
      /\ e.files = r.files /\ e.cfs = r.cfs /\ e.file = file /\ e.fds = fds
  <2>1. [r EXCEPT !.file = file, !.fds = fds] = [[r EXCEPT !.file = file] EXCEPT !.fds = fds]
    OBVIOUS
  <2>. HIDE DEF e
  <2>. QED BY <1>4, <1>5, <1>7, <2>1 DEF DataRecord
<1>. HIDE DEF e
<1>9. Connected(d, e, fd, p, f)
  BY <1>3, <1>4, <1>5, <1>6, <1>8 DEF Connected, SameFiles, SameFrontEnd
<1>10. Good(e)
  BY <1>8, <1>9, ConnectedGood
<1>. QED BY <1>9, <1>10 DEF e

\* The descriptors fds, all of them connections on file f, are closed.
Closed(d, e, f, fds) ==
  /\ e.perm = d.perm /\ e.freePerms = d.freePerms /\ SameFiles(d, e)
  /\ e.file[f].open_count = d.file[f].open_count - Cardinality(fds)
  /\ \A g \in File \ {f} : e.file[g].open_count = d.file[g].open_count
  /\ \A m \in FD : e.fds[m] = IF m \in fds THEN NULL ELSE d.fds[m]
  /\ \A m \in CFS_FD : e.cfs[m] = IF m \in fds THEN NULL ELSE d.cfs[m]

\* So does closing any set of connections on one file.
LEMMA ClosedGood ==
  ASSUME NEW d, Good(d), NEW e \in DataRecord, NEW f \in File,
         NEW fds \in SUBSET Connections(d, f), Closed(d, e, f, fds)
  PROVE  Good(e)
<1>1. FilesInv(e) /\ PermsInv(e) /\ AclInv(e)
  BY SameFilesGood DEF Closed
<1>2. fds \subseteq FD
  BY DEF Connections
<1>3. \A m \in FD : e.fds[m] # NULL => e.perm[e.fds[m]].file # NULL
  BY DEF Good, FdsInv, Closed
<1>4. \A g \in File : g # f => Connections(e, g) = Connections(d, g)
  BY DEF Connections, Closed
<1>5. Connections(e, f) = Connections(d, f) \ fds
  BY DEF Connections, Closed
<1>6. Cardinality(Connections(e, f)) = Cardinality(Connections(d, f)) - Cardinality(fds)
  <2>1. IsFiniteSet(Connections(d, f)) /\ IsFiniteSet(fds)
    BY FiniteConnections, FS_Subset
  <2>2. Connections(d, f) \cap fds = fds
    OBVIOUS
  <2>. QED BY <1>5, <2>1, <2>2, FS_Difference
<1>7. ASSUME NEW g \in File
      PROVE  e.file[g].open_count = Cardinality(Connections(e, g))
  <2>1. d.file[g].open_count = Cardinality(Connections(d, g))
    BY DEF Good, FdsInv
  <2>. QED BY <1>4, <1>6, <2>1 DEF Closed
<1>8. ASSUME NEW m \in CFS_FD
      PROVE  e.cfs[m] = IF m \in FD /\ e.fds[m] # NULL
                        THEN e.file[e.perm[e.fds[m]].file].name ELSE NULL
  <2>1. CASE m \in fds
    BY <1>2, <2>1 DEF Closed
  <2>2. CASE m \notin fds
    <3>1. d.cfs[m] = IF m \in FD /\ d.fds[m] # NULL
                     THEN d.file[d.perm[d.fds[m]].file].name ELSE NULL
      BY DEF Good, FdsInv
    <3>2. m \in FD /\ d.fds[m] # NULL => d.perm[d.fds[m]].file \in File
      BY CachedFile
    <3>. QED BY <2>2, <3>1, <3>2 DEF Closed, SameFiles
  <2>. QED BY <2>1, <2>2
<1>. QED BY <1>1, <1>3, <1>7, <1>8 DEF Good, FdsInv

\* ... as CLOSE_FDS does it.
LEMMA CloseGood ==
  ASSUME NEW d, Good(d), NEW f \in ToSet(d.files), NEW fds \in SUBSET Connections(d, f)
  PROVE  /\ Good(CLOSE_FDS(d, f, fds)) /\ Closed(d, CLOSE_FDS(d, f, fds), f, fds)
         /\ CLOSE_FDS(d, f, fds).content = d.content
<1>. DEFINE file == [d.file EXCEPT ![f].open_count = d.file[f].open_count - Cardinality(fds)]
            cached == [fd \in FD |-> IF fd \in fds THEN NULL ELSE d.fds[fd]]
            open == [fd \in CFS_FD |-> IF fd \in fds THEN NULL ELSE d.cfs[fd]]
            e == CLOSE_FDS(d, f, fds)
<1>1. /\ d.file \in [File -> FileRecord] /\ d.fds \in [FD -> Perm \cup {NULL}]
      /\ f \in File /\ d.file[f].open_count \in Int
      /\ d.cfs \in [CFS_FD -> Name \cup {NULL}] /\ d \in DataRecord
  BY GoodTypes DEF Good
<1>2. d.file[f].open_count - Cardinality(fds) \in Int
  <2>1. IsFiniteSet(fds)
    BY FiniteConnections, FS_Subset
  <2>. QED BY <1>1, <2>1, FS_CardinalityType
<1>3. /\ file \in [File -> FileRecord]
      /\ file[f].open_count = d.file[f].open_count - Cardinality(fds)
      /\ \A g \in File : file[g].name = d.file[g].name /\ file[g].acl = d.file[g].acl
      /\ \A g \in File \ {f} : file[g] = d.file[g]
  BY <1>1, <1>2, SetFile, SMTT(30)
<1>4. /\ cached \in [FD -> Perm \cup {NULL}] /\ open \in [CFS_FD -> Name \cup {NULL}]
      /\ \A m \in FD : cached[m] = IF m \in fds THEN NULL ELSE d.fds[m]
      /\ \A m \in CFS_FD : open[m] = IF m \in fds THEN NULL ELSE d.cfs[m]
  BY <1>1
<1>5. e = [d EXCEPT !.file = file, !.fds = cached, !.cfs = open]
  BY DEF CLOSE_FDS
<1>. HIDE DEF file, cached, open
<1>6. /\ e \in DataRecord
      /\ e.perm = d.perm /\ e.freePerms = d.freePerms /\ e.freeFiles = d.freeFiles
      /\ e.files = d.files /\ e.cfs = open /\ e.file = file /\ e.fds = cached
      /\ e.content = d.content
  <2>1. [d EXCEPT !.file = file, !.fds = cached, !.cfs = open]
          = [[[d EXCEPT !.file = file] EXCEPT !.fds = cached] EXCEPT !.cfs = open]
    OBVIOUS
  <2>. HIDE DEF e
  <2>. QED BY <1>1, <1>3, <1>4, <1>5, <2>1 DEF DataRecord
<1>. HIDE DEF e
<1>7. Closed(d, e, f, fds)
  BY <1>3, <1>4, <1>6 DEF Closed, SameFiles
<1>8. Good(e)
  BY <1>1, <1>6, <1>7, ClosedGood
<1>. QED BY <1>6, <1>7, <1>8 DEF e

\* Entry k of the list of f, which is p and not the first, is taken out and freed.
Revoked(d, e, f, k, p) ==
  /\ e.freeFiles = d.freeFiles /\ e.files = d.files /\ e.fds = d.fds /\ e.cfs = d.cfs
  /\ e.freePerms = <<p>> \o d.freePerms
  /\ e.perm[p] = NoPerm /\ \A q \in Perm \ {p} : e.perm[q] = d.perm[q]
  /\ e.file[f].acl = RemoveAt(d.file[f].acl, k)
  /\ \A g \in File : /\ e.file[g].name = d.file[g].name
                     /\ e.file[g].open_count = d.file[g].open_count
  /\ \A g \in File \ {f} : e.file[g] = d.file[g]

\* An entry without connections that is not the creator's can leave its list.
LEMMA RevokedGood ==
  ASSUME NEW d, Good(d), NEW e \in DataRecord, NEW f \in ToSet(d.files),
         NEW k \in 1 .. Len(d.file[f].acl), k # 1,
         NEW p, p = d.file[f].acl[k], \A fd \in FD : d.fds[fd] # p,
         Revoked(d, e, f, k, p)
  PROVE  Good(e)
<1>1. /\ f \in File /\ d.file[f].acl \in Seq(Perm) /\ d.freePerms \in Seq(Perm)
      /\ NULL \notin File /\ NULL \notin Perm /\ ToSet(d.files) \subseteq File
      /\ d.file[f].name \in Name
      /\ \A g \in File : d.file[g].acl \in Seq(Perm)
  BY GoodTypes DEF Good, FilesInv
<1>2. /\ p \in Perm /\ d.perm[p].file = f /\ p \in ToSet(d.file[f].acl)
      /\ p \notin ToSet(d.freePerms)
  <2>1. p \in ToSet(d.file[f].acl) /\ ToSet(d.file[f].acl) \subseteq Perm
    BY <1>1, ListElements
  <2>. QED BY <1>1, <2>1 DEF Good, PermsInv
<1>3. /\ IsInjective(e.file[f].acl)
      /\ ToSet(e.file[f].acl) = ToSet(d.file[f].acl) \ {p}
      /\ e.file[f].acl # <<>> /\ Head(e.file[f].acl) = Head(d.file[f].acl)
      /\ e.file[f].acl \in Seq(Perm)
  <2>1. IsInjective(d.file[f].acl)
    BY <1>1 DEF Good, PermsInv
  <2>. QED BY <1>1, <2>1, CutList DEF Revoked
<1>4. IsInjective(e.freePerms) /\ ToSet(e.freePerms) = ToSet(d.freePerms) \cup {p}
  <2>1. IsInjective(d.freePerms)
    BY DEF Good, PermsInv
  <2>. QED BY <1>1, <1>2, <2>1, PushList DEF Revoked
<1>5. e.perm[p].file = NULL /\ e.perm[p].sm_id = NULL
  BY DEF Revoked, NoPerm
<1>6. FilesInv(e)
  <2>1. \A g \in File : g \notin ToSet(d.files) => e.file[g] = d.file[g]
    BY DEF Revoked
  <2>. QED BY <1>1, <2>1 DEF Good, FilesInv, Revoked
<1>7. PermsInv(e)
  <2>1. \A q \in Perm : q \in ToSet(e.freePerms) <=> e.perm[q].file = NULL
    BY <1>2, <1>4, <1>5 DEF Good, PermsInv, Revoked
  <2>2. \A q \in Perm : e.perm[q].file = NULL => e.perm[q] = NoPerm
    BY DEF Good, PermsInv, Revoked
  <2>3. \A g \in File : IsInjective(e.file[g].acl)
    BY <1>3 DEF Good, PermsInv, Revoked
  <2>4. ASSUME NEW g \in File, NEW q \in Perm
        PROVE  q \in ToSet(e.file[g].acl) <=> e.perm[q].file = g
    <3>1. q \in ToSet(d.file[g].acl) <=> d.perm[q].file = g
      BY DEF Good, PermsInv
    <3>2. CASE g = f
      BY <1>1, <1>2, <1>3, <1>5, <3>1, <3>2 DEF Revoked
    <3>3. CASE g # f
      BY <1>1, <1>2, <1>5, <3>1, <3>3 DEF Revoked
    <3>. QED BY <3>2, <3>3
  <2>5. ASSUME NEW q \in Perm, e.perm[q].file # NULL
        PROVE  /\ e.perm[q].sm_id \in SM /\ e.perm[q].flags # {}
               /\ e.perm[q].file \in ToSet(e.files)
    BY <1>5, <2>5 DEF Good, PermsInv, Revoked
  <2>. QED BY <1>4, <2>1, <2>2, <2>3, <2>4, <2>5 DEF PermsInv
<1>8. AclInv(e)
  <2>1. \A q, r \in Perm : /\ e.perm[q].file # NULL
                           /\ e.perm[q].file = e.perm[r].file
                           /\ e.perm[q].sm_id = e.perm[r].sm_id
                           => q = r
    BY <1>5 DEF Good, AclInv, Revoked
  <2>2. ASSUME NEW g \in ToSet(e.files)
        PROVE  e.file[g].acl # <<>> /\ e.perm[Head(e.file[g].acl)].flags = SFS_CREATOR
    <3>1. /\ g \in ToSet(d.files) /\ g \in File
          /\ d.file[g].acl # <<>> /\ d.perm[Head(d.file[g].acl)].flags = SFS_CREATOR
      BY <1>1 DEF Good, AclInv, Revoked
    <3>2. e.file[g].acl # <<>> /\ Head(e.file[g].acl) = Head(d.file[g].acl)
      BY <1>3, <3>1 DEF Revoked
    <3>3. Head(e.file[g].acl) \in Perm \ {p}
      <4>1. CASE g = f
        <5>1. ToSet(e.file[f].acl) \subseteq Perm \ {p}
          BY <1>1, <1>3, ListElements
        <5>. QED BY <1>3, <4>1, <5>1, ListElements
      <4>2. CASE g # f
        <5>1. Head(d.file[g].acl) \in ToSet(d.file[g].acl) /\ Head(d.file[g].acl) \in Perm
          BY <1>1, <3>1, ListElements
        <5>2. d.perm[Head(d.file[g].acl)].file = g
          BY <3>1, <5>1 DEF Good, PermsInv
        <5>. QED BY <1>2, <3>2, <4>2, <5>1, <5>2
      <4>. QED BY <4>1, <4>2
    <3>. QED BY <3>1, <3>2, <3>3 DEF Revoked
  <2>. QED BY <2>1, <2>2 DEF AclInv
<1>9. FdsInv(e)
  <2>1. \A m \in FD : e.fds[m] # NULL =>
          e.fds[m] \in Perm /\ e.fds[m] # p /\ e.fds[m] = d.fds[m]
    BY CachedFile DEF Revoked
  <2>2. \A m \in FD : e.fds[m] # NULL => e.perm[e.fds[m]] = d.perm[d.fds[m]]
    BY <2>1 DEF Revoked
  <2>3. \A m \in FD : e.fds[m] # NULL => e.perm[e.fds[m]].file # NULL
    BY <2>1, <2>2 DEF Good, FdsInv
  <2>4. \A g : Connections(e, g) = Connections(d, g)
    BY <2>2 DEF Connections, Revoked
  <2>5. \A g \in File : e.file[g].open_count = Cardinality(Connections(e, g))
    BY <2>4 DEF Good, FdsInv, Revoked
  <2>6. ASSUME NEW m \in CFS_FD
        PROVE  e.cfs[m] = IF m \in FD /\ e.fds[m] # NULL
                          THEN e.file[e.perm[e.fds[m]].file].name ELSE NULL
    <3>1. d.cfs[m] = IF m \in FD /\ d.fds[m] # NULL
                     THEN d.file[d.perm[d.fds[m]].file].name ELSE NULL
      BY DEF Good, FdsInv
    <3>2. m \in FD /\ d.fds[m] # NULL => d.perm[d.fds[m]].file \in File
      BY CachedFile
    <3>3. /\ e.cfs = d.cfs /\ e.fds = d.fds
          /\ \A g \in File : e.file[g].name = d.file[g].name
      BY DEF Revoked
    <3>. QED BY <2>2, <3>1, <3>2, <3>3
  <2>. QED BY <2>3, <2>5, <2>6 DEF FdsInv
<1>. QED BY <1>6, <1>7, <1>8, <1>9 DEF Good

\* Freeing p and shortening the list of f, as FREE_PERM after Unlink do it.
LEMMA FreeEntryGood ==
  ASSUME NEW d, Good(d), NEW f \in ToSet(d.files),
         NEW k \in 1 .. Len(d.file[f].acl), k # 1,
         NEW p, p = d.file[f].acl[k], \A fd \in FD : d.fds[fd] # p
  PROVE  LET e == FREE_PERM([d EXCEPT !.file[f].acl = Unlink(@, k)], p)
         IN  Good(e) /\ Revoked(d, e, f, k, p) /\ e.content = d.content
<1>. DEFINE file == [d.file EXCEPT ![f].acl = RemoveAt(d.file[f].acl, k)]
            perm == [d.perm EXCEPT ![p] = NoPerm]
            free == <<p>> \o d.freePerms
            e == FREE_PERM([d EXCEPT !.file[f].acl = Unlink(@, k)], p)
<1>1. /\ d.file \in [File -> FileRecord] /\ d.perm \in [Perm -> PermRecord]
      /\ f \in File /\ d.file[f].acl \in Seq(Perm) /\ d.freePerms \in Seq(Perm)
      /\ d \in DataRecord
  BY GoodTypes DEF Good
<1>2. RemoveAt(d.file[f].acl, k) \in Seq(Perm) /\ p \in Perm
  <2>1. IsInjective(d.file[f].acl)
    BY <1>1 DEF Good, PermsInv
  <2>. QED BY <1>1, <2>1, CutList, ElementOfSeq
<1>3. /\ file \in [File -> FileRecord] /\ file[f].acl = RemoveAt(d.file[f].acl, k)
      /\ \A g \in File : /\ file[g].name = d.file[g].name
                         /\ file[g].open_count = d.file[g].open_count
      /\ \A g \in File \ {f} : file[g] = d.file[g]
  BY <1>1, <1>2, SetFile, SMTT(30)
<1>4. /\ perm \in [Perm -> PermRecord] /\ perm[p] = NoPerm
      /\ \A q \in Perm \ {p} : perm[q] = d.perm[q]
  <2>1. NoPerm \in PermRecord
    BY DEF NoPerm, PermRecord
  <2>. QED BY <1>1, <1>2, <2>1
<1>5. free \in Seq(Perm)
  BY <1>1, <1>2, PushList
<1>6. e = [[d EXCEPT !.file = file] EXCEPT !.perm = perm, !.freePerms = free]
  <2>1. Unlink(d.file[f].acl, k) = RemoveAt(d.file[f].acl, k)
    BY DEF Unlink
  <2>2. [d EXCEPT !.file[f].acl = Unlink(@, k)] = [d EXCEPT !.file = file]
    BY <2>1
  <2>. HIDE DEF file
  <2>3. [d EXCEPT !.file = file].perm = d.perm
        /\ [d EXCEPT !.file = file].freePerms = d.freePerms
    BY <1>1 DEF DataRecord
  <2>. QED BY <2>2, <2>3 DEF FREE_PERM
<1>. HIDE DEF file, perm, free
<1>7. /\ e \in DataRecord
      /\ e.perm = perm /\ e.freePerms = free /\ e.freeFiles = d.freeFiles
      /\ e.files = d.files /\ e.cfs = d.cfs /\ e.file = file /\ e.fds = d.fds
      /\ e.content = d.content
  <2>1. [[d EXCEPT !.file = file] EXCEPT !.perm = perm, !.freePerms = free]
          = [[[d EXCEPT !.file = file] EXCEPT !.perm = perm] EXCEPT !.freePerms = free]
    OBVIOUS
  <2>. HIDE DEF e
  <2>. QED BY <1>1, <1>3, <1>4, <1>5, <1>6, <2>1 DEF DataRecord
<1>. HIDE DEF e
<1>8. Revoked(d, e, f, k, p)
  BY <1>3, <1>4, <1>7 DEF Revoked, free
<1>9. Good(e)
  BY <1>7, <1>8, RevokedGood
<1>. QED BY <1>7, <1>8, <1>9 DEF e

\* What revoke_acl leads to: nothing, or the entry of id is gone with its connections.
RevokeOutcome(d, e, f, id) ==
  LET k == Position(d, f, id)
      p == d.file[f].acl[k]
      c == CLOSE_FDS(d, f, {fd \in FD : d.fds[fd] = p})
  IN  \/ e = d /\ (k = 0 \/ d.perm[p].flags = SFS_CREATOR)
      \/ /\ k # 0 /\ d.perm[p].flags # SFS_CREATOR /\ p \in Perm
         /\ d.perm[p].file = f /\ d.perm[p].sm_id = id
         /\ Closed(d, c, f, {fd \in FD : d.fds[fd] = p})
         /\ Revoked(c, e, f, k, p) /\ e.content = d.content

\* A revocation keeps the invariant and has one of these outcomes.
LEMMA RevokeGood ==
  ASSUME NEW d, Good(d), NEW f \in ToSet(d.files), NEW id
  PROVE  Good(revoke_acl(d, f, id)) /\ RevokeOutcome(d, revoke_acl(d, f, id), f, id)
<1>. DEFINE k == Position(d, f, id)
            p == d.file[f].acl[k]
            fds == {fd \in FD : d.fds[fd] = p}
            c == CLOSE_FDS(d, f, fds)
            e == FREE_PERM([c EXCEPT !.file[f].acl = Unlink(@, k)], p)
<1>1. CASE k = 0
  BY <1>1 DEF revoke_acl, RevokeOutcome
<1>2. CASE k # 0 /\ d.perm[p].flags = SFS_CREATOR
  BY <1>2 DEF revoke_acl, RevokeOutcome
<1>3. CASE k # 0 /\ d.perm[p].flags # SFS_CREATOR
  <2>1. f \in File /\ d.file[f].acl \in Seq(Perm) /\ NULL \notin Perm
    BY GoodTypes DEF Good
  <2>2. /\ k \in 1 .. Len(d.file[f].acl) /\ p \in ToSet(d.file[f].acl)
        /\ d.perm[p].sm_id = id
    BY <1>3, <2>1, PositionFound
  <2>3. p \in Perm /\ d.perm[p].file = f
    <3>1. ToSet(d.file[f].acl) \subseteq Perm
      BY <2>1, ListElements
    <3>. QED BY <2>1, <2>2, <3>1 DEF Good, PermsInv
  <2>4. k # 1
    <3>1. d.file[f].acl # <<>> /\ d.perm[Head(d.file[f].acl)].flags = SFS_CREATOR
      BY DEF Good, AclInv
    <3>2. Head(d.file[f].acl) = d.file[f].acl[1]
      BY <2>1, <3>1, ListElements
    <3>. QED BY <1>3, <3>1, <3>2
  <2>5. fds \in SUBSET Connections(d, f)
    BY <2>1, <2>3 DEF Connections
  <2>6. Good(c) /\ Closed(d, c, f, fds) /\ c.content = d.content
    BY <2>5, CloseGood
  <2>7. revoke_acl(d, f, id) = e
    BY <1>3 DEF revoke_acl
  <2>. HIDE DEF c
  <2>8. /\ f \in ToSet(c.files) /\ c.file[f].acl = d.file[f].acl
        /\ \A fd \in FD : c.fds[fd] # p
    BY <2>1, <2>3, <2>6 DEF Closed, SameFiles
  <2>9. Good(e) /\ Revoked(c, e, f, k, p) /\ e.content = c.content
    <3>. HIDE DEF k, p, fds
    <3>1. p = c.file[f].acl[k]
      BY <2>8 DEF p
    <3>2. k \in 1 .. Len(c.file[f].acl)
      BY <2>2, <2>8
    <3>3. Good(c) /\ f \in ToSet(c.files) /\ k # 1 /\ \A fd \in FD : c.fds[fd] # p
      BY <2>4, <2>6, <2>8
    <3>. QED BY <3>1, <3>2, <3>3, FreeEntryGood
  <2>. HIDE DEF e
  <2>10. RevokeOutcome(d, e, f, id)
    BY <1>3, <2>2, <2>3, <2>6, <2>9 DEF RevokeOutcome, c
  <2>. QED BY <2>7, <2>9, <2>10
<1>. QED BY <1>1, <1>2, <1>3

\* The permissions of entry p are replaced by others.
Assigned(d, e, p, flags) ==
  /\ e.file = d.file /\ e.freePerms = d.freePerms /\ e.freeFiles = d.freeFiles
  /\ e.files = d.files /\ e.fds = d.fds /\ e.cfs = d.cfs /\ e.content = d.content
  /\ \A q \in Perm : e.perm[q].sm_id = d.perm[q].sm_id /\ e.perm[q].file = d.perm[q].file
  /\ e.perm[p].flags = flags /\ \A q \in Perm \ {p} : e.perm[q] = d.perm[q]

\* The permissions of an entry that is not a creator's are replaced.
LEMMA AssignedGood ==
  ASSUME NEW d, Good(d), NEW e \in DataRecord, NEW p \in Perm, NEW flags, flags # {},
         d.perm[p].file # NULL, d.perm[p].flags # SFS_CREATOR,
         Assigned(d, e, p, flags)
  PROVE  Good(e)
<1>1. \A f : Connections(e, f) = Connections(d, f)
  <2>1. \A fd \in FD : d.fds[fd] # NULL => d.fds[fd] \in Perm
    BY CachedFile
  <2>. QED BY <2>1 DEF Connections, Assigned
<1>2. FilesInv(e)
  BY DEF Good, FilesInv, Assigned
<1>3. PermsInv(e)
  <2>1. \A q \in Perm : e.perm[q].file = NULL => e.perm[q] = NoPerm
    BY DEF Good, PermsInv, Assigned
  <2>2. \A q \in Perm : e.perm[q].file # NULL => e.perm[q].flags # {}
    BY DEF Good, PermsInv, Assigned
  <2>. QED BY <2>1, <2>2 DEF Good, PermsInv, Assigned
<1>4. AclInv(e)
  <2>1. \A q, r \in Perm : /\ e.perm[q].file # NULL
                           /\ e.perm[q].file = e.perm[r].file
                           /\ e.perm[q].sm_id = e.perm[r].sm_id
                           => q = r
    BY DEF Good, AclInv, Assigned
  <2>2. ASSUME NEW g \in ToSet(e.files)
        PROVE  e.file[g].acl # <<>> /\ e.perm[Head(e.file[g].acl)].flags = SFS_CREATOR
    <3>1. /\ g \in ToSet(d.files) /\ g \in File /\ d.file[g].acl \in Seq(Perm)
      BY GoodTypes DEF Good, Assigned
    <3>2. d.file[g].acl # <<>> /\ d.perm[Head(d.file[g].acl)].flags = SFS_CREATOR
      BY <3>1 DEF Good, AclInv
    <3>3. Head(d.file[g].acl) \in Perm
      BY <3>1, <3>2, ListElements
    <3>. QED BY <3>2, <3>3 DEF Assigned
  <2>. QED BY <2>1, <2>2 DEF AclInv
<1>5. FdsInv(e)
  <2>1. \A m \in FD : d.fds[m] # NULL => d.fds[m] \in Perm
    BY CachedFile
  <2>. QED BY <1>1, <2>1 DEF Good, FdsInv, Assigned
<1>. QED BY <1>2, <1>3, <1>4, <1>5 DEF Good

\* A new entry p for module id is appended to the list of f.
Added(d, e, f, id, flags, p) ==
  /\ e.freeFiles = d.freeFiles /\ e.files = d.files /\ e.fds = d.fds /\ e.cfs = d.cfs
  /\ e.content = d.content
  /\ e.freePerms = Tail(d.freePerms)
  /\ e.perm[p] = [sm_id |-> id, flags |-> flags, file |-> f]
  /\ \A q \in Perm \ {p} : e.perm[q] = d.perm[q]
  /\ e.file[f].acl = Append(d.file[f].acl, p)
  /\ \A g \in File : /\ e.file[g].name = d.file[g].name
                     /\ e.file[g].open_count = d.file[g].open_count
  /\ \A g \in File \ {f} : e.file[g] = d.file[g]

\* A module without an entry gets the first free permission.
LEMMA AddedGood ==
  ASSUME NEW d, Good(d), NEW e \in DataRecord, NEW f \in ToSet(d.files),
         NEW id \in SM, NEW flags, flags # {}, d.freePerms # <<>>,
         \A q \in Perm : d.perm[q].file = f => d.perm[q].sm_id # id,
         NEW p, p = Head(d.freePerms), Added(d, e, f, id, flags, p)
  PROVE  Good(e)
<1>1. /\ f \in File /\ d.file[f].acl \in Seq(Perm) /\ d.freePerms \in Seq(Perm)
      /\ NULL \notin File /\ NULL \notin Perm /\ ToSet(d.files) \subseteq File
      /\ d.file[f].name \in Name /\ IsInjective(d.freePerms) /\ f # NULL
      /\ \A g \in File : d.file[g].acl \in Seq(Perm)
  BY GoodTypes DEF Good, FilesInv, PermsInv
<1>2. /\ p \in Perm /\ p \in ToSet(d.freePerms) /\ d.perm[p].file = NULL
      /\ p \notin ToSet(d.file[f].acl)
      /\ IsInjective(e.freePerms) /\ ToSet(e.freePerms) = ToSet(d.freePerms) \ {p}
  <2>1. /\ p \in Perm /\ p \in ToSet(d.freePerms)
        /\ IsInjective(Tail(d.freePerms)) /\ ToSet(Tail(d.freePerms)) = ToSet(d.freePerms) \ {p}
    BY <1>1, PopList, ListElements
  <2>2. d.perm[p].file = NULL /\ p \notin ToSet(d.file[f].acl)
    BY <1>1, <2>1 DEF Good, PermsInv
  <2>. QED BY <2>1, <2>2 DEF Added
<1>3. /\ IsInjective(e.file[f].acl)
      /\ ToSet(e.file[f].acl) = ToSet(d.file[f].acl) \cup {p}
      /\ e.file[f].acl # <<>>
      /\ d.file[f].acl # <<>> => Head(e.file[f].acl) = Head(d.file[f].acl)
  <2>1. IsInjective(d.file[f].acl)
    BY <1>1 DEF Good, PermsInv
  <2>. QED BY <1>1, <1>2, <2>1, AppendList, SMTT(30) DEF Added
<1>4. e.perm[p].file = f /\ e.perm[p].sm_id = id /\ e.perm[p].flags = flags
  BY DEF Added
<1>5. FilesInv(e)
  <2>1. \A g \in File : g \notin ToSet(d.files) => e.file[g] = d.file[g]
    BY DEF Added
  <2>. QED BY <1>1, <2>1 DEF Good, FilesInv, Added
<1>6. PermsInv(e)
  <2>1. \A q \in Perm : q \in ToSet(e.freePerms) <=> e.perm[q].file = NULL
    BY <1>1, <1>2, <1>4 DEF Good, PermsInv, Added
  <2>2. \A q \in Perm : e.perm[q].file = NULL => e.perm[q] = NoPerm
    BY <1>1, <1>4 DEF Good, PermsInv, Added
  <2>3. \A g \in File : IsInjective(e.file[g].acl)
    BY <1>3 DEF Good, PermsInv, Added
  <2>4. ASSUME NEW g \in File, NEW q \in Perm
        PROVE  q \in ToSet(e.file[g].acl) <=> e.perm[q].file = g
    <3>1. q \in ToSet(d.file[g].acl) <=> d.perm[q].file = g
      BY DEF Good, PermsInv
    <3>2. CASE g = f
      BY <1>1, <1>2, <1>3, <1>4, <3>1, <3>2 DEF Added
    <3>3. CASE g # f
      BY <1>1, <1>2, <1>4, <3>1, <3>3 DEF Added
    <3>. QED BY <3>2, <3>3
  <2>5. ASSUME NEW q \in Perm, e.perm[q].file # NULL
        PROVE  /\ e.perm[q].sm_id \in SM /\ e.perm[q].flags # {}
               /\ e.perm[q].file \in ToSet(e.files)
    BY <1>4, <2>5 DEF Good, PermsInv, Added
  <2>. QED BY <1>2, <2>1, <2>2, <2>3, <2>4, <2>5 DEF PermsInv
<1>7. AclInv(e)
  <2>1. ASSUME NEW q \in Perm, NEW r \in Perm, e.perm[q].file # NULL,
               e.perm[q].file = e.perm[r].file, e.perm[q].sm_id = e.perm[r].sm_id
        PROVE  q = r
    <3>1. CASE q # p /\ r # p
      BY <2>1, <3>1 DEF Good, AclInv, Added
    <3>2. CASE q = p \/ r = p
      BY <1>4, <2>1, <3>2 DEF Added
    <3>. QED BY <3>1, <3>2
  <2>2. ASSUME NEW g \in ToSet(e.files)
        PROVE  e.file[g].acl # <<>> /\ e.perm[Head(e.file[g].acl)].flags = SFS_CREATOR
    <3>1. /\ g \in ToSet(d.files) /\ g \in File
          /\ d.file[g].acl # <<>> /\ d.perm[Head(d.file[g].acl)].flags = SFS_CREATOR
      BY <1>1 DEF Good, AclInv, Added
    <3>2. e.file[g].acl # <<>> /\ Head(e.file[g].acl) = Head(d.file[g].acl)
      BY <1>3, <3>1 DEF Added
    <3>3. Head(d.file[g].acl) \in Perm /\ d.perm[Head(d.file[g].acl)].file = g
      <4>1. Head(d.file[g].acl) \in ToSet(d.file[g].acl) /\ Head(d.file[g].acl) \in Perm
        BY <1>1, <3>1, ListElements
      <4>. QED BY <3>1, <4>1 DEF Good, PermsInv
    <3>4. Head(d.file[g].acl) # p
      BY <1>1, <1>2, <3>1, <3>3
    <3>. QED BY <3>1, <3>2, <3>3, <3>4 DEF Added
  <2>. QED BY <2>1, <2>2 DEF AclInv
<1>8. FdsInv(e)
  <2>1. \A m \in FD : e.fds[m] # NULL =>
          e.fds[m] \in Perm /\ e.fds[m] # p /\ e.fds[m] = d.fds[m]
    BY <1>2, CachedFile DEF Added, Good, FdsInv
  <2>2. \A m \in FD : e.fds[m] # NULL => e.perm[e.fds[m]] = d.perm[d.fds[m]]
    BY <2>1 DEF Added
  <2>3. \A m \in FD : e.fds[m] # NULL => e.perm[e.fds[m]].file # NULL
    BY <2>1, <2>2 DEF Good, FdsInv
  <2>4. \A g : Connections(e, g) = Connections(d, g)
    BY <2>2 DEF Connections, Added
  <2>5. \A g \in File : e.file[g].open_count = Cardinality(Connections(e, g))
    BY <2>4 DEF Good, FdsInv, Added
  <2>6. ASSUME NEW m \in CFS_FD
        PROVE  e.cfs[m] = IF m \in FD /\ e.fds[m] # NULL
                          THEN e.file[e.perm[e.fds[m]].file].name ELSE NULL
    <3>1. d.cfs[m] = IF m \in FD /\ d.fds[m] # NULL
                     THEN d.file[d.perm[d.fds[m]].file].name ELSE NULL
      BY DEF Good, FdsInv
    <3>2. m \in FD /\ d.fds[m] # NULL => d.perm[d.fds[m]].file \in File
      BY CachedFile
    <3>. QED BY <2>2, <3>1, <3>2 DEF Added
  <2>. QED BY <2>3, <2>5, <2>6 DEF FdsInv
<1>. QED BY <1>5, <1>6, <1>7, <1>8 DEF Good

\* What add_acl leads to: nothing, other permissions for the entry of id, or a new
\* entry for id.
AddOutcome(d, e, f, id, flags) ==
  LET k == Position(d, f, id)
      old == d.file[f].acl[k]
  IN  \/ e = d
      \/ /\ k # 0 /\ old \in Perm /\ d.perm[old].flags # SFS_CREATOR
         /\ d.perm[old].file = f /\ d.perm[old].sm_id = id
         /\ Assigned(d, e, old, flags)
      \/ /\ k = 0 /\ d.freePerms # <<>> /\ flags # SFS_CREATOR
         /\ \A q \in Perm : d.perm[q].file = f => d.perm[q].sm_id # id
         /\ Added(d, e, f, id, flags, Head(d.freePerms))

\* The entry of id is overwritten.
LEMMA AssignGood ==
  ASSUME NEW d, Good(d), NEW f \in ToSet(d.files), NEW p \in Perm, d.perm[p].file = f,
         d.perm[p].flags # SFS_CREATOR, NEW flags \in SUBSET Bit, flags # {}
  PROVE  LET e == [d EXCEPT !.perm[p].flags = flags]
         IN  Good(e) /\ Assigned(d, e, p, flags)
<1>. DEFINE perm == [d.perm EXCEPT ![p].flags = flags]
            e == [d EXCEPT !.perm = perm]
<1>1. d \in DataRecord /\ d.perm \in [Perm -> PermRecord] /\ f # NULL
  BY GoodTypes DEF Good
<1>2. /\ perm \in [Perm -> PermRecord] /\ perm[p].flags = flags
      /\ \A q \in Perm : perm[q].sm_id = d.perm[q].sm_id /\ perm[q].file = d.perm[q].file
      /\ \A q \in Perm \ {p} : perm[q] = d.perm[q]
  BY <1>1 DEF PermRecord
<1>3. e = [d EXCEPT !.perm[p].flags = flags]
  OBVIOUS
<1>. HIDE DEF perm
<1>4. /\ e \in DataRecord
      /\ e.perm = perm /\ e.freePerms = d.freePerms /\ e.freeFiles = d.freeFiles
      /\ e.files = d.files /\ e.cfs = d.cfs /\ e.file = d.file /\ e.fds = d.fds
      /\ e.content = d.content
  BY <1>1, <1>2 DEF DataRecord
<1>. HIDE DEF e
<1>5. Assigned(d, e, p, flags)
  BY <1>2, <1>4 DEF Assigned
<1>6. Good(e)
  BY <1>1, <1>4, <1>5, AssignedGood
<1>. QED BY <1>3, <1>5, <1>6

\* A new entry is appended.
NewEntry(d, f, id, flags, p) ==
  [d EXCEPT !.perm[p] = [sm_id |-> id, flags |-> flags, file |-> f],
            !.freePerms = Tail(@), !.file[f].acl = Append(@, p)]

\* ... as add_acl does it when the module has no entry yet.
LEMMA AppendGood ==
  ASSUME NEW d, Good(d), NEW f \in ToSet(d.files), NEW id \in SM, d.freePerms # <<>>,
         \A q \in Perm : d.perm[q].file = f => d.perm[q].sm_id # id,
         NEW flags \in SUBSET Bit, flags # {},
         NEW p, p = Head(d.freePerms)
  PROVE  LET e == NewEntry(d, f, id, flags, p)
         IN  Good(e) /\ Added(d, e, f, id, flags, p)
<1>. DEFINE entry == [sm_id |-> id, flags |-> flags, file |-> f]
            perm == [d.perm EXCEPT ![p] = entry]
            free == Tail(d.freePerms)
            acl == Append(d.file[f].acl, p)
            file == [d.file EXCEPT ![f].acl = acl]
            e == [d EXCEPT !.perm = perm, !.freePerms = free, !.file = file]
<1>1. /\ d \in DataRecord /\ d.perm \in [Perm -> PermRecord]
      /\ d.file \in [File -> FileRecord] /\ f \in File
      /\ d.file[f].acl \in Seq(Perm) /\ d.freePerms \in Seq(Perm)
      /\ IsInjective(d.freePerms)
  BY GoodTypes DEF Good, PermsInv
<1>2. p \in Perm /\ free \in Seq(Perm) /\ acl \in Seq(Perm)
  BY <1>1, PopList, AppendList
<1>3. /\ file \in [File -> FileRecord] /\ file[f].acl = acl
      /\ \A g \in File : /\ file[g].name = d.file[g].name
                         /\ file[g].open_count = d.file[g].open_count
      /\ \A g \in File \ {f} : file[g] = d.file[g]
  <2>. HIDE DEF acl
  <2>. QED BY <1>1, <1>2, SetFile, SMTT(30)
<1>4. /\ perm \in [Perm -> PermRecord] /\ perm[p] = entry
      /\ \A q \in Perm \ {p} : perm[q] = d.perm[q]
  <2>1. entry \in PermRecord
    BY <1>1 DEF PermRecord
  <2>. HIDE DEF entry
  <2>. QED BY <1>1, <1>2, <2>1
<1>5. e = NewEntry(d, f, id, flags, p)
  BY DEF NewEntry
<1>6. /\ e \in DataRecord
      /\ e.perm = perm /\ e.freePerms = free /\ e.freeFiles = d.freeFiles
      /\ e.files = d.files /\ e.cfs = d.cfs /\ e.file = file /\ e.fds = d.fds
      /\ e.content = d.content
  <2>. HIDE DEF perm, free, file
  <2>1. e = [[[d EXCEPT !.perm = perm] EXCEPT !.freePerms = free] EXCEPT !.file = file]
    OBVIOUS
  <2>. HIDE DEF e
  <2>. QED BY <1>1, <1>2, <1>3, <1>4, <2>1 DEF DataRecord
<1>. HIDE DEF e, file, perm
<1>7. Added(d, e, f, id, flags, p)
  BY <1>3, <1>4, <1>6 DEF Added
<1>8. Good(e)
  BY <1>6, <1>7, AddedGood
<1>. QED BY <1>5, <1>7, <1>8

\* add_acl as a whole.
LEMMA AddGood ==
  ASSUME NEW d, Good(d), NEW f \in ToSet(d.files), NEW id \in SM,
         NEW flags \in SUBSET Bit, flags # {}
  PROVE  Good(add_acl(d, f, id, flags)) /\ AddOutcome(d, add_acl(d, f, id, flags), f, id, flags)
<1>. DEFINE k == Position(d, f, id)
            old == d.file[f].acl[k]
<1>1. f \in File /\ d.file[f].acl \in Seq(Perm) /\ NULL \notin Perm
  BY GoodTypes DEF Good
<1>2. CASE k # 0 /\ d.perm[old].flags = SFS_CREATOR
  BY <1>2 DEF add_acl, AddOutcome
<1>3. CASE k # 0 /\ d.perm[old].flags # SFS_CREATOR
  <2>1. old \in ToSet(d.file[f].acl) /\ d.perm[old].sm_id = id
    BY <1>1, <1>3, PositionFound
  <2>2. old \in Perm /\ d.perm[old].file = f
    <3>1. ToSet(d.file[f].acl) \subseteq Perm
      BY <1>1, ListElements
    <3>. QED BY <1>1, <2>1, <3>1 DEF Good, PermsInv
  <2>3. add_acl(d, f, id, flags) = [d EXCEPT !.perm[old].flags = flags]
    BY <1>3 DEF add_acl
  <2>4. Good(add_acl(d, f, id, flags)) /\ Assigned(d, add_acl(d, f, id, flags), old, flags)
    <3>. HIDE DEF old
    <3>. QED BY <1>3, <2>2, <2>3, AssignGood, SMTT(30)
  <2>. QED BY <1>3, <2>1, <2>2, <2>4 DEF AddOutcome
<1>4. CASE k = 0 /\ (flags = SFS_CREATOR \/ d.freePerms = <<>>)
  BY <1>4 DEF add_acl, AddOutcome
<1>5. CASE k = 0 /\ flags # SFS_CREATOR /\ d.freePerms # <<>>
  <2>1. \A q \in Perm : d.perm[q].file = f => d.perm[q].sm_id # id
    <3>1. \A q \in ToSet(d.file[f].acl) : d.perm[q].sm_id # id
      BY <1>1, <1>5, PositionFound
    <3>. QED BY <1>1, <3>1 DEF Good, PermsInv
  <2>2. PICK p : p = Head(d.freePerms)
    OBVIOUS
  <2>. DEFINE e == NewEntry(d, f, id, flags, p)
  <2>3. Good(e) /\ Added(d, e, f, id, flags, p)
    <3>1. d.freePerms # <<>>
      BY <1>5
    <3>. QED BY <2>1, <2>2, <3>1, AppendGood
  <2>4. add_acl(d, f, id, flags) = e
    BY <1>5, <2>2 DEF add_acl, NewEntry
  <2>. HIDE DEF e
  <2>. QED BY <1>5, <2>1, <2>2, <2>3, <2>4 DEF AddOutcome
<1>. QED BY <1>2, <1>3, <1>4, <1>5

\* File f is created with name and with p, the creator's permission for sm.
Created(d, e, f, p, sm, name) ==
  /\ e.fds = d.fds /\ e.cfs = d.cfs /\ e.content = d.content
  /\ e.freeFiles = Tail(d.freeFiles) /\ e.freePerms = Tail(d.freePerms)
  /\ e.files = <<f>> \o d.files
  /\ e.file[f] = [name |-> name, open_count |-> 0, acl |-> <<p>>]
  /\ \A g \in File \ {f} : e.file[g] = d.file[g]
  /\ e.perm[p] = [sm_id |-> sm, flags |-> SFS_CREATOR, file |-> f]
  /\ \A q \in Perm \ {p} : e.perm[q] = d.perm[q]

\* A file is created from the first free file and the first free permission.
LEMMA CreatedGood ==
  ASSUME NEW d, Good(d), NEW e \in DataRecord, NEW name \in Name, NEW sm \in SM,
         \A g \in ToSet(d.files) : d.file[g].name # name,
         d.freePerms # <<>>, d.freeFiles # <<>>,
         NEW f, f = Head(d.freeFiles), NEW p, p = Head(d.freePerms),
         Created(d, e, f, p, sm, name)
  PROVE  Good(e) /\ f \in File /\ p \in Perm
<1>1. /\ d.freePerms \in Seq(Perm) /\ d.freeFiles \in Seq(File) /\ d.files \in Seq(File)
      /\ NULL \notin File /\ NULL \notin Perm /\ ToSet(d.files) \subseteq File
      /\ IsInjective(d.freePerms) /\ IsInjective(d.freeFiles) /\ IsInjective(d.files)
      /\ \A g \in File : d.file[g].acl \in Seq(Perm)
  BY GoodTypes DEF Good, FilesInv, PermsInv
<1>2. /\ p \in Perm /\ p \in ToSet(d.freePerms) /\ d.perm[p].file = NULL
      /\ IsInjective(e.freePerms) /\ ToSet(e.freePerms) = ToSet(d.freePerms) \ {p}
  <2>1. /\ p \in Perm /\ p \in ToSet(d.freePerms)
        /\ IsInjective(Tail(d.freePerms)) /\ ToSet(Tail(d.freePerms)) = ToSet(d.freePerms) \ {p}
    BY <1>1, PopList, ListElements
  <2>. QED BY <2>1 DEF Created, Good, PermsInv
<1>3. /\ f \in File /\ f # NULL /\ f \in ToSet(d.freeFiles) /\ f \notin ToSet(d.files)
      /\ IsInjective(e.freeFiles) /\ ToSet(e.freeFiles) = ToSet(d.freeFiles) \ {f}
      /\ d.file[f].open_count = 0
  <2>1. /\ f \in File /\ f \in ToSet(d.freeFiles)
        /\ IsInjective(Tail(d.freeFiles)) /\ ToSet(Tail(d.freeFiles)) = ToSet(d.freeFiles) \ {f}
    BY <1>1, PopList, ListElements
  <2>2. f \notin ToSet(d.files)
    BY <2>1 DEF Good, FilesInv
  <2>3. d.file[f].open_count = 0
    BY <2>1, <2>2 DEF Good, FilesInv, NoFile
  <2>. QED BY <1>1, <2>1, <2>2, <2>3 DEF Created
<1>4. IsInjective(e.files) /\ ToSet(e.files) = ToSet(d.files) \cup {f}
  BY <1>1, <1>3, PushList DEF Created
<1>5. /\ e.file[f].name = name /\ e.file[f].open_count = 0 /\ e.file[f].acl = <<p>>
      /\ e.perm[p].file = f /\ e.perm[p].sm_id = sm /\ e.perm[p].flags = SFS_CREATOR
  BY DEF Created
<1>6. /\ <<p>> \in Seq(Perm) /\ ToSet(<<p>>) = {p} /\ IsInjective(<<p>>)
      /\ <<p>> # <<>> /\ Head(<<p>>) = p
  <2>1. /\ <<p>> \in Seq(Perm) /\ Len(<<p>>) = 1 /\ <<p>>[1] = p /\ <<p>> # <<>>
        /\ Head(<<p>>) = p
    BY <1>2
  <2>. DEFINE s == <<p>>
  <2>2. s \in Seq(Perm) /\ Len(s) = 1 /\ s[1] = p
    BY <2>1
  <2>. HIDE DEF s
  <2>3. 1 .. 1 = {1}
    OBVIOUS
  <2>4. ToSet(s) = {s[i] : i \in 1 .. 1}
        /\ (IsInjective(s) <=> \A i, j \in 1 .. 1 : s[i] = s[j] => i = j)
    BY <2>2, ListElements
  <2>5. ToSet(s) = {p} /\ IsInjective(s)
    BY <2>2, <2>3, <2>4
  <2>. QED BY <2>1, <2>5 DEF s
<1>7. FilesInv(e)
  <2>1. ASSUME NEW g \in File
        PROVE  IF g \in ToSet(e.files)
               THEN g \notin ToSet(e.freeFiles) /\ e.file[g].name \in Name
               ELSE g \in ToSet(e.freeFiles) /\ e.file[g] = NoFile
    <3>1. IF g \in ToSet(d.files)
          THEN g \notin ToSet(d.freeFiles) /\ d.file[g].name \in Name
          ELSE g \in ToSet(d.freeFiles) /\ d.file[g] = NoFile
      BY DEF Good, FilesInv
    <3>2. CASE g = f
      BY <1>3, <1>4, <1>5, <3>2
    <3>3. CASE g # f
      <4>1. e.file[g] = d.file[g]
        BY <3>3 DEF Created
      <4>. QED BY <1>3, <1>4, <3>1, <3>3, <4>1
    <3>. QED BY <3>2, <3>3
  <2>2. ASSUME NEW g \in ToSet(e.files), NEW h \in ToSet(e.files),
               e.file[g].name = e.file[h].name
        PROVE  g = h
    <3>1. \A x \in ToSet(d.files) : x # f /\ e.file[x] = d.file[x] /\ d.file[x].name # name
      BY <1>1, <1>3 DEF Created
    <3>2. CASE g = f \/ h = f
      BY <1>4, <1>5, <2>2, <3>1, <3>2
    <3>3. CASE g # f /\ h # f
      BY <1>4, <2>2, <3>1, <3>3 DEF Good, FilesInv
    <3>. QED BY <3>2, <3>3
  <2>. QED BY <1>3, <1>4, <2>1, <2>2 DEF FilesInv
<1>8. \A q \in Perm : d.perm[q].file # f
  <2>1. \A q \in Perm : d.perm[q].file # NULL => d.perm[q].file \in ToSet(d.files)
    BY DEF Good, PermsInv
  <2>. QED BY <1>3, <2>1
<1>9. PermsInv(e)
  <2>1. \A q \in Perm : q \in ToSet(e.freePerms) <=> e.perm[q].file = NULL
    BY <1>2, <1>3, <1>5 DEF Good, PermsInv, Created
  <2>2. \A q \in Perm : e.perm[q].file = NULL => e.perm[q] = NoPerm
    BY <1>3, <1>5 DEF Good, PermsInv, Created
  <2>3. \A g \in File : IsInjective(e.file[g].acl)
    BY <1>5, <1>6 DEF Good, PermsInv, Created
  <2>4. ASSUME NEW g \in File, NEW q \in Perm
        PROVE  q \in ToSet(e.file[g].acl) <=> e.perm[q].file = g
    <3>1. q \in ToSet(d.file[g].acl) <=> d.perm[q].file = g
      BY DEF Good, PermsInv
    <3>2. CASE g = f
      BY <1>5, <1>6, <1>8, <3>2 DEF Created
    <3>3. CASE g # f
      BY <1>1, <1>2, <1>5, <3>1, <3>3 DEF Created
    <3>. QED BY <3>2, <3>3
  <2>5. ASSUME NEW q \in Perm, e.perm[q].file # NULL
        PROVE  /\ e.perm[q].sm_id \in SM /\ e.perm[q].flags # {}
               /\ e.perm[q].file \in ToSet(e.files)
    <3>1. CASE q = p
      <4>1. 0 \in SFS_CREATOR
        BY SMT DEF SFS_CREATOR
      <4>2. SFS_CREATOR # {}
        BY <4>1
      <4>. QED BY <1>4, <1>5, <3>1, <4>2
    <3>2. CASE q # p
      BY <1>4, <2>5, <3>2 DEF Good, PermsInv, Created
    <3>. QED BY <3>1, <3>2
  <2>. QED BY <1>2, <2>1, <2>2, <2>3, <2>4, <2>5 DEF PermsInv
<1>10. AclInv(e)
  <2>1. ASSUME NEW q \in Perm, NEW r \in Perm, e.perm[q].file # NULL,
               e.perm[q].file = e.perm[r].file, e.perm[q].sm_id = e.perm[r].sm_id
        PROVE  q = r
    <3>1. CASE q # p /\ r # p
      BY <2>1, <3>1 DEF Good, AclInv, Created
    <3>2. CASE q = p \/ r = p
      BY <1>5, <1>8, <2>1, <3>2 DEF Created
    <3>. QED BY <3>1, <3>2
  <2>2. ASSUME NEW g \in ToSet(e.files)
        PROVE  e.file[g].acl # <<>> /\ e.perm[Head(e.file[g].acl)].flags = SFS_CREATOR
    <3>1. CASE g = f
      BY <1>5, <1>6, <3>1
    <3>2. CASE g # f
      <4>1. /\ g \in ToSet(d.files) /\ g \in File /\ e.file[g] = d.file[g]
            /\ d.file[g].acl # <<>> /\ d.perm[Head(d.file[g].acl)].flags = SFS_CREATOR
        BY <1>1, <1>4, <3>2 DEF Good, AclInv, Created
      <4>2. Head(d.file[g].acl) \in Perm /\ d.perm[Head(d.file[g].acl)].file = g
        <5>1. Head(d.file[g].acl) \in ToSet(d.file[g].acl) /\ Head(d.file[g].acl) \in Perm
          BY <1>1, <4>1, ListElements
        <5>. QED BY <4>1, <5>1 DEF Good, PermsInv
      <4>3. Head(d.file[g].acl) # p
        BY <1>1, <1>2, <4>1, <4>2
      <4>. QED BY <4>1, <4>2, <4>3 DEF Created
    <3>. QED BY <3>1, <3>2
  <2>. QED BY <2>1, <2>2 DEF AclInv
<1>11. FdsInv(e)
  <2>1. \A m \in FD : e.fds[m] # NULL =>
          e.fds[m] \in Perm /\ e.fds[m] # p /\ e.fds[m] = d.fds[m]
    BY <1>2, CachedFile DEF Created, Good, FdsInv
  <2>2. \A m \in FD : e.fds[m] # NULL => e.perm[e.fds[m]] = d.perm[d.fds[m]]
    BY <2>1 DEF Created
  <2>3. \A m \in FD : e.fds[m] # NULL => e.perm[e.fds[m]].file # NULL
    BY <2>1, <2>2 DEF Good, FdsInv
  <2>4. \A g : Connections(e, g) = Connections(d, g)
    BY <2>2 DEF Connections, Created
  <2>5. \A g \in File : e.file[g].open_count = d.file[g].open_count
    BY <1>3, <1>5 DEF Created
  <2>6. \A g \in File : e.file[g].open_count = Cardinality(Connections(e, g))
    BY <2>4, <2>5 DEF Good, FdsInv
  <2>7. ASSUME NEW m \in CFS_FD
        PROVE  e.cfs[m] = IF m \in FD /\ e.fds[m] # NULL
                          THEN e.file[e.perm[e.fds[m]].file].name ELSE NULL
    <3>1. d.cfs[m] = IF m \in FD /\ d.fds[m] # NULL
                     THEN d.file[d.perm[d.fds[m]].file].name ELSE NULL
      BY DEF Good, FdsInv
    <3>2. m \in FD /\ d.fds[m] # NULL =>
            d.perm[d.fds[m]].file \in File /\ d.perm[d.fds[m]].file # f
      BY <1>3, CachedFile
    <3>. QED BY <2>2, <3>1, <3>2, SMTT(30) DEF Created
  <2>. QED BY <2>3, <2>6, <2>7 DEF FdsInv
<1>. QED BY <1>2, <1>3, <1>7, <1>9, <1>10, <1>11 DEF Good

\* The data sfs_open_new opens the new file in.
NewFile(d, f, p, sm, name) ==
  [d EXCEPT !.freeFiles = Tail(@), !.freePerms = Tail(@),
            !.file[f] = [name |-> name, open_count |-> 0, acl |-> <<p>>],
            !.perm[p] = [sm_id |-> sm, flags |-> SFS_CREATOR, file |-> f],
            !.files = <<f>> \o @]

\* ... is good.
LEMMA CreateGood ==
  ASSUME NEW d, Good(d), NEW name \in Name, NEW sm \in SM,
         \A g \in ToSet(d.files) : d.file[g].name # name,
         d.freePerms # <<>>, d.freeFiles # <<>>,
         NEW f, f = Head(d.freeFiles), NEW p, p = Head(d.freePerms)
  PROVE  LET e == NewFile(d, f, p, sm, name)
         IN  Good(e) /\ Created(d, e, f, p, sm, name) /\ f \in File /\ p \in Perm
<1>. DEFINE record == [name |-> name, open_count |-> 0, acl |-> <<p>>]
            entry == [sm_id |-> sm, flags |-> SFS_CREATOR, file |-> f]
            file == [d.file EXCEPT ![f] = record]
            perm == [d.perm EXCEPT ![p] = entry]
            freeFiles == Tail(d.freeFiles)
            freePerms == Tail(d.freePerms)
            files == <<f>> \o d.files
            e == NewFile(d, f, p, sm, name)
<1>1. /\ d \in DataRecord /\ d.perm \in [Perm -> PermRecord]
      /\ d.file \in [File -> FileRecord] /\ d.files \in Seq(File)
      /\ d.freeFiles \in Seq(File) /\ d.freePerms \in Seq(Perm)
      /\ IsInjective(d.freePerms) /\ IsInjective(d.freeFiles)
  BY GoodTypes DEF Good, PermsInv, FilesInv
<1>2. /\ p \in Perm /\ freePerms \in Seq(Perm)
      /\ f \in File /\ freeFiles \in Seq(File) /\ files \in Seq(File)
  BY <1>1, PopList, PushList
<1>3. /\ file \in [File -> FileRecord] /\ file[f] = record
      /\ \A g \in File \ {f} : file[g] = d.file[g]
  <2>1. record \in FileRecord
    BY <1>2 DEF FileRecord
  <2>. HIDE DEF record
  <2>. QED BY <1>1, <1>2, <2>1
<1>4. /\ perm \in [Perm -> PermRecord] /\ perm[p] = entry
      /\ \A q \in Perm \ {p} : perm[q] = d.perm[q]
  <2>1. entry \in PermRecord
    BY <1>2 DEF PermRecord, SFS_CREATOR, SFS_ROOT, Bit
  <2>. HIDE DEF entry
  <2>. QED BY <1>1, <1>2, <2>1
<1>5. e = [d EXCEPT !.freeFiles = freeFiles, !.freePerms = freePerms, !.file = file,
                    !.perm = perm, !.files = files]
  BY DEF NewFile
<1>6. /\ e \in DataRecord
      /\ e.perm = perm /\ e.freePerms = freePerms /\ e.freeFiles = freeFiles
      /\ e.files = files /\ e.cfs = d.cfs /\ e.file = file /\ e.fds = d.fds
      /\ e.content = d.content
  <2>. HIDE DEF perm, freePerms, freeFiles, files, file, e
  <2>1. e = [[[[[d EXCEPT !.freeFiles = freeFiles] EXCEPT !.freePerms = freePerms]
                EXCEPT !.file = file] EXCEPT !.perm = perm] EXCEPT !.files = files]
    BY <1>5
  <2>. QED BY <1>1, <1>2, <1>3, <1>4, <2>1 DEF DataRecord
<1>. HIDE DEF e, file, perm
<1>7. Created(d, e, f, p, sm, name)
  BY <1>3, <1>4, <1>6 DEF Created
<1>8. Good(e)
  <2>1. e \in DataRecord
    BY <1>6
  <2>. QED BY <1>7, <2>1, CreatedGood
<1>. QED BY <1>2, <1>7, <1>8 DEF e

\* Opening a file in the back-end: the connection is made, or nothing changes.
LEMMA OpenGood ==
  ASSUME NEW d, Good(d), NEW p \in Perm, NEW f \in File, d.perm[p].file = f,
         NEW name \in Name, d.file[f].name = name, NEW r \in cfs_open(d, name)
  PROVE  LET e == NewConnection(r.d, r.fd, p, f)
             c == cfs_close(r.d, r.fd)
         IN  /\ r.fd \in FD => /\ Good(e) /\ Connected(d, e, r.fd, p, f)
                               /\ r.fd \in CFS_FD /\ d.cfs[r.fd] = NULL
             /\ r.fd \notin FD => Good(c) /\ SameFrontEnd(d, c)
<1>1. d \in DataRecord /\ d.cfs \in [CFS_FD -> Name \cup {NULL}]
  BY GoodTypes DEF Good
<1>2. PICK fd, data : fd = r.fd /\ data = r.d
  OBVIOUS
<1>3. /\ data \in DataRecord /\ SameFrontEnd(d, data)
      /\ \/ fd = -1 /\ data.cfs = d.cfs
         \/ /\ fd \in CFS_FD /\ d.cfs[fd] = NULL
            /\ data.cfs = [d.cfs EXCEPT ![fd] = name]
  BY <1>1, <1>2, BackEndOpens
<1>4. -1 \notin FD /\ -1 \notin CFS_FD
  BY DEF FD, CFS_FD
<1>5. ASSUME fd \in FD
      PROVE  /\ fd \in CFS_FD /\ d.cfs[fd] = NULL
             /\ Good(NewConnection(data, fd, p, f))
             /\ Connected(d, NewConnection(data, fd, p, f), fd, p, f)
  <2>1. fd \in CFS_FD /\ d.cfs[fd] = NULL /\ data.cfs = [d.cfs EXCEPT ![fd] = d.file[f].name]
    BY <1>3, <1>4, <1>5
  <2>. QED BY <1>3, <1>5, <2>1, ConnectGood
<1>6. ASSUME fd \notin CFS_FD
      PROVE  Good(cfs_close(data, fd)) /\ SameFrontEnd(d, cfs_close(data, fd))
  <2>1. cfs_close(data, fd) = data /\ data.cfs = d.cfs
    BY <1>3, <1>6 DEF cfs_close
  <2>. QED BY <1>3, <2>1, ContentGood
<1>7. ASSUME fd \in CFS_FD, fd \notin FD
      PROVE  Good(cfs_close(data, fd)) /\ SameFrontEnd(d, cfs_close(data, fd))
  <2>. DEFINE cfs == [data.cfs EXCEPT ![fd] = NULL]
              e == [data EXCEPT !.cfs = cfs]
  <2>1. cfs = d.cfs
    BY <1>1, <1>3, <1>4, <1>7
  <2>2. cfs_close(data, fd) = e
    BY <1>7 DEF cfs_close
  <2>. HIDE DEF cfs
  <2>3. e \in DataRecord /\ SameFrontEnd(d, e) /\ e.cfs = d.cfs
    BY <1>1, <1>3, <2>1 DEF DataRecord, SameFrontEnd
  <2>. HIDE DEF e
  <2>. QED BY <2>2, <2>3, ContentGood
<1>. QED BY <1>2, <1>5, <1>6, <1>7

\* File f, the one at position k, is removed with its permissions.
Removed(d, e, f, k) ==
  /\ e.fds = d.fds /\ e.cfs = d.cfs /\ e.content = d.content
  /\ e.files = RemoveAt(d.files, k) /\ e.freeFiles = <<f>> \o d.freeFiles
  /\ e.freePerms = Reverse(d.file[f].acl) \o d.freePerms
  /\ e.file[f] = NoFile /\ \A g \in File \ {f} : e.file[g] = d.file[g]
  /\ \A q \in Perm :
       e.perm[q] = IF q \in ToSet(d.file[f].acl) THEN NoPerm ELSE d.perm[q]

\* A file without connections is removed.
LEMMA RemovedGood ==
  ASSUME NEW d, Good(d), NEW e \in DataRecord,
         NEW k \in 1 .. Len(d.files), NEW f, f = d.files[k], d.file[f].open_count = 0,
         Removed(d, e, f, k)
  PROVE  Good(e)
<1>1. /\ d.freePerms \in Seq(Perm) /\ d.freeFiles \in Seq(File) /\ d.files \in Seq(File)
      /\ NULL \notin File /\ NULL \notin Perm /\ ToSet(d.files) \subseteq File
      /\ IsInjective(d.freePerms) /\ IsInjective(d.freeFiles) /\ IsInjective(d.files)
      /\ \A g \in File : d.file[g].acl \in Seq(Perm)
  BY GoodTypes DEF Good, FilesInv, PermsInv
<1>2. /\ f \in ToSet(d.files) /\ f \in File /\ f # NULL /\ d.file[f].acl \in Seq(Perm)
      /\ f \notin ToSet(d.freeFiles)
      /\ IsInjective(e.files) /\ ToSet(e.files) = ToSet(d.files) \ {f}
      /\ IsInjective(e.freeFiles) /\ ToSet(e.freeFiles) = ToSet(d.freeFiles) \cup {f}
  <2>1. f \in ToSet(d.files)
    BY <1>1, ListElements
  <2>2. f \in File /\ f # NULL /\ f \notin ToSet(d.freeFiles)
    BY <1>1, <2>1 DEF Good, FilesInv
  <2>3. IsInjective(e.files) /\ ToSet(e.files) = ToSet(d.files) \ {f}
    BY <1>1, CutList, SMTT(30) DEF Removed
  <2>4. IsInjective(e.freeFiles) /\ ToSet(e.freeFiles) = ToSet(d.freeFiles) \cup {f}
    BY <1>1, <2>2, PushList, SMTT(30) DEF Removed
  <2>. QED BY <1>1, <2>1, <2>2, <2>3, <2>4
<1>3. \A q \in Perm : q \in ToSet(d.file[f].acl) <=> d.perm[q].file = f
  BY <1>2 DEF Good, PermsInv
<1>4. /\ \A q \in Perm : d.perm[q].file = f => e.perm[q] = NoPerm
      /\ \A q \in Perm : d.perm[q].file # f => e.perm[q] = d.perm[q]
  BY <1>3 DEF Removed
<1>5. NoPerm.file = NULL /\ NoPerm.sm_id = NULL /\ NoFile.acl = <<>> /\ NoFile.open_count = 0
  BY DEF NoPerm, NoFile
<1>6. /\ IsInjective(e.freePerms)
      /\ ToSet(e.freePerms) = ToSet(d.file[f].acl) \cup ToSet(d.freePerms)
  <2>1. ToSet(d.file[f].acl) \cap ToSet(d.freePerms) = {}
    <3>1. \A q \in Perm : q \in ToSet(d.freePerms) => d.perm[q].file = NULL
      BY DEF Good, PermsInv
    <3>2. ToSet(d.freePerms) \subseteq Perm
      BY <1>1, ListElements
    <3>. QED BY <1>2, <1>3, <3>1, <3>2
  <2>2. IsInjective(d.file[f].acl)
    BY <1>2 DEF Good, PermsInv
  <2>3. e.freePerms = Reverse(d.file[f].acl) \o d.freePerms
    BY DEF Removed
  <2>. QED BY <1>1, <1>2, <2>1, <2>2, <2>3, ReverseOnto
<1>7. FilesInv(e)
  <2>1. ASSUME NEW g \in File
        PROVE  IF g \in ToSet(e.files)
               THEN g \notin ToSet(e.freeFiles) /\ e.file[g].name \in Name
               ELSE g \in ToSet(e.freeFiles) /\ e.file[g] = NoFile
    <3>1. IF g \in ToSet(d.files)
          THEN g \notin ToSet(d.freeFiles) /\ d.file[g].name \in Name
          ELSE g \in ToSet(d.freeFiles) /\ d.file[g] = NoFile
      BY DEF Good, FilesInv
    <3>2. CASE g = f
      BY <1>2, <3>2 DEF Removed
    <3>3. CASE g # f
      <4>1. e.file[g] = d.file[g]
        BY <3>3 DEF Removed
      <4>. QED BY <1>2, <3>1, <3>3, <4>1
    <3>. QED BY <3>2, <3>3
  <2>2. ASSUME NEW g \in ToSet(e.files), NEW h \in ToSet(e.files),
               e.file[g].name = e.file[h].name
        PROVE  g = h
    <3>1. \A x \in ToSet(e.files) : x \in ToSet(d.files) /\ e.file[x] = d.file[x]
      BY <1>1, <1>2 DEF Removed
    <3>. QED BY <2>2, <3>1 DEF Good, FilesInv
  <2>. QED BY <1>2, <2>1, <2>2 DEF FilesInv
<1>8. PermsInv(e)
  <2>1. \A q \in Perm : q \in ToSet(e.freePerms) <=> e.perm[q].file = NULL
    BY <1>3, <1>4, <1>5, <1>6 DEF Good, PermsInv
  <2>2. \A q \in Perm : e.perm[q].file = NULL => e.perm[q] = NoPerm
    BY <1>4 DEF Good, PermsInv
  <2>6. ToSet(<<>>) = {} /\ IsInjective(<<>>)
    BY EmptyList
  <2>3. \A g \in File : IsInjective(e.file[g].acl)
    BY <1>5, <2>6 DEF Good, PermsInv, Removed
  <2>4. ASSUME NEW g \in File, NEW q \in Perm
        PROVE  q \in ToSet(e.file[g].acl) <=> e.perm[q].file = g
    <3>1. q \in ToSet(d.file[g].acl) <=> d.perm[q].file = g
      BY DEF Good, PermsInv
    <3>2. CASE g = f
      <4>1. e.file[g].acl = <<>>
        BY <1>5, <3>2 DEF Removed
      <4>2. e.perm[q].file # f
        BY <1>2, <1>4, <1>5
      <4>. QED BY <2>6, <3>2, <4>1, <4>2
    <3>3. CASE g # f
      <4>1. e.file[g] = d.file[g]
        BY <3>3 DEF Removed
      <4>2. e.perm[q].file = g <=> d.perm[q].file = g
        BY <1>1, <1>4, <1>5, <3>3
      <4>. QED BY <3>1, <4>1, <4>2
    <3>. QED BY <3>2, <3>3
  <2>5. ASSUME NEW q \in Perm, e.perm[q].file # NULL
        PROVE  /\ e.perm[q].sm_id \in SM /\ e.perm[q].flags # {}
               /\ e.perm[q].file \in ToSet(e.files)
    <3>1. d.perm[q].file # f /\ e.perm[q] = d.perm[q]
      BY <1>4, <1>5, <2>5
    <3>. QED BY <1>2, <2>5, <3>1 DEF Good, PermsInv
  <2>. QED BY <1>6, <2>1, <2>2, <2>3, <2>4, <2>5 DEF PermsInv
<1>9. AclInv(e)
  <2>1. ASSUME NEW q \in Perm, NEW r \in Perm, e.perm[q].file # NULL,
               e.perm[q].file = e.perm[r].file, e.perm[q].sm_id = e.perm[r].sm_id
        PROVE  q = r
    <3>1. e.perm[q] = d.perm[q] /\ e.perm[r] = d.perm[r]
      BY <1>4, <1>5, <2>1
    <3>. QED BY <2>1, <3>1 DEF Good, AclInv
  <2>2. ASSUME NEW g \in ToSet(e.files)
        PROVE  e.file[g].acl # <<>> /\ e.perm[Head(e.file[g].acl)].flags = SFS_CREATOR
    <3>1. /\ g \in ToSet(d.files) /\ g \in File /\ g # f /\ e.file[g] = d.file[g]
          /\ d.file[g].acl # <<>> /\ d.perm[Head(d.file[g].acl)].flags = SFS_CREATOR
      BY <1>1, <1>2 DEF Good, AclInv, Removed
    <3>2. Head(d.file[g].acl) \in Perm /\ d.perm[Head(d.file[g].acl)].file = g
      <4>1. Head(d.file[g].acl) \in ToSet(d.file[g].acl) /\ Head(d.file[g].acl) \in Perm
        BY <1>1, <3>1, ListElements
      <4>. QED BY <3>1, <4>1 DEF Good, PermsInv
    <3>. QED BY <1>4, <3>1, <3>2
  <2>. QED BY <2>1, <2>2 DEF AclInv
<1>10. FdsInv(e)
  <2>1. Connections(d, f) = {}
    <3>1. Cardinality(Connections(d, f)) = 0
      BY <1>2 DEF Good, FdsInv
    <3>. QED BY <3>1, FiniteConnections, FS_EmptySet
  <2>2. \A m \in FD : e.fds[m] # NULL =>
          /\ e.fds[m] = d.fds[m] /\ d.fds[m] \in Perm
          /\ d.perm[d.fds[m]].file # f /\ d.perm[d.fds[m]].file \in File
    BY <2>1, CachedFile DEF Removed, Connections
  <2>3. \A m \in FD : e.fds[m] # NULL => e.perm[e.fds[m]] = d.perm[d.fds[m]]
    BY <1>4, <2>2
  <2>4. \A m \in FD : e.fds[m] # NULL => e.perm[e.fds[m]].file # NULL
    BY <1>1, <2>2, <2>3
  <2>5. \A g : Connections(e, g) = Connections(d, g)
    BY <2>3, SMTT(30) DEF Connections, Removed
  <2>6. \A g \in File : e.file[g].open_count = d.file[g].open_count
    BY <1>5 DEF Removed
  <2>7. \A g \in File : e.file[g].open_count = Cardinality(Connections(e, g))
    BY <2>5, <2>6 DEF Good, FdsInv
  <2>8. ASSUME NEW m \in CFS_FD
        PROVE  e.cfs[m] = IF m \in FD /\ e.fds[m] # NULL
                          THEN e.file[e.perm[e.fds[m]].file].name ELSE NULL
    <3>1. d.cfs[m] = IF m \in FD /\ d.fds[m] # NULL
                     THEN d.file[d.perm[d.fds[m]].file].name ELSE NULL
      BY DEF Good, FdsInv
    <3>2. e.cfs[m] = d.cfs[m] /\ e.fds = d.fds
      BY DEF Removed
    <3>3. CASE m \in FD /\ d.fds[m] # NULL
      <4>1. /\ e.perm[e.fds[m]] = d.perm[d.fds[m]]
            /\ d.perm[d.fds[m]].file # f /\ d.perm[d.fds[m]].file \in File
        BY <2>2, <2>3, <3>2, <3>3
      <4>2. e.file[d.perm[d.fds[m]].file] = d.file[d.perm[d.fds[m]].file]
        BY <4>1 DEF Removed
      <4>. QED BY <3>1, <3>2, <3>3, <4>1, <4>2
    <3>4. CASE ~ (m \in FD /\ d.fds[m] # NULL)
      BY <3>1, <3>2, <3>4
    <3>. QED BY <3>3, <3>4
  <2>. QED BY <2>4, <2>7, <2>8 DEF FdsInv
<1>. QED BY <1>7, <1>8, <1>9, <1>10 DEF Good

\* The data sfs_remove returns.
WithoutFile(d, f, k, acl) ==
  [d EXCEPT !.files = RemoveAt(@, k),
            !.perm = [p \in Perm |-> IF p \in ToSet(acl) THEN NoPerm ELSE @[p]],
            !.freePerms = Reverse(acl) \o @,
            !.file[f] = NoFile, !.freeFiles = <<f>> \o @]

\* ... is good.
LEMMA RemoveGood ==
  ASSUME NEW d, Good(d), NEW k \in 1 .. Len(d.files), NEW f, f = d.files[k],
         d.file[f].open_count = 0, NEW acl, acl = d.file[f].acl
  PROVE  LET e == WithoutFile(d, f, k, acl) IN Good(e) /\ Removed(d, e, f, k)
<1>. DEFINE file == [d.file EXCEPT ![f] = NoFile]
            perm == [p \in Perm |-> IF p \in ToSet(acl) THEN NoPerm ELSE d.perm[p]]
            freeFiles == <<f>> \o d.freeFiles
            freePerms == Reverse(acl) \o d.freePerms
            files == RemoveAt(d.files, k)
            e == WithoutFile(d, f, k, acl)
<1>1. /\ d \in DataRecord /\ d.perm \in [Perm -> PermRecord]
      /\ d.file \in [File -> FileRecord] /\ d.files \in Seq(File)
      /\ d.freeFiles \in Seq(File) /\ d.freePerms \in Seq(Perm)
      /\ IsInjective(d.files) /\ f \in File /\ acl \in Seq(Perm)
  <2>1. d.files \in Seq(File) /\ \A g \in File : d.file[g].acl \in Seq(Perm)
    BY GoodTypes DEF Good
  <2>2. f \in File
    BY <2>1, ElementOfSeq
  <2>. QED BY <2>1, <2>2, GoodTypes DEF Good, FilesInv
<1>2. /\ freePerms \in Seq(Perm) /\ freeFiles \in Seq(File) /\ files \in Seq(File)
  <2>1. freePerms \in Seq(Perm)
    BY <1>1, ReverseOnto
  <2>2. freeFiles \in Seq(File)
    BY <1>1, PushList
  <2>3. files \in Seq(File)
    BY <1>1, CutList
  <2>. QED BY <2>1, <2>2, <2>3
<1>3. /\ file \in [File -> FileRecord] /\ file[f] = NoFile
      /\ \A g \in File \ {f} : file[g] = d.file[g]
  <2>1. NoFile \in FileRecord
    BY DEF FileRecord, NoFile
  <2>. QED BY <1>1, <2>1
<1>4. /\ perm \in [Perm -> PermRecord]
      /\ \A q \in Perm : perm[q] = IF q \in ToSet(acl) THEN NoPerm ELSE d.perm[q]
  <2>1. NoPerm \in PermRecord
    BY DEF PermRecord, NoPerm
  <2>. QED BY <1>1, <2>1
<1>5. e = [d EXCEPT !.files = files, !.perm = perm, !.freePerms = freePerms,
                    !.file = file, !.freeFiles = freeFiles]
  BY DEF WithoutFile
<1>6. /\ e \in DataRecord
      /\ e.perm = perm /\ e.freePerms = freePerms /\ e.freeFiles = freeFiles
      /\ e.files = files /\ e.cfs = d.cfs /\ e.file = file /\ e.fds = d.fds
      /\ e.content = d.content
  <2>. HIDE DEF perm, freePerms, freeFiles, files, file, e
  <2>1. e = [[[[[d EXCEPT !.files = files] EXCEPT !.perm = perm]
                EXCEPT !.freePerms = freePerms] EXCEPT !.file = file]
                EXCEPT !.freeFiles = freeFiles]
    BY <1>5
  <2>. QED BY <1>1, <1>2, <1>3, <1>4, <2>1 DEF DataRecord
<1>. HIDE DEF e, file, perm
<1>7. Removed(d, e, f, k)
  BY <1>3, <1>4, <1>6 DEF Removed
<1>8. Good(e)
  <2>1. e \in DataRecord
    BY <1>6
  <2>. QED BY <1>7, <2>1, RemovedGood
<1>. QED BY <1>7, <1>8 DEF e

\* Removing the back-end's file leaves the front-end's data, whatever becomes of it.
LEMMA BackEndRemoves ==
  ASSUME NEW d, Good(d), NEW name \in Name, NEW e \in cfs_remove(d, name)
  PROVE  Good(e) /\ SameFrontEnd(d, e) /\ e.cfs = d.cfs
<1>1. CASE e = d
  BY <1>1 DEF SameFrontEnd
<1>2. CASE e = [d EXCEPT !.content[name] = "absent"]
  <2>. DEFINE content == [d.content EXCEPT ![name] = "absent"]
  <2>1. d \in DataRecord /\ content \in [Name -> Contents]
    BY GoodTypes DEF Good, Contents
  <2>2. e = [d EXCEPT !.content = content]
    BY <1>2
  <2>. HIDE DEF content
  <2>3. e \in DataRecord /\ SameFrontEnd(d, e) /\ e.cfs = d.cfs
    BY <2>1, <2>2 DEF DataRecord, SameFrontEnd
  <2>. QED BY <2>3, ContentGood
<1>. QED BY <1>1, <1>2 DEF cfs_remove

\* A write through a descriptor leaves the front-end's data.
LEMMA WriteGood ==
  ASSUME NEW d, Good(d), NEW x
  PROVE  Good([d EXCEPT !.content[x] = "data"])
<1>. DEFINE content == [d.content EXCEPT ![x] = "data"]
            e == [d EXCEPT !.content = content]
<1>1. d \in DataRecord /\ content \in [Name -> Contents]
  BY GoodTypes DEF Good, Contents
<1>2. e = [d EXCEPT !.content[x] = "data"]
  OBVIOUS
<1>. HIDE DEF content
<1>3. e \in DataRecord /\ SameFrontEnd(d, e) /\ e.cfs = d.cfs
  BY <1>1 DEF DataRecord, SameFrontEnd
<1>. HIDE DEF e
<1>4. Good(e)
  BY <1>3, ContentGood
<1>. QED BY <1>2, <1>4

\* The list of all structs of a pool.
LEMMA WholePool ==
  ASSUME NEW n \in Nat
  PROVE  LET s == [i \in 1 .. n |-> i]
         IN  s \in Seq(1 .. n) /\ ToSet(s) = 1 .. n /\ IsInjective(s)
<1>. DEFINE s == [i \in 1 .. n |-> i]
<1>1. s \in [1 .. n -> 1 .. n] /\ \A i \in 1 .. n : s[i] = i
  OBVIOUS
<1>. HIDE DEF s
<1>2. s \in Seq(1 .. n) /\ Len(s) = n
  BY <1>1
<1>3. /\ ToSet(s) = {s[i] : i \in 1 .. n}
      /\ IsInjective(s) <=> \A i, j \in 1 .. n : s[i] = s[j] => i = j
  BY <1>2, ListElements, SMTT(30)
<1>4. ToSet(s) = 1 .. n /\ IsInjective(s)
  BY <1>1, <1>3
<1>. QED BY <1>2, <1>4 DEF s

-----------------------------------------------------------------------------
(* The calls.                                                               *)

\* init_data_structures makes good data of the cleared one.
LEMMA InitGood ==
  ASSUME SfsInv
  PROVE  Good(DO_INIT)
<1>1. CASE INIT_DONE
  BY <1>1 DEF SfsInv, DO_INIT
<1>2. CASE ~ INIT_DONE
  <2>1. PICK d, e : d = Data /\ e = InitialData
    OBVIOUS
  <2>2. Cleared(d)
    BY <1>2, <2>1 DEF SfsInv
  <2>. DEFINE freePerms == [i \in Perm |-> i]
              freeFiles == [i \in File |-> i]
              fds == [fd \in FD |-> NULL]
              content == IF NO_CFS_FORMAT THEN d.content ELSE [name \in Name |-> "absent"]
  <2>3. /\ freePerms \in Seq(Perm) /\ ToSet(freePerms) = Perm /\ IsInjective(freePerms)
        /\ freeFiles \in Seq(File) /\ ToSet(freeFiles) = File /\ IsInjective(freeFiles)
    BY SizesAssumption, WholePool DEF Perm, File
  <2>4. /\ fds \in [FD -> Perm \cup {NULL}] /\ content \in [Name -> Contents]
        /\ \A fd \in FD : fds[fd] = NULL
    BY <2>2, GoodTypes DEF Cleared, Contents
  <2>5. PICK s \in Seq(File) : s = <<>> /\ ToSet(s) = {} /\ IsInjective(s)
    <3>1. <<>> \in Seq(File)
      OBVIOUS
    <3>. QED BY <3>1, EmptyList, Zenon
  <2>6. e = [d EXCEPT !.freePerms = freePerms, !.freeFiles = freeFiles, !.files = s,
                      !.fds = fds, !.content = content]
    BY <2>1, <2>5 DEF InitialData
  <2>. HIDE DEF freePerms, freeFiles, fds, content
  <2>7. /\ e \in DataRecord
        /\ e.perm = [p \in Perm |-> NoPerm] /\ e.file = [f \in File |-> NoFile]
        /\ e.freePerms = freePerms /\ e.freeFiles = freeFiles /\ e.files = s
        /\ e.fds = fds /\ e.cfs = [fd \in CFS_FD |-> NULL]
    <3>1. e = [[[[[d EXCEPT !.freePerms = freePerms] EXCEPT !.freeFiles = freeFiles]
                   EXCEPT !.files = s] EXCEPT !.fds = fds] EXCEPT !.content = content]
      BY <2>6
    <3>. QED BY <2>2, <2>3, <2>4, <2>5, <3>1 DEF DataRecord, Cleared
  <2>8. /\ \A p \in Perm : e.perm[p] = NoPerm /\ e.perm[p].file = NULL
        /\ \A f \in File : /\ e.file[f] = NoFile /\ e.file[f].acl = <<>>
                           /\ e.file[f].open_count = 0
        /\ \A fd \in CFS_FD : e.cfs[fd] = NULL
        /\ \A fd \in FD : e.fds[fd] = NULL
    BY <2>4, <2>7 DEF NoPerm, NoFile
  <2>. HIDE DEF freePerms, freeFiles, fds, content
  <2>9. FilesInv(e)
    BY <2>3, <2>5, <2>7, <2>8 DEF FilesInv
  <2>10. PermsInv(e)
    <3>1. ToSet(<<>>) = {} /\ IsInjective(<<>>) /\ NULL \notin File
      BY <2>5 DEF File, NULL
    <3>. QED BY <2>3, <2>7, <2>8, <3>1 DEF PermsInv
  <2>11. AclInv(e)
    BY <2>5, <2>7, <2>8 DEF AclInv
  <2>12. FdsInv(e)
    <3>1. \A f : Connections(e, f) = {}
      BY <2>8 DEF Connections
    <3>. QED BY <2>8, <3>1, FS_EmptySet DEF FdsInv
  <2>. QED BY <1>2, <2>1, <2>7, <2>9, <2>10, <2>11, <2>12 DEF Good, DO_INIT
<1>. QED BY <1>1, <1>2

\* A call ends with good data.
LEMMA Returned ==
  ASSUME NEW d, Good(d), NEW access, Return(d, access)
  PROVE  Data' = d /\ INIT_DONE' = TRUE /\ SfsInv'
<1>1. Data' = d
  BY DEF Good, DataRecord, Data, Return
<1>2. INIT_DONE' = TRUE
  BY DEF Return
<1>. QED BY <1>1, <1>2 DEF SfsInv

\* Before the initialisation no descriptor is cached.
LEMMA CachedIsInitialised ==
  ASSUME SfsInv, NEW sm, NEW fd \in FD, CHK_FD(DO_INIT, fd, sm)
  PROVE  INIT_DONE /\ DO_INIT = Data /\ Good(Data) /\ Data.fds[fd] # NULL
<1>1. ~ INIT_DONE => DO_INIT.fds[fd] = NULL
  BY DEF DO_INIT, InitialData, Data
<1>. QED BY <1>1 DEF CHK_FD, DO_INIT, SfsInv

\* A call that fails.
LEMMA FailureGood == SfsInv /\ FAILURE => SfsInv'
<1>. SUFFICES ASSUME SfsInv, FAILURE PROVE SfsInv'
  OBVIOUS
<1>1. PICK d : d = DO_INIT
  OBVIOUS
<1>. QED BY <1>1, InitGood, Returned DEF FAILURE

\* Opening a file for p, a permission on it.
LEMMA OpenKeepsInv ==
  ASSUME NEW d, Good(d), NEW p \in Perm, NEW f \in File, d.perm[p].file = f,
         NEW name \in Name, d.file[f].name = name, NEW access,
         open_back_end_file(d, name, p, access)
  PROVE  SfsInv'
<1>1. PICK r \in cfs_open(d, name) :
        IF r.fd \in FD
        THEN Return([r.d EXCEPT !.file[d.perm[p].file].open_count = @ + 1,
                                !.fds[r.fd] = p], access)
        ELSE Return(cfs_close(r.d, r.fd), NOTHING)
  BY DEF open_back_end_file
<1>2. PICK e : e = NewConnection(r.d, r.fd, p, f)
  OBVIOUS
<1>3. PICK c : c = cfs_close(r.d, r.fd)
  OBVIOUS
<1>4. (r.fd \in FD => Good(e)) /\ (r.fd \notin FD => Good(c))
  BY <1>2, <1>3, OpenGood
<1>5. CASE r.fd \in FD
  <2>1. Return(e, access) /\ Good(e)
    BY <1>1, <1>2, <1>4, <1>5 DEF NewConnection
  <2>. QED BY <2>1, Returned
<1>6. CASE r.fd \notin FD
  <2>1. Return(c, NOTHING) /\ Good(c)
    BY <1>1, <1>3, <1>4, <1>6
  <2>. QED BY <2>1, Returned
<1>. QED BY <1>5, <1>6

\* sfs_open
LEMMA OpenNewKeepsInv ==
  ASSUME SfsInv, NEW sm \in SM, NEW name \in Name, sfs_open_new(sm, name)
  PROVE  SfsInv'
<1>1. PICK d, f, p : d = DO_INIT /\ f = Head(d.freeFiles) /\ p = Head(d.freePerms)
  OBVIOUS
<1>2. /\ Good(d) /\ LOOKUP_FILE(d, name) = NULL /\ d.freePerms # <<>> /\ d.freeFiles # <<>>
      /\ open_back_end_file(NewFile(d, f, p, sm, name), name, p, <<"create", sm, name>>)
  BY <1>1, InitGood DEF sfs_open_new, NewFile
<1>3. \A g \in ToSet(d.files) : d.file[g].name # name
  BY <1>2, LookupFile
<1>4. PICK e : e = NewFile(d, f, p, sm, name)
  OBVIOUS
<1>5. Good(e) /\ Created(d, e, f, p, sm, name) /\ f \in File /\ p \in Perm
  BY <1>1, <1>2, <1>3, <1>4, CreateGood
<1>6. e.perm[p].file = f /\ e.file[f].name = name
  BY <1>5 DEF Created
<1>7. open_back_end_file(e, name, p, <<"create", sm, name>>)
  BY <1>2, <1>4
<1>. QED BY <1>5, <1>6, <1>7, OpenKeepsInv

\* ... of an existing file
LEMMA OpenExistingKeepsInv ==
  ASSUME SfsInv, NEW sm \in SM, NEW name \in Name, NEW want,
         sfs_open_existing(sm, name, want)
  PROVE  SfsInv'
<1>1. PICK d, f, p : d = DO_INIT /\ f = LOOKUP_FILE(d, name) /\ p = LOOKUP_PERM(d, f, sm)
  OBVIOUS
<1>2. /\ Good(d) /\ two_phase_lookup(d, name, want, sm)
      /\ open_back_end_file(d, name, p, <<"open", sm, name, want>>)
  BY <1>1, InitGood DEF sfs_open_existing
<1>3. f \in File /\ d.file[f].name = name /\ p \in Perm /\ d.perm[p].file = f
  BY <1>1, <1>2, TwoPhases
<1>. QED BY <1>2, <1>3, OpenKeepsInv

\* sfs_close
LEMMA CloseKeepsInv ==
  ASSUME SfsInv, NEW sm, NEW fd \in FD, sfs_close(sm, fd)
  PROVE  SfsInv'
<1>1. INIT_DONE /\ DO_INIT = Data /\ Good(Data) /\ Data.fds[fd] # NULL
  BY CachedIsInitialised DEF sfs_close
<1>2. PICK d, f : d = Data /\ f = d.perm[d.fds[fd]].file
  OBVIOUS
<1>3. f \in ToSet(d.files) /\ {fd} \in SUBSET Connections(d, f)
  BY <1>1, <1>2, CachedFile DEF Connections
<1>4. PICK e : e = CLOSE_FDS(d, f, {fd})
  OBVIOUS
<1>5. Good(e)
  BY <1>1, <1>2, <1>3, <1>4, CloseGood
<1>6. Return(e, NOTHING)
  BY <1>1, <1>2, <1>4 DEF sfs_close, Data
<1>. QED BY <1>5, <1>6, Returned

\* sfs_remove
LEMMA RemoveKeepsInv ==
  ASSUME SfsInv, NEW sm \in SM, NEW name \in Name, sfs_remove(sm, name)
  PROVE  SfsInv'
<1>1. PICK d, f, acl, k : /\ d = DO_INIT /\ f = LOOKUP_FILE(d, name)
                          /\ acl = d.file[f].acl /\ k = FilePosition(d, name)
  OBVIOUS
<1>2. /\ Good(d) /\ two_phase_lookup(d, name, SFS_ROOT, sm) /\ d.file[f].open_count = 0
      /\ \E e \in cfs_remove(d, name) : Return(WithoutFile(e, f, k, acl), NOTHING)
  BY <1>1, InitGood DEF sfs_remove, WithoutFile
<1>3. PICK e \in cfs_remove(d, name) : Return(WithoutFile(e, f, k, acl), NOTHING)
  BY <1>2
<1>4. Good(e) /\ SameFrontEnd(d, e)
  BY <1>2, BackEndRemoves
<1>5. k \in 1 .. Len(d.files) /\ f = d.files[k]
  BY <1>1, <1>2, TwoPhases
<1>6. /\ k \in 1 .. Len(e.files) /\ f = e.files[k] /\ e.file[f].open_count = 0
      /\ acl = e.file[f].acl
  BY <1>1, <1>2, <1>4, <1>5 DEF SameFrontEnd
<1>7. PICK c : c = WithoutFile(e, f, k, acl)
  OBVIOUS
<1>8. Good(c)
  BY <1>4, <1>6, <1>7, RemoveGood
<1>. QED BY <1>3, <1>7, <1>8, Returned

\* sfs_chmod
LEMMA ChmodKeepsInv ==
  ASSUME SfsInv, NEW sm \in SM, NEW name \in Name, NEW id \in SM, NEW flags \in Flags,
         sfs_chmod(sm, name, id, flags)
  PROVE  SfsInv'
<1>1. PICK d, f : d = DO_INIT /\ f = LOOKUP_FILE(d, name)
  OBVIOUS
<1>2. /\ Good(d) /\ two_phase_lookup(d, name, SFS_ROOT, sm)
      /\ \/ flags = {} /\ Return(revoke_acl(d, f, id), NOTHING)
         \/ flags # {} /\ Return(add_acl(d, f, id, flags), NOTHING)
  BY <1>1, InitGood DEF sfs_chmod, SFS_NIL
<1>3. f \in ToSet(d.files)
  BY <1>1, <1>2, TwoPhases
<1>4. flags \in SUBSET Bit
  BY FlagsAssumption
<1>5. PICK r, a : r = revoke_acl(d, f, id) /\ a = add_acl(d, f, id, flags)
  OBVIOUS
<1>6. Good(r) /\ (flags # {} => Good(a))
  BY <1>2, <1>3, <1>4, <1>5, RevokeGood, AddGood
<1>. QED BY <1>2, <1>5, <1>6, Returned

\* sfs_getc, sfs_putc and sfs_seek
LEMMA AccessKeepsInv ==
  ASSUME SfsInv, NEW sm, NEW fd \in FD,
         sfs_getc(sm, fd) \/ sfs_putc(sm, fd) \/ sfs_seek(sm, fd)
  PROVE  SfsInv'
<1>1. INIT_DONE /\ DO_INIT = Data /\ Good(Data)
  BY CachedIsInitialised DEF sfs_getc, sfs_putc, sfs_seek
<1>2. PICK d, e, x, a : /\ d = Data /\ x = cfs_fd[fd] /\ e = [d EXCEPT !.content[x] = "data"]
                        /\ a = [op \in {"read", "write"} |-> Accessed(op, sm, fd)]
  OBVIOUS
<1>3. Good(d) /\ Good(e)
  BY <1>1, <1>2, WriteGood
<1>4. \E access : Return(d, access) \/ Return(e, access)
  BY <1>1, <1>2 DEF sfs_getc, sfs_putc, sfs_seek
<1>. QED BY <1>3, <1>4, Returned

\* sfs_attest, which changes nothing, and a restart
LEMMA RebootKeepsInv == SfsInv /\ Reboot => SfsInv'
<1>. SUFFICES ASSUME SfsInv, Reboot PROVE SfsInv'
  OBVIOUS
<1>1. PICK d, e : d = Data /\ e = Data'
  OBVIOUS
<1>2. d.content \in [Name -> Contents]
  BY <1>1, GoodTypes DEF SfsInv, Good, Cleared
<1>3. e = [perm |-> [p \in Perm |-> NoPerm], file |-> [f \in File |-> NoFile],
           freePerms |-> <<>>, freeFiles |-> <<>>, files |-> <<>>,
           fds |-> [fd \in FD |-> NULL], cfs |-> [fd \in CFS_FD |-> NULL],
           content |-> d.content]
  BY <1>1 DEF Reboot, Data
<1>4. Cleared(e)
  BY <1>2, <1>3 DEF Cleared, DataRecord, NoPerm, NoFile, PermRecord, FileRecord
<1>5. INIT_DONE' = FALSE
  BY DEF Reboot
<1>. QED BY <1>1, <1>4, <1>5 DEF SfsInv

\* Every call keeps the invariant.
LEMMA NextKeepsSfsInv == SfsInv /\ [Next]_vars => SfsInv'
<1>. SUFFICES ASSUME SfsInv, [Next]_vars PROVE SfsInv'
  OBVIOUS
<1>1. ASSUME UNCHANGED vars
      PROVE  SfsInv'
  BY <1>1 DEF SfsInv, Data, vars, backend
<1>2. ASSUME FAILURE
      PROVE  SfsInv'
  BY <1>2, FailureGood
<1>3. ASSUME NEW sm \in SM, NEW name \in Name, NameCall(sm, name)
      PROVE  SfsInv'
  <2>1. CASE sfs_open_new(sm, name)
    BY <2>1, OpenNewKeepsInv
  <2>2. CASE \E want \in Wanted : sfs_open_existing(sm, name, want)
    BY <2>2, OpenExistingKeepsInv
  <2>3. CASE \E want \in Wanted : sfs_open_denied(sm, name, want)
    BY <1>2, <2>3 DEF sfs_open_denied
  <2>4. CASE sfs_remove(sm, name)
    BY <2>4, RemoveKeepsInv
  <2>5. CASE sfs_remove_refused(sm, name)
    BY <1>2, <2>5 DEF sfs_remove_refused
  <2>6. CASE \E id \in SM, flags \in Flags : sfs_chmod(sm, name, id, flags)
    BY <2>6, ChmodKeepsInv
  <2>7. CASE sfs_chmod_denied(sm, name)
    BY <1>2, <2>7 DEF sfs_chmod_denied
  <2>8. CASE sfs_attest(name, sm)
    BY <2>8 DEF sfs_attest, SfsInv, Data, backend
  <2>. QED BY <1>3, <2>1, <2>2, <2>3, <2>4, <2>5, <2>6, <2>7, <2>8 DEF NameCall
<1>4. ASSUME NEW sm \in SM, NEW fd \in FD, FdCall(sm, fd)
      PROVE  SfsInv'
  <2>1. CASE sfs_close(sm, fd)
    BY <2>1, CloseKeepsInv
  <2>2. CASE sfs_getc(sm, fd) \/ sfs_putc(sm, fd) \/ sfs_seek(sm, fd)
    BY <2>2, AccessKeepsInv
  <2>3. CASE fd_refused(sm, fd)
    BY <1>2, <2>3 DEF fd_refused
  <2>. QED BY <1>4, <2>1, <2>2, <2>3 DEF FdCall
<1>5. CASE Next
  <2>1. CASE sfs_init
    BY <1>2, <2>1 DEF sfs_init
  <2>2. CASE \E name \in Name, mayCreate \in BOOLEAN : sfs_open_none(name, mayCreate)
    BY <1>2, <2>2 DEF sfs_open_none
  <2>3. CASE Reboot
    BY <2>3, RebootKeepsInv
  <2>. QED BY <1>3, <1>4, <1>5, <2>1, <2>2, <2>3 DEF Next
<1>. QED BY <1>1, <1>5

\* The node starts with the invariant.
LEMMA InitSfsInv == Init => SfsInv
<1>. SUFFICES ASSUME Init PROVE SfsInv
  OBVIOUS
<1>1. PICK d : d = Data
  OBVIOUS
<1>2. d = [perm |-> [p \in Perm |-> NoPerm], file |-> [f \in File |-> NoFile],
           freePerms |-> <<>>, freeFiles |-> <<>>, files |-> <<>>,
           fds |-> [fd \in FD |-> NULL], cfs |-> [fd \in CFS_FD |-> NULL],
           content |-> [name \in Name |-> "absent"]]
  BY <1>1 DEF Init, Data
<1>3. Cleared(d)
  BY <1>2 DEF Cleared, DataRecord, NoPerm, NoFile, PermRecord, FileRecord, Contents
<1>. QED BY <1>1, <1>3 DEF Init, SfsInv

-----------------------------------------------------------------------------
(* The theorems.                                                            *)

\* The inductive invariant holds of every reachable state, whatever calls the
\* clients make, whatever the back-end refuses, and after every restart.
THEOREM SfsInvariant == Spec => []SfsInv
BY InitSfsInv, NextKeepsSfsInv, PTL DEF Spec

\* What the parts of the invariant say of the variables.
LEMMA InvOfVariables ==
  ASSUME SfsInv
  PROVE  /\ Data \in DataRecord
         /\ IF INIT_DONE THEN Good(Data)
            ELSE /\ ToSet(open_file_list) = {}
                 /\ perm_pool = [p \in Perm |-> NoPerm]
                 /\ file_pool = [f \in File |-> NoFile]
                 /\ fd_cache = [fd \in FD |-> NULL] /\ cfs_fd = [fd \in CFS_FD |-> NULL]
         /\ \A fd \in FD : fd_cache[fd] # NULL => INIT_DONE
<1>1. Data \in DataRecord
  BY DEF SfsInv, Good, Cleared
<1>2. CASE INIT_DONE
  BY <1>1, <1>2 DEF SfsInv
<1>3. CASE ~ INIT_DONE
  <2>1. Cleared(Data)
    BY <1>3 DEF SfsInv
  <2>2. /\ open_file_list = <<>> /\ perm_pool = [p \in Perm |-> NoPerm]
        /\ file_pool = [f \in File |-> NoFile]
        /\ fd_cache = [fd \in FD |-> NULL] /\ cfs_fd = [fd \in CFS_FD |-> NULL]
    BY <2>1 DEF Cleared, Data
  <2>. QED BY <1>1, <1>3, <2>2, EmptyList
<1>. QED BY <1>2, <1>3

\* The counters of open files stay within the number of descriptors.
LEMMA InvTypes == SfsInv => TypeOK
<1>. SUFFICES ASSUME SfsInv PROVE TypeOK
  OBVIOUS
<1>1. /\ perm_pool \in [Perm -> PermRecord] /\ file_pool \in [File -> FileRecord]
      /\ free_perm_list \in Seq(Perm) /\ free_file_list \in Seq(File)
      /\ open_file_list \in Seq(File)
      /\ fd_cache \in [FD -> Perm \cup {NULL}]
      /\ cfs_fd \in [CFS_FD -> Name \cup {NULL}] /\ cfs_file \in [Name -> Contents]
      /\ \A f \in File : file_pool[f].acl \in Seq(Perm)
                         /\ file_pool[f].name \in Name \cup {NULL}
  <2>1. Data \in DataRecord
    BY InvOfVariables
  <2>. QED BY <2>1, GoodTypes DEF Data
<1>2. ASSUME NEW f \in File
      PROVE  file_pool[f].open_count \in 0 .. MAX_NB_OPEN_FILES
  <2>1. CASE INIT_DONE
    <3>1. file_pool[f].open_count = Cardinality(Connections(Data, f))
      BY <2>1 DEF SfsInv, Good, FdsInv, Data
    <3>2. IsFiniteSet(FD) /\ Cardinality(FD) = MAX_NB_OPEN_FILES
      <4>1. IsFiniteSet(0 .. MAX_NB_OPEN_FILES - 1)
            /\ Cardinality(0 .. MAX_NB_OPEN_FILES - 1)
                 = IF 0 > MAX_NB_OPEN_FILES - 1 THEN 0 ELSE (MAX_NB_OPEN_FILES - 1) - 0 + 1
        BY SizesAssumption, FS_Interval
      <4>. QED BY <4>1, SizesAssumption DEF FD
    <3>3. Connections(Data, f) \subseteq FD
      BY DEF Connections
    <3>4. /\ Cardinality(Connections(Data, f)) \in Nat
          /\ Cardinality(Connections(Data, f)) <= MAX_NB_OPEN_FILES
      BY <3>2, <3>3, FS_Subset, FS_CardinalityType
    <3>. QED BY <3>1, <3>4, SizesAssumption
  <2>2. CASE ~ INIT_DONE
    BY <2>2, InvOfVariables, SizesAssumption DEF NoFile
  <2>. QED BY <2>1, <2>2
<1>. QED BY <1>1, <1>2 DEF TypeOK, SfsInv, PermRecord, Contents

\* The invariant implies each of the properties.
LEMMA InvPools == SfsInv => PoolPartition
<1>. SUFFICES ASSUME SfsInv, INIT_DONE PROVE PoolPartition
  BY DEF PoolPartition
<1>1. /\ Good(Data) /\ IsInjective(free_perm_list) /\ IsInjective(free_file_list)
      /\ IsInjective(open_file_list) /\ Files \subseteq File /\ NULL \notin File
  <2>1. Good(Data)
    BY DEF SfsInv
  <2>2. ToSet(Data.files) \subseteq File /\ NULL \notin File
    BY <2>1, GoodTypes DEF Good
  <2>. QED BY <2>1, <2>2 DEF Good, FilesInv, PermsInv, Data, Files
<1>2. \A f \in Files : IsInjective(Acl(f))
  BY <1>1 DEF Good, PermsInv, Data, Acl
<1>3. \A f \in File : f \in Files <=> f \notin ToSet(free_file_list)
  BY <1>1 DEF Good, FilesInv, Data, Files
<1>4. ASSUME NEW p \in Perm
      PROVE  \/ p \in ToSet(free_perm_list) /\ \A f \in Files : p \notin ToSet(Acl(f))
             \/ /\ p \notin ToSet(free_perm_list)
                /\ perm_pool[p].file \in Files
                /\ \A f \in File :
                     (f \in Files /\ p \in ToSet(Acl(f))) <=> f = perm_pool[p].file
  <2>1. /\ p \in ToSet(free_perm_list) <=> perm_pool[p].file = NULL
        /\ perm_pool[p].file # NULL => perm_pool[p].file \in Files
        /\ \A f \in File : p \in ToSet(Acl(f)) <=> perm_pool[p].file = f
    BY <1>1 DEF Good, PermsInv, Data, Acl, Files
  <2>. QED BY <1>1, <2>1
<1>. QED BY <1>1, <1>2, <1>3, <1>4 DEF PoolPartition

\* ... that cached descriptors have a permission
LEMMA InvCache == SfsInv => NoDangling
<1>. SUFFICES ASSUME SfsInv, NEW fd \in FD, fd_cache[fd] # NULL
              PROVE  \E f \in Files : fd_cache[fd] \in ToSet(Acl(f))
  BY DEF NoDangling
<1>1. PICK d : d = Data
  OBVIOUS
<1>2. Good(d) /\ d.fds[fd] # NULL
  BY <1>1, InvOfVariables DEF Data
<1>3. /\ d.fds[fd] \in Perm /\ d.perm[d.fds[fd]].file \in File
      /\ d.perm[d.fds[fd]].file \in ToSet(d.files)
  BY <1>2, CachedFile
<1>4. d.fds[fd] \in ToSet(d.file[d.perm[d.fds[fd]].file].acl)
  BY <1>2, <1>3 DEF Good, PermsInv
<1>. QED BY <1>1, <1>3, <1>4 DEF Data, Acl, Files

\* ... that open files are counted
LEMMA InvCounts == SfsInv => OpenCounts
<1>. SUFFICES ASSUME SfsInv, NEW f \in Files
              PROVE  file_pool[f].open_count =
                       Cardinality({fd \in FD : /\ fd_cache[fd] # NULL
                                                /\ perm_pool[fd_cache[fd]].file = f})
  BY DEF OpenCounts
<1>1. Good(Data)
  BY InvOfVariables DEF Files
<1>2. f \in File
  BY <1>1, GoodTypes DEF Good, Data, Files
<1>3. Data.file[f].open_count = Cardinality(Connections(Data, f))
  BY <1>1, <1>2 DEF Good, FdsInv
<1>. QED BY <1>3 DEF Connections, Data

\* ... that the back-end agrees
LEMMA InvBackend == SfsInv => BackendAgrees
<1>. SUFFICES ASSUME SfsInv, NEW fd \in CFS_FD
              PROVE  cfs_fd[fd] = IF fd \in FD /\ fd_cache[fd] # NULL
                                  THEN file_pool[perm_pool[fd_cache[fd]].file].name
                                  ELSE NULL
  BY DEF BackendAgrees
<1>1. CASE INIT_DONE
  BY <1>1 DEF SfsInv, Good, FdsInv, Data
<1>2. CASE ~ INIT_DONE
  BY <1>2, InvOfVariables
<1>. QED BY <1>1, <1>2

\* ... that lists start with a creator.
LEMMA InvCreators == SfsInv => CreatorHeadsAcl
<1>. SUFFICES ASSUME SfsInv, NEW f \in Files
              PROVE  Acl(f) # <<>> /\ perm_pool[Head(Acl(f))].flags = SFS_CREATOR
  BY DEF CreatorHeadsAcl
<1>1. Good(Data)
  BY InvOfVariables DEF Files
<1>. QED BY <1>1 DEF Good, AclInv, Data, Files, Acl

\* The pools, lists and tables keep their shape, and a file is never open more
\* often than there are descriptors.
THEOREM SfsTypeCorrect == Spec => []TypeOK
BY SfsInvariant, InvTypes, PTL

\* No struct is lost or used twice over any sequence of calls and restarts.
THEOREM PoolsCorrect == Spec => []PoolPartition
BY SfsInvariant, InvPools, PTL

\* A cached descriptor never outlives its permission.
THEOREM CacheCorrect == Spec => []NoDangling
BY SfsInvariant, InvCache, PTL

\* open_count is the number of cached descriptors of the file.
THEOREM CountsCorrect == Spec => []OpenCounts
BY SfsInvariant, InvCounts, PTL

\* The front-end and the back-end agree on which descriptors are open and on which
\* file, also when an open fails half-way.
THEOREM BackendCorrect == Spec => []BackendAgrees
BY SfsInvariant, InvBackend, PTL

\* Every list starts with a creator's entry, so that revoke_acl may unlink an
\* entry through its predecessor only.
THEOREM CreatorsCorrect == Spec => []CreatorHeadsAcl
BY SfsInvariant, InvCreators, PTL
=============================================================================
