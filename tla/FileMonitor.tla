----------------------------- MODULE FileMonitor -----------------------------
(***************************************************************************)
(* What the SFS front-end promises to its clients (sfs.h): an access       *)
(* control matrix that decides every access of a calling SM to a logical   *)
(* file, and whose changes have direct effect on the open files.  Sfs      *)
(* implements this module with lists, pools and a file descriptor cache.   *)
(***************************************************************************)
EXTENDS FiniteSets

CONSTANTS
  Name, SM, FD,
  Flags, Wanted,  \* the permissions given and asked for, sets of bits
  SFS_READ, SFS_WRITE, SFS_ROOT, SFS_CREATOR,
  NOBODY          \* no opener

VARIABLES
  rights,   \* [Name -> [SM -> Flags]], {} for no entry
  opened,   \* [FD -> <<the SM that opened it, the file>> or NOBODY]
  granted   \* the access the last call was granted, NOTHING if none

vars == <<rights, opened, granted>>

NOTHING == <<>>
NoRights == [sm \in SM |-> {}]
Exists(name) == rights[name] # NoRights

Init ==
  /\ rights = [name \in Name |-> NoRights]
  /\ opened = [fd \in FD |-> NOBODY]
  /\ granted = NOTHING

\* An open file connection of sm on name, if the back-end gives one.
Connect(sm, name, access) ==
  \/ \E fd \in FD :
       /\ opened[fd] = NOBODY
       /\ opened' = [opened EXCEPT ![fd] = <<sm, name>>]
       /\ granted' = access
  \/ UNCHANGED opened /\ granted' = NOTHING

\* The first SM to open a file becomes its creator.
Create(sm, name) ==
  /\ ~ Exists(name)
  /\ rights' = [rights EXCEPT ![name][sm] = SFS_CREATOR]
  /\ Connect(sm, name, <<"create", sm, name>>)

Open(sm, name, want) ==
  /\ UNCHANGED rights
  /\ rights[name][sm] # {} /\ want \subseteq rights[name][sm]
  /\ Connect(sm, name, <<"open", sm, name, want>>)

Close(sm, fd) ==
  /\ granted' = NOTHING
  /\ opened[fd] # NOBODY /\ opened[fd][1] = sm
  /\ opened' = [opened EXCEPT ![fd] = NOBODY]
  /\ UNCHANGED rights

\* A byte is read or written with the permissions sm has now, whatever the
\* ones it opened the file with.
Access(fd, op, want) ==
  /\ opened[fd] # NOBODY
  /\ LET sm == opened[fd][1]  name == opened[fd][2]
     IN  want \subseteq rights[name][sm] /\ granted' = <<op, sm, name>>
  /\ UNCHANGED <<rights, opened>>

IsRoot(sm, name) == SFS_ROOT \subseteq rights[name][sm]

\* Revoke the permissions of id; its connections are closed.
Revoke(sm, name, id) ==
  /\ granted' = NOTHING
  /\ IsRoot(sm, name)
  /\ rights[name][id] # SFS_CREATOR
  /\ rights' = [rights EXCEPT ![name][id] = {}]
  /\ opened' = [fd \in FD |-> IF opened[fd] = <<id, name>>
                              THEN NOBODY ELSE opened[fd]]

\* Give id new permissions; its connections stay.
Assign(sm, name, id, flags) ==
  /\ granted' = NOTHING /\ UNCHANGED opened
  /\ IsRoot(sm, name)
  /\ rights[name][id] # SFS_CREATOR
  /\ rights[name][id] = {} => flags # SFS_CREATOR
  /\ rights' = [rights EXCEPT ![name][id] = flags]

\* A file is removed by a root of it while nobody has it open.
Remove(sm, name) ==
  /\ granted' = NOTHING
  /\ IsRoot(sm, name)
  /\ \A fd \in FD : opened[fd] # NOBODY => opened[fd][2] # name
  /\ rights' = [rights EXCEPT ![name] = NoRights]
  /\ UNCHANGED opened

\* Whoever has all the permissions of a creator is attested to be it: also one who
\* was given them later, or with bits besides, neither of which sfs.h:292-297
\* speaks of.
Attest(name, owner) ==
  /\ granted' = <<"attest", owner, name>>
  /\ SFS_CREATOR \subseteq rights[name][owner]
  /\ UNCHANGED <<rights, opened>>

Refuse == granted' = NOTHING /\ UNCHANGED <<rights, opened>>

Reboot ==
  /\ rights' = [name \in Name |-> NoRights]
  /\ opened' = [fd \in FD |-> NOBODY]
  /\ granted' = NOTHING

Next ==
  \/ Refuse
  \/ Reboot
  \/ \E fd \in FD : Access(fd, "read", SFS_READ) \/ Access(fd, "write", SFS_WRITE)
  \/ \E sm \in SM, fd \in FD : Close(sm, fd)
  \/ \E sm \in SM, name \in Name :
       \/ Create(sm, name)
       \/ \E want \in Wanted : Open(sm, name, want)
       \/ \E id \in SM : Revoke(sm, name, id)
       \/ \E id \in SM, flags \in Flags \ {{}} : Assign(sm, name, id, flags)
       \/ Remove(sm, name)
       \/ Attest(name, sm)

Spec == Init /\ [][Next]_vars
=============================================================================
