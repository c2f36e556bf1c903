-------------------------------- MODULE MCSfs --------------------------------
(* Small instances of Sfs for TLC.  Clients and names are interchangeable.  *)
EXTENDS Sfs
DefinedFlags == {SFS_NIL, SFS_READ, SFS_ROOT, SFS_CREATOR}
SomeFlags == DefinedFlags \cup {SFS_CREATOR \cup {8}}
ReadOrAll == {SFS_READ, SFS_ROOT}
Symmetry == Permutations(Name) \cup Permutations(SM)

\* No action reads granted, and no invariant mentions it: states that differ in
\* it alone have the same futures.  The action properties look at the granted of
\* every step, also of one to a state that was visited before.
view == <<perm_pool, file_pool, free_perm_list, free_file_list, open_file_list,
          fd_cache, INIT_DONE, backend>>
=============================================================================
