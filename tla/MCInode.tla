------------------------------- MODULE MCInode -------------------------------
(* Small instances of Inode for TLC.  Files are interchangeable; modules    *)
(* are not, the bits of their ids count on the flash disk.                  *)
EXTENDS Inode, TLC
Symmetry == Permutations(Inode)

\* No action reads caller: states that differ in it alone have the same futures.
\* RightsOnlyByOwner looks at the caller of every step, also of one to a state
\* that was visited before.
view == state
=============================================================================
