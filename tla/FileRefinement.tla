--------------------------- MODULE FileRefinement ---------------------------
(***************************************************************************)
(* FileStore implements FileLifecycle.  A file is what its metadata says;  *)
(* without metadata it has not appeared yet if its deletion has never been *)
(* asked for, and otherwise it is gone, or its bytes are left.             *)
(***************************************************************************)
EXTENDS FileStore

Phase(f) ==
    IF Stored(f) THEN IF files[f].deleted THEN "deleted" ELSE "visible"
    ELSE IF asked[f] = None THEN "none"
    ELSE IF f \in disk THEN "left" ELSE "gone"

Lifecycle == INSTANCE FileLifecycle WITH phase <- [f \in Files |-> Phase(f)]

\* However uploads, deletions, cleanups, failures and crashes interleave, each
\* file goes through the life FileLifecycle promises.
ImplementsLifecycle == Lifecycle!Spec
=============================================================================
