---------------------------- MODULE MCFileStore -----------------------------
(***************************************************************************)
(* Instances of FileStore for TLC.                                         *)
(***************************************************************************)
EXTENDS FileStore

CONSTANTS small, large

\* One content of one byte and one of two.
ContentSize == [c \in Contents |-> IF c = large THEN 2 ELSE 1]
=============================================================================
