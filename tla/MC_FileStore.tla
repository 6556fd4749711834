---------------------------- MODULE MC_FileStore ----------------------------
(* Model-checking instance of FileStore: two refresh secrets.             *)
EXTENDS FileStore, TLC

CONSTANTS s1, s2

=============================================================================
