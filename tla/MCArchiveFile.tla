---------------------------- MODULE MCArchiveFile ----------------------------
(* Instances of ArchiveFile for TLC: three sections with CONTENT in the *)
(* middle, so that a section lies before it and one behind it.          *)
EXTENDS ArchiveFile
=============================================================================
