--------------------------- MODULE MCEntryReader ---------------------------
(***************************************************************************)
(* The small streams of MCStreamReader, read through the drivers.          *)
(***************************************************************************)
EXTENDS EntryReader, MCStreamReader
=============================================================================
