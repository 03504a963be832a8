--------------------------- MODULE MCEntryPipeline ---------------------------
(***************************************************************************)
(* The reply sets the runs of EntryPipeline choose from.                   *)
(***************************************************************************)
EXTENDS EntryPipeline

\* Everything open_market can come back with.
AllReplies   == ReplyKinds
\* Every answer leaves something to be found out.
UnsureOnly   == {"dealFirst", "unresolved", "unclear"}
\* No fill without a ticket: the lost answers alone.
UnclearOnly  == {"rejected", "filled", "unclear"}
=============================================================================
