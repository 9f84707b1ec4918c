---------------------------- MODULE MCUpdateChecker ----------------------------
(* Values for the constants of UpdateChecker. *)
EXTENDS UpdateChecker

CONSTANTS stable, develop

MCChannels == {stable, develop}

\* A list may lack develop, or both channels.
AnyList == {{}, {stable}, {stable, develop}}
=============================================================================
