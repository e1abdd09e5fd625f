---------------------------- MODULE MCHotReload ----------------------------
(* HotReload in three environments: events only, polling only, and everything *)
(* at once.                                                                   *)
EXTENDS HotReload

MCEvents == [versions |-> 3, bad |-> {<<"security", 2>>}, noLogDir |-> {2},
             notifies |-> TRUE, polls |-> FALSE, coarse |-> TRUE, sighups |-> 0]

MCPoll == [MCEvents EXCEPT !.notifies = FALSE, !.polls = TRUE, !.coarse = FALSE]

MCAll == [versions |-> 2, bad |-> {}, noLogDir |-> {},
          notifies |-> TRUE, polls |-> TRUE, coarse |-> FALSE, sighups |-> 1]

MCEnvironments == {MCEvents, MCPoll, MCAll}
MCEventsOnly == {MCEvents}
MCPollOnly == {MCPoll}
=============================================================================
