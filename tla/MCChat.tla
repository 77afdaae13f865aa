------------------------------- MODULE MCChat -------------------------------
(***************************************************************************)
(* Two processes, two messages and a few things at a time that may happen.   *)
(* "one": one message is enough; "brief": the second is answered at once.    *)
(***************************************************************************)
EXTENDS AdminChat

MixesValue ==
    {{"tutor", "chitchat", "stop"}, {"tutor", "chitchat", "crash"}, {"admin", "chitchat", "race"},
     {"tutor", "chitchat", "follow"}, {"tutor", "chitchat", "new", "sync", "delete"},
     {"tutor", "chitchat", "stall", "fail", "one"}, {"tutor", "chitchat", "crash", "follow", "one"},
     {"tutor", "chitchat", "late", "follow", "one"}, {"tutor", "chitchat", "readers", "crash", "one"},
     {"tutor", "rag", "sql", "guarded", "one"}, {"tutor", "action", "new", "brief"},
     {"tutor", "action", "resume", "sync", "fail", "one"}, {"tutor", "action", "resume", "crash", "one"},
     {"admin", "action", "resume", "brief"}, {"admin", "action", "resume", "stop", "one"},
     {"admin", "action", "sync", "brief"}, {"admin", "action", "resume", "follow", "one"},
     {"admin", "chitchat", "crash", "delete", "follow", "one"}}
=============================================================================
