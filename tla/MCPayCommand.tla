---------------------------- MODULE MCPayCommand ----------------------------
EXTENDS PayCommand

CONSTANTS Fixer, Tokens

MCStore == <<Fixer, Tokens>>

MCHook(id, access) == [id |-> id, mode |-> access]

\* A server that sees every hook and decides on one; a process, which is not
\* retried and may be ignored, that adds to the notifications.
MCDefinition ==
    [n \in {Fixer, Tokens} |->
        IF n = Fixer
        THEN [kind |-> "tcp", command |-> FALSE, retry |-> Absent, errorAction |-> "stop",
              lifespan |-> Absent,
              hooks |-> <<MCHook("all", "ro"), MCHook("check_balance", "rw")>>]
        ELSE [kind |-> "stdio", command |-> TRUE, retry |-> 1, errorAction |-> "continue",
              lifespan |-> Absent,
              hooks |-> <<MCHook("collect_additional_notification_data", "rw")>>]]
=============================================================================
