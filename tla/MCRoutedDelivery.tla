-------------------------- MODULE MCRoutedDelivery --------------------------
(* Instances of RoutedDelivery for TLC.                                     *)
EXTENDS RoutedDelivery

To(destination) ==
    [destination |-> destination, event_type |-> None, repo |-> None, branch |-> None]

\* Every order of two of these, and what is not a table.
MCRoutes == {[To("telegram") EXCEPT !.repo = "a/b"], To("discord"),
             [To("slack") EXCEPT !.branch = "main"],
             [To("custom") EXCEPT !.event_type = "push"], To("nobody")}
MCSources == {Malformed, <<Malformed, To("discord")>>}
               \union {<<q, r>> : q \in MCRoutes, r \in MCRoutes}

MCFlags == {{}, {"telegram"}, {"discord", "custom"}}

MCEvents == {[event_type |-> "push", repo |-> "a/b", ref |-> "dev", base |-> None, head |-> None],
             [event_type |-> "pull_request", repo |-> "c/d", ref |-> None, base |-> "main",
              head |-> None]}
=============================================================================
