--------------------------- MODULE MCWebhookIngest ---------------------------
(***************************************************************************)
(* Small instances of WebhookIngest for TLC.                               *)
(***************************************************************************)
EXTENDS WebhookIngest, TLC

Item(event, incident) == [event |-> event, incident |-> incident]

Triggered == [source |-> "pagerduty", items |-> {Item("incident.triggered", "PD-1")}]
Untyped   == [source |-> "pagerduty",
              items |-> {Item("untyped", "PD-1"), Item("other", "PD-2")}]
Ping      == [source |-> "pagerduty", items |-> {Item("other", NoIncident)}]
Batch     == [source |-> "pagerduty",
              items |-> {Item("incident.triggered", "PD-1"),
                         Item("incident.triggered", "PD-2")}]
Generic   == [source |-> "generic_webhook", items |-> {Item("untyped", "PD-1")}]
SomeIncidents == {"PD-1", "PD-2"}
OneIncident   == {"PD-1"}
PagerDuty     == {Triggered, Untyped, Ping, Batch}
OneAlert      == {Generic}
==============================================================================
