---------------------------- MODULE DaemonStatus ----------------------------
(***************************************************************************)
(* The mapping of the daemon's Status answer to a connection state         *)
(* (internal/netbird/status/status.go).  The daemon's status string is     *)
(* free text: it is modelled by the classes of words that mapStatusString  *)
(* finds in it.  fullStatus is the set of the facts the mapping reads;     *)
(* "error" stands for an error of management, signal, a relay or a DNS     *)
(* server and for an event of severity ERROR or CRITICAL.                  *)
(***************************************************************************)

Words == {"failing", "stopped", "moving", "up"}
Parts == {"management", "signal", "address"}
Facts == Parts \cup {"present", "error"}
Response == [words : SUBSET Words, full : SUBSET Facts]

States == {"unknown", "disconnected", "connecting", "connected", "failed"}

\* The first class found decides: a failure, then a stop, then a transition.
MapStatusString(words) ==
    IF "failing" \in words THEN "failed"
    ELSE IF "stopped" \in words THEN "disconnected"
    ELSE IF "moving" \in words THEN "connecting"
    ELSE IF "up" \in words THEN "connected" ELSE "unknown"

\* The fallback when the string says nothing.
MapFullStatus(full) ==
    IF "present" \notin full THEN "unknown"
    ELSE IF Parts \subseteq full THEN "connected"
    ELSE IF Parts \cap full # {} THEN "connecting" ELSE "disconnected"

FullStatusFailure(full) == {"present", "error"} \subseteq full

\* An error overrides everything but a string that says connected.
Map(resp) ==
    LET mapped == MapStatusString(resp.words) IN
    IF FullStatusFailure(resp.full) /\ mapped # "connected" THEN "failed"
    ELSE IF mapped = "unknown" THEN MapFullStatus(resp.full)
    ELSE mapped

=============================================================================
