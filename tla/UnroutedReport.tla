--------------------------- MODULE UnroutedReport ---------------------------
(***************************************************************************)
(* recordUnrouted of pkg/services/push.go over its error stream: what      *)
(* happens to an update that matched no subscription.  It is counted, and  *)
(* reported once per distinct id; the ids already reported are remembered  *)
(* in a set bounded by unroutedReportCap.  Several dispatchers (one per    *)
(* notify type) may be in it at once: the count and the set are updated    *)
(* under mu, the report follows outside it, on the stream that the         *)
(* reconnect hook and the transport's forwarder report to as well.         *)
(***************************************************************************)
EXTENDS ErrorStream

CONSTANTS
    IDs,          \* notifyIds of updates nobody subscribed to
    Dispatchers,  \* the reporters that are dispatcher goroutines
    ReportCap,    \* unroutedReportCap (64)
    MaxUpdates    \* bound on the unrouted updates

ASSUME UnroutedAssumption ==
    /\ IsFiniteSet(IDs) /\ NoOne \notin IDs
    /\ Dispatchers \subseteq Reporters \ {Forwarder}
    /\ ReportCap \in Nat /\ MaxUpdates \in Nat

VARIABLES
    unrouted,  \* o.unrouted
    seenIDs,   \* o.seenIDs
    pending,   \* per dispatcher: the id it is about to report, or NoOne
    subject,   \* per report made: the unrouted id it is about, or NoOne
    arrived    \* the ids of the updates recorded so far

unroutedVars == <<unrouted, seenIDs, pending, subject, arrived>>
allVars == <<streamVars, unroutedVars>>

UnroutedInit ==
    /\ StreamInit
    /\ unrouted = 0
    /\ seenIDs = {}
    /\ pending = [d \in Dispatchers |-> NoOne]
    /\ subject = <<>>
    /\ arrived = {}

-----------------------------------------------------------------------------
Remember(id) == IF Cardinality(seenIDs) < ReportCap THEN seenIDs \cup {id} ELSE seenIDs

\* Mutant: once the set is full nothing new is reported.
ReportsWhileRoom(id) == id \notin seenIDs /\ Cardinality(seenIDs) < ReportCap

\* An update of a known id is only counted.
Reports(id) == id \notin seenIDs

RecordUnrouted(d, id) ==
    /\ stream = "services"
    /\ holder # d
    /\ pending[d] = NoOne
    /\ unrouted < MaxUpdates
    /\ unrouted' = unrouted + 1
    /\ seenIDs' = Remember(id)
    /\ pending' = [pending EXCEPT ![d] = IF Reports(id) THEN id ELSE NoOne]
    /\ arrived' = arrived \cup {id}
    /\ UNCHANGED <<streamVars, subject>>

\* The report, which a closed stream drops.
ReportUnrouted(d) ==
    /\ pending[d] # NoOne
    /\ holder = NoOne
    /\ \/ Report(d) /\ subject' = Append(subject, pending[d])
       \/ ChecksClosed /\ StreamClosed /\ UNCHANGED <<streamVars, subject>>
    /\ pending' = [pending EXCEPT ![d] = NoOne]
    /\ UNCHANGED <<unrouted, seenIDs, arrived>>

\* A report about anything else.  The services' dispatchers make none.
ReportOther(r) ==
    /\ stream = "services" => r \notin Dispatchers
    /\ Report(r)
    /\ subject' = Append(subject, NoOne)
    /\ UNCHANGED <<unrouted, seenIDs, pending, arrived>>

UnroutedNext ==
    /\ ~panicked
    /\ \/ \E d \in Dispatchers, id \in IDs : RecordUnrouted(d, id)
       \/ \E d \in Dispatchers : ReportUnrouted(d)
       \/ \E r \in Reporters : ReportOther(r)
       \/ StreamStep /\ UNCHANGED unroutedVars

UnroutedSpec == UnroutedInit /\ [][UnroutedNext]_allVars

-----------------------------------------------------------------------------
ReportsOf(id) == {n \in 1..reported : subject[n] = id}

\* While the stream is open no unrouted id escapes notice, the caps of the set and
\* of the channel notwithstanding (recordUnrouted, report): a report of it reached
\* the application, waits for it, or is among the errors ErrorsDropped counts.
EveryIdIsAccountedFor ==
    /\ stream = "services" /\ ~StreamClosed /\ holder = NoOne
    /\ \A d \in Dispatchers : pending[d] = NoOne
    => \A id \in arrived :
          /\ ReportsOf(id) # {}
          /\ ReportsOf(id) \cap Reached = {} => errsDrop >= Cardinality(ReportsOf(id))

=============================================================================
