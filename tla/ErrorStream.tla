---------------------------- MODULE ErrorStream ----------------------------
(***************************************************************************)
(* The bounded, drop-oldest error streams of the push stack.  There are    *)
(* three, written alike and not quite the same:                            *)
(*   "services"   PushOrchestration.report and Close (pkg/services)        *)
(*   "transport"  PushAdapter.emit, Report and Close (pkg/transport)       *)
(*   "push"       Client.report and Close (internal/push)                  *)
(* A report holds errcMu throughout; the application receives without it.  *)
(* Close sets a flag, joins the stream's own forwarding goroutine where it *)
(* has one, and closes the channel under errcMu.  Other goroutines may     *)
(* report at any time, also after Close.                                   *)
(***************************************************************************)
EXTENDS Naturals, Sequences, FiniteSets, Functions

CONSTANTS
    Streams,     \* the streams considered; a behaviour is about one of them
    Reporters,   \* goroutines that report
    Forwarder,   \* the reporter Close joins first ("push" has none)
    Buffer,      \* capacity of errc
    MaxReports,  \* bound on the reports made
    NoOne

ASSUME StreamAssumption ==
    /\ Streams \subseteq {"services", "transport", "push"}
    /\ Buffer \in Nat \ {0} /\ MaxReports \in Nat
    /\ Forwarder \in Reporters
    /\ NoOne \notin Reporters

VARIABLES
    stream,     \* which stream this is
    errc,       \* numbers of the buffered errors
    received,   \* numbers of the errors the application received
    reported,   \* reports that got past the closed check
    holder,     \* who holds errcMu
    step,       \* the select the holder is at
    errsDrop,   \* o.errsDrop ("services" only)
    closing,    \* where Close is
    panicked    \* a send on the closed channel

streamVars == <<stream, errc, received, reported, holder, step, errsDrop, closing, panicked>>

Full == Len(errc) >= Buffer
StreamClosed == closing # "open"

StreamTypeOK ==
    /\ stream \in Streams
    /\ errc \in Seq(1..MaxReports) /\ Len(errc) <= Buffer
    /\ received \in Seq(1..MaxReports)
    /\ reported \in 0..MaxReports
    /\ holder \in Reporters \cup {NoOne}
    /\ step \in {"none", "send", "evict", "resend"}
    /\ errsDrop \in 0..MaxReports
    /\ closing \in {"open", "flagged", "joined", "closed"}
    /\ panicked \in BOOLEAN

StreamInit ==
    /\ stream \in Streams
    /\ errc = <<>> /\ received = <<>> /\ reported = 0
    /\ holder = NoOne /\ step = "none"
    /\ errsDrop = 0
    /\ closing = "open"
    /\ panicked = FALSE

-----------------------------------------------------------------------------
\* The forwarding goroutine (drainTransportErrors, translateErrors) stops when
\* Close has joined it; any other goroutine may still call report.
MayReport(r) == r = Forwarder /\ stream # "push" => closing \in {"open", "flagged"}

\* Mutant: no stream looks at its closed flag.
IgnoresClosed == FALSE

\* report checks closed under errcMu; emit has no check.
ChecksClosed == stream \in {"services", "push"}

\* A report to a stream that checks and is closed returns: no step.
Report(r) ==
    /\ holder = NoOne
    /\ MayReport(r)
    /\ reported < MaxReports
    /\ ~(ChecksClosed /\ StreamClosed)
    /\ reported' = reported + 1
    /\ holder' = r
    /\ step' = "send"
    /\ UNCHANGED <<stream, errc, received, errsDrop, closing, panicked>>

Done == holder' = NoOne /\ step' = "none"

\* A select with a send on a closed channel panics, full or not.
SendClosed ==
    /\ step \in {"send", "resend"}
    /\ closing = "closed"
    /\ panicked' = TRUE
    /\ Done
    /\ UNCHANGED <<stream, errc, received, reported, errsDrop, closing>>

Send ==
    /\ step = "send"
    /\ closing # "closed"
    /\ \/ ~Full /\ errc' = Append(errc, reported) /\ Done
       \/ Full /\ step' = "evict" /\ UNCHANGED <<errc, holder>>
    /\ UNCHANGED <<stream, received, reported, errsDrop, closing, panicked>>

\* Mutant: every overflow is counted, the application having made room or not.
EvictCountsAlways ==
    /\ step = "evict"
    /\ errc' = IF errc = <<>> THEN errc ELSE Tail(errc)
    /\ errsDrop' = IF stream = "services" THEN errsDrop + 1 ELSE errsDrop
    /\ step' = "resend"
    /\ UNCHANGED <<stream, received, reported, holder, closing, panicked>>

Evict ==
    /\ step = "evict"
    /\ errc' = IF errc = <<>> THEN errc ELSE Tail(errc)
    /\ errsDrop' = IF stream = "services" /\ errc # <<>> THEN errsDrop + 1 ELSE errsDrop
    /\ step' = "resend"
    /\ UNCHANGED <<stream, received, reported, holder, closing, panicked>>

Resend ==
    /\ step = "resend"
    /\ closing # "closed"
    /\ errc' = IF Full THEN errc ELSE Append(errc, reported)
    /\ Done
    /\ UNCHANGED <<stream, received, reported, errsDrop, closing, panicked>>

\* external: the application receives; a closed channel can still be drained.
Receive ==
    /\ errc # <<>>
    /\ received' = Append(received, Head(errc))
    /\ errc' = Tail(errc)
    /\ UNCHANGED <<stream, reported, holder, step, errsDrop, closing, panicked>>

\* closed.Store(true) or close(done).
CloseSetsFlag ==
    /\ closing = "open"
    /\ closing' = "flagged"
    /\ UNCHANGED <<stream, errc, received, reported, holder, step, errsDrop, panicked>>

\* wg.Wait: the forwarder is not inside a report, and makes no other.
CloseJoin ==
    /\ closing = "flagged"
    /\ holder # Forwarder \/ stream = "push"
    /\ closing' = "joined"
    /\ UNCHANGED <<stream, errc, received, reported, holder, step, errsDrop, panicked>>

CloseChannel ==
    /\ closing = "joined"
    /\ holder = NoOne
    /\ closing' = "closed"
    /\ UNCHANGED <<stream, errc, received, reported, holder, step, errsDrop, panicked>>

\* The steps of whoever holds errcMu, of the application and of Close.
StreamStep ==
    \/ SendClosed \/ Send \/ Evict \/ Resend \/ Receive
    \/ CloseSetsFlag \/ CloseJoin \/ CloseChannel

\* A panic ends the program.
StreamNext == ~panicked /\ ((\E r \in Reporters : Report(r)) \/ StreamStep)

StreamSpec == StreamInit /\ [][StreamNext]_streamVars

-----------------------------------------------------------------------------
Reached == Range(received) \cup Range(errc)

\* No report is ever sent on the closed channel, however reports, the forwarding
\* goroutine and Close interleave (report and Close of the services and the push
\* stream, which check the flag under errcMu).
NeverPanics == stream # "transport" => ~panicked

\* A report after Close is dropped, on every stream (PushAdapter.Report).
LateReportIsDropped == ~panicked

\* ErrorsDropped is exactly the number of errors that were raised and lost.
DropsAreExact ==
    stream = "services" /\ holder = NoOne =>
        errsDrop = Cardinality((1..reported) \ Reached)

=============================================================================
