----------------------------- MODULE MCSupervisor -----------------------------
(***************************************************************************)
(* Protocols the adapters select (installed_adapters.rs protocol, runner.rs *)
(* observers), cut down to one record kind per role.                        *)
(***************************************************************************)
EXTENDS Supervisor

\* An adapter without stdin whose harness may also write an empty line.
BlankKinds == {"start", "event", "terminal", "empty"}

\* The OMP RPC adapter: a late acknowledgement may follow the terminal record,
\* and its controller answers admitted records with stdin frames; a record may
\* be beyond the limit.
OmpKinds   == {"start", "ack", "terminal", "huge"}
OmpAllowed == {"ack"}

\* The Prime RPC adapter: the terminal record is a candidate, and stdin closes
\* at the acknowledgement of the prompt; a record may be a failure, and the
\* last one may be cut.
PrimeKinds   == {"start", "ack", "refused", "terminal", "failure", "partial"}
PrimeAllowed == {"start", "ack", "refused"}

StartOnly == {"start"}
AckOnly   == {"ack"}
NoKinds   == {}

\* One of cancellation and the two deadlines comes in a run, or none.
OneExpiry == Cardinality({e \in {<<1, cancelled>>, <<2, startupDue>>, <<3, runDue>>} : e[2]}) <= 1
=============================================================================
