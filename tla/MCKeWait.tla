------------------------------ MODULE MCKeWait ------------------------------
EXTENDS KeWait, TLC

CONSTANTS t1, t2, E, N, S, M

TwoThreads == {t1, t2}
FourObjects == {E, N, S, M}
TypeOf == E :> "SynchronizationEvent" @@ N :> "NotificationEvent" @@ S :> "Semaphore" @@ M :> "Mutant"

Request(o, type, timeout, alertable, mode) ==
    [Object |-> o, WaitType |-> type, Timeout |-> timeout, Alertable |-> alertable, WaitMode |-> mode]

OnlyE == {E}

\* t1 waits for a mutant and an event together, t2 for one of several objects,
\* among which the boosted event is the first or the last.
WaitsOf ==
    t1 :> {Request(<<M, E>>, "All", "later", FALSE, KernelMode)} @@
    t2 :> {Request(<<E, N>>, "Any", "none", TRUE, UserMode),
           Request(<<S, M, E>>, "Any", "none", FALSE, KernelMode),
           Request(<<S>>, "Any", "zero", FALSE, KernelMode)}
ApcsOf == t1 :> {"normal"} @@ t2 :> {"exit"}
AlertsOf == t1 :> {} @@ t2 :> {KernelMode}
MinusOne == -1
=============================================================================
