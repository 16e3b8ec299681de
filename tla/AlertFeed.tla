------------------------------ MODULE AlertFeed ------------------------------
(***************************************************************************)
(* What the service promises to the apps that have its alerts, whatever    *)
(* becomes of the polls: an alert tells what the newest row of its line    *)
(* says at that moment, a recovery goes only to who has been alerted, and  *)
(* a device is marked as alerted only once it has been told of the line as *)
(* it is.                                                                  *)
(***************************************************************************)
EXTENDS LineStatuses

VARIABLES
    log,          \* the rows of the lines' statuses
    registered,   \* the devices
    told,         \* the alerts given out: [event, device]
    marked        \* the devices marked as alerted to a line: <<device, line>>

Newest(rows) == {s \in rows : \A r \in rows : r.observed <= s.observed}

RowsOf(line) == {s \in log : s.line = line}

Latest(line) == Newest(RowsOf(line))

Before(s) == Newest({r \in RowsOf(s.line) : r.observed < s.observed})

Init == log = {} /\ registered = {} /\ told = {} /\ marked = {}

\* New rows are later than all there are, and one line has one of them.
Observe ==
    /\ log \subseteq log'
    /\ \A n \in log' \ log :
        /\ \A s \in log : s.observed < n.observed
        /\ \A m \in log' \ log :
            m.observed = n.observed /\ (m.line = n.line => m = n)
    /\ UNCHANGED <<registered, told, marked>>

\* The worst disruption of the line.
TellsDisruption(event) ==
    /\ event.type # Resumed
    /\ \E s \in Latest(event.line) :
        /\ s.observed = event.observed
        /\ \E x \in Disruptions(s.statuses) :
            /\ x.severity = event.severity /\ x.text = event.text
            /\ \A w \in Disruptions(s.statuses) : x.severity <= w.severity

\* The line is back to good service, and was disrupted just before.
TellsRecovery(event) ==
    /\ event.type = Resumed
    /\ \E s \in Latest(event.line) :
        /\ s.observed = event.observed
        /\ GoodServices(s.statuses) # {} /\ ~ IsDisrupted(s.statuses)
        /\ \E p \in Before(s) : IsDisrupted(p.statuses)

WasTold(device, line, before) ==
    \E a \in told : /\ a.device = device /\ a.event.line = line
                    /\ a.event.type # Resumed /\ a.event.observed < before

\* One event is told to some devices.
Tell ==
    /\ told \subseteq told'
    /\ \A a, b \in told' \ told : a.event = b.event
    /\ \A a \in told' \ told :
        \/ TellsDisruption(a.event)
        \/ /\ TellsRecovery(a.event)
           /\ WasTold(a.device, a.event.line, a.event.observed)
    /\ UNCHANGED <<log, registered, marked>>

\* Devices told of the line as it is now.
Mark ==
    /\ marked \subseteq marked'
    /\ \A m \in marked' \ marked :
        /\ m[1] \in registered
        /\ \E a \in told : \E s \in Latest(m[2]) :
            /\ a.device = m[1] /\ a.event.line = m[2]
            /\ a.event.type # Resumed /\ a.event.observed = s.observed
    /\ UNCHANGED <<log, registered, told>>

\* All the marks of a line that is not disrupted any more.
Clear ==
    /\ \E l \in {m[2] : m \in marked} :
        /\ \E s \in Latest(l) : ~ IsDisrupted(s.statuses)
        /\ marked' = {m \in marked : m[2] # l}
    /\ UNCHANGED <<log, registered, told>>

\* A device that leaves takes its marks with it.
Subscribe ==
    /\ marked' = {m \in marked : m[1] \in registered'}
    /\ UNCHANGED <<log, told>>

Next == Observe \/ Tell \/ Mark \/ Clear \/ Subscribe

Spec == Init /\ [][Next]_<<log, registered, told, marked>>
=============================================================================
