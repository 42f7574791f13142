\* A request thread and the scheduler race for the gate, under fairness.  Two
\* jobs and two scans are one more than each registry keeps.
CONSTANTS
    r1 = r1
    Scheduler = Scheduler
    ScanWorker = ScanWorker
    NoThread = NoThread
    Requests <- MCOneRequest
    JobLimit = 1
    ScanLimit = 1
    MaxJobs = 2
    MaxScans = 2
SPECIFICATION FairSpec
INVARIANTS TypeOK OneHolder OneMutator
PROPERTIES RegistriesKept GateIsOneToken NobodyWaitsForEver
CHECK_DEADLOCK FALSE
