SPECIFICATION Spec
CONSTANTS
    start = start
    run = run
    run2 = run2
    ask = ask
    save = save
    hello = hello
    ann = ann
    eve = eve
    Procs = {p1, p2}
    Messages = {start, run, run2, ask, save, hello}
    KindOf <- Kind
    Senders = {ann, eve}
    SenderOf <- Sender
    Monarchs = {eve}
    DedupeTtl = 0
    DedupeMax = 1
    WindowMs = 1
    MaxCalls = 1
    Faults = {"query", "probe", "answer", "handler", "crash"}
    NoProc = NoProc
    NoMessage = NoMessage
    MaxDeliveries = 3
    Inboxes <- Pairs
    MaxTime = 1
    MaxFaults = 1
INVARIANTS TypeOK GuardedOnce DropsHaveOwner SafeAnswered RememberedOnce
SYMMETRY ProcSymmetry
CHECK_DEADLOCK FALSE
